-------------------------- MODULE ToolDiscoveryProofs --------------------------
(* Proofs about ToolDiscovery, for any tools, lists and answers: no goroutine *)
(* sends into the closed channel, discovery is the abstract one, and a call   *)
(* runs a tool that is not withheld, in its newest version.                   *)
EXTENDS ToolDiscovery, ListsProofs, SequenceTheorems, TLAPS

(* The wait group is the goroutines under way. *)
WaitGroup ==
    wg = {i \in DOMAIN slugs : g[i] \in {"fetching", "sending", "sent"}}

(* main starts them in order, before the closer. *)
Started ==
    /\ \A i \in DOMAIN slugs : g[i] = "new" <=> i >= next
    /\ pc \in {"important", "all"} => next = 1
    /\ pc \in {"important", "all", "launch"} => closer = "none"
    /\ pc \notin {"important", "all", "launch"} /\ pc # "failed" => next = Len(slugs) + 1
    /\ closer # "none" => next = Len(slugs) + 1

(* The closer has seen the wait group at zero. *)
Closed == closer = "closed" => wg = {}

(* What main knows of the lists before the goroutines. *)
Listed ==
    /\ pc = "important" => slugs = <<>> /\ got = <<>>
    /\ pc = "all" => slugs \in Lists
    /\ pc \in {"important", "all"} => ch = <<>>
    /\ pc \in {"important", "all", "launch", "collect"} => tools = <<>>

(* An answer is there from the fetch on; the channel carries it with its own *)
(* index, and it is in the channel until main has it.                        *)
Answered == \A i \in DOMAIN slugs : got[i] = Pending <=> g[i] \in {"new", "fetching"}
Carried == \A k \in DOMAIN ch : ch[k].tool = got[ch[k].idx]
Heard ==
    \A i \in DOMAIN slugs :
        g[i] \in {"sent", "done"} =>
            fetched[i] = got[i] \/ \E k \in DOMAIN ch : ch[k].idx = i

IInv == TypeOK /\ WaitGroup /\ Started /\ Closed /\ Listed /\ Answered /\ Carried /\ Heard

Message == [idx : DOMAIN slugs, tool : Tool \cup {Null}]

LEMMA Indices ==
    ASSUME TypeOK
    PROVE  /\ Len(slugs) \in Nat /\ DOMAIN slugs = 1..Len(slugs)
           /\ next \in Nat /\ next <= Len(slugs) + 1
<1>1. slugs \in Seq(Slugs)
  BY DEF TypeOK
<1>2. Len(slugs) \in Nat /\ DOMAIN slugs = 1..Len(slugs)
  BY <1>1
<1>3. next \in 1..(Len(slugs) + 1)
  BY DEF TypeOK
<1> QED
  BY <1>2, <1>3

LEMMA Messages ==
    ASSUME TypeOK
    PROVE  /\ ch \in Seq(Message)
           /\ Len(ch) \in Nat /\ DOMAIN ch = 1..Len(ch)
           /\ \A k \in DOMAIN ch : ch[k].idx \in DOMAIN slugs /\ ch[k].tool \in Tool \cup {Null}
<1>1. ch \in Seq(Message)
  BY DEF TypeOK, Message
<1>2. Len(ch) \in Nat /\ DOMAIN ch = 1..Len(ch) /\ \A k \in DOMAIN ch : ch[k] \in Message
  BY <1>1
<1> QED
  BY <1>1, <1>2 DEF Message

LEMMA InitIInv == Init => IInv
<1> SUFFICES ASSUME Init PROVE IInv
  OBVIOUS
<1> DOMAIN slugs = {} /\ DOMAIN ch = {} /\ Len(slugs) = 0
  BY DEF Init
<1>1. TypeOK
  BY DEF Init, TypeOK
<1> QED
  BY <1>1 DEF Init, IInv, WaitGroup, Started, Closed, Listed, Answered, Carried, Heard

LEMMA TookIInv ==
    ASSUME IInv, NEW l \in Lists, Took(l),
           pc \in {"important", "all"}, pc' \in {"all", "launch"}
    PROVE  IInv'
<1> USE DiscoveryAssumption
<1>0. next = 1 /\ closer = "none" /\ ch = <<>> /\ tools = <<>> /\ wg = {}
  BY DEF IInv, TypeOK, Started, WaitGroup, Listed
<1>1. /\ l \in Seq(Slugs) /\ slugs' = l /\ DOMAIN l = 1..Len(l) /\ Len(l) \in Nat
      /\ next' = 1 /\ closer' = "none" /\ ch' = <<>> /\ wg' = {}
  BY <1>0 DEF Took, adapter
<1>2. TypeOK'
  BY <1>0, <1>1 DEF IInv, TypeOK, Took, adapter
<1> QED
  BY <1>0, <1>1, <1>2
  DEF IInv, WaitGroup, Started, Closed, Listed, Answered, Carried, Heard, Took, adapter

LEMMA LaunchIInv == IInv /\ Launch => IInv'
<1> SUFFICES ASSUME IInv, Launch PROVE IInv'
  OBVIOUS
<1> next \in DOMAIN slugs /\ DOMAIN slugs = 1..Len(slugs) /\ Len(slugs) \in Nat /\ next \in Nat
  <2>1. TypeOK /\ next <= Len(slugs) /\ next >= 1
    BY DEF IInv, TypeOK, Launch
  <2> QED
    BY <2>1, Indices
<1>1. TypeOK'
  <2>1. g' \in [DOMAIN slugs -> {"new", "fetching", "sending", "sent", "done"}]
    BY DEF IInv, TypeOK, Launch
  <2>2. next' \in 1..(Len(slugs) + 1) /\ wg' \subseteq DOMAIN slugs
    BY DEF IInv, TypeOK, Launch
  <2> QED
    BY <2>1, <2>2 DEF IInv, TypeOK, Launch, adapter
<1>2. WaitGroup' /\ Started' /\ Closed'
  BY DEF IInv, TypeOK, WaitGroup, Started, Closed, Launch
<1>3. Listed' /\ Answered' /\ Carried' /\ Heard'
  BY DEF IInv, TypeOK, Started, Listed, Answered, Carried, Heard, Launch, adapter
<1> QED
  BY <1>1, <1>2, <1>3 DEF IInv

LEMMA FetchIInv == ASSUME IInv, NEW i \in DOMAIN slugs, Fetch(i) PROVE IInv'
<1> USE DiscoveryAssumption
<1>0. PICK t \in Tool \cup {Null} : got' = [got EXCEPT ![i] = t]
  BY DEF Fetch, GetToolV3, get
<1>1. TypeOK'
  BY <1>0 DEF IInv, TypeOK, Fetch, adapter
<1>2. WaitGroup' /\ Started' /\ Closed' /\ Listed'
  BY DEF IInv, TypeOK, WaitGroup, Started, Closed, Listed, Fetch, adapter
<1>3. Answered' /\ Heard'
  BY <1>0 DEF IInv, TypeOK, Answered, Heard, Fetch
<1>4. Carried'
  <2>1. \A k \in DOMAIN ch : ch[k].idx \in DOMAIN slugs /\ ch[k].tool \in Tool \cup {Null}
    BY Messages DEF IInv
  <2>2. ASSUME NEW k \in DOMAIN ch PROVE ch[k].idx # i
    BY <2>1 DEF IInv, Answered, Carried, Fetch
  <2> QED
    BY <1>0, <2>1, <2>2 DEF IInv, TypeOK, Carried, Fetch
<1> QED
  BY <1>1, <1>2, <1>3, <1>4 DEF IInv

LEMMA SendIInv == ASSUME IInv, NEW i \in DOMAIN slugs, Send(i) PROVE IInv'
<1> DEFINE msg == [idx |-> i, tool |-> got[i]]
<1> USE DiscoveryAssumption
<1>0. msg \in [idx : DOMAIN slugs, tool : Tool \cup {Null}]
  BY DEF IInv, TypeOK, Answered, Send
<1>a. ch \in Seq([idx : DOMAIN slugs, tool : Tool \cup {Null}]) /\ ch' = Append(ch, msg)
  BY DEF IInv, TypeOK, Send
<1> HIDE DEF msg
<1>b. /\ ch' \in Seq([idx : DOMAIN slugs, tool : Tool \cup {Null}])
      /\ Len(ch) \in Nat /\ DOMAIN ch = 1..Len(ch) /\ DOMAIN ch' = 1..(Len(ch) + 1)
      /\ \A k \in DOMAIN ch : ch'[k] = ch[k]
      /\ ch'[Len(ch) + 1] = msg
  BY <1>0, <1>a
<1>1. TypeOK'
  BY <1>b DEF IInv, TypeOK, Send, adapter
<1>n. pc \notin {"important", "all"}
  BY Indices DEF IInv, Started, Send
<1>2. WaitGroup' /\ Started' /\ Closed' /\ Listed'
  BY <1>n DEF IInv, TypeOK, WaitGroup, Started, Closed, Listed, Send, adapter
<1>3. Answered'
  BY DEF IInv, TypeOK, Answered, Send
<1>4. Carried'
  BY <1>b DEF IInv, Carried, Send, msg
<1>5. Heard'
  <2> SUFFICES ASSUME NEW j \in DOMAIN slugs, g'[j] \in {"sent", "done"}
               PROVE  fetched[j] = got[j] \/ \E k \in DOMAIN ch' : ch'[k].idx = j
    BY DEF Heard, Send
  <2>1. CASE j = i
    BY <1>b, <2>1 DEF msg
  <2>2. CASE j # i
    BY <1>b, <2>2 DEF IInv, TypeOK, Heard, Send
  <2> QED
    BY <2>1, <2>2
<1> QED
  BY <1>1, <1>2, <1>3, <1>4, <1>5 DEF IInv

LEMMA DoneIInv == ASSUME IInv, NEW i \in DOMAIN slugs, Done(i) PROVE IInv'
<1>1. TypeOK'
  BY DEF IInv, TypeOK, Done, adapter
<1>2. WaitGroup' /\ Started' /\ Closed' /\ Listed'
  BY DEF IInv, TypeOK, WaitGroup, Started, Closed, Listed, Done, adapter
<1>3. Answered' /\ Carried' /\ Heard'
  BY DEF IInv, TypeOK, Answered, Carried, Heard, Done
<1> QED
  BY <1>1, <1>2, <1>3 DEF IInv

LEMMA ReceiveIInv == IInv /\ Receive => IInv'
<1> SUFFICES ASSUME IInv, Receive PROVE IInv'
  OBVIOUS
<1>1. ch \in Seq(Message) /\ ch # <<>> /\ ch' = Tail(ch)
  BY Messages DEF IInv, Receive
<1>2. /\ ch' \in Seq(Message) /\ Head(ch) = ch[1] /\ ch[1] \in Message
      /\ Len(ch) \in Nat \ {0} /\ DOMAIN ch = 1..Len(ch)
      /\ DOMAIN ch' = 1..(Len(ch) - 1)
      /\ \A k \in DOMAIN ch' : k + 1 \in DOMAIN ch /\ ch'[k] = ch[k + 1]
  BY <1>1
<1>3. /\ ch[1].idx \in DOMAIN slugs /\ ch[1].tool = got[ch[1].idx]
      /\ ch[1].tool \in Tool \cup {Null}
      /\ fetched' = [fetched EXCEPT ![ch[1].idx] = ch[1].tool]
  <2>1. 1 \in DOMAIN ch
    BY <1>2
  <2>2. ch[1].idx \in DOMAIN slugs /\ ch[1].tool \in Tool \cup {Null}
    BY <2>1, Messages DEF IInv
  <2>3. ch[1].tool = got[ch[1].idx]
    BY <2>1 DEF IInv, Carried
  <2> QED
    BY <1>2, <2>2, <2>3 DEF Receive
<1>4. TypeOK'
  BY <1>2, <1>3 DEF IInv, TypeOK, Receive, adapter, goroutines, Message
<1>5. WaitGroup' /\ Started' /\ Closed' /\ Listed' /\ Answered'
  BY DEF IInv, TypeOK, WaitGroup, Started, Closed, Listed, Answered, Receive, adapter, goroutines
<1>6. Carried'
  BY <1>2 DEF IInv, Carried, Receive, goroutines
<1>7. Heard'
  <2> SUFFICES ASSUME NEW j \in DOMAIN slugs, g[j] \in {"sent", "done"}
               PROVE  fetched'[j] = got[j] \/ \E k \in DOMAIN ch' : ch'[k].idx = j
    BY DEF Heard, Receive, goroutines
  <2>1. CASE j = ch[1].idx
    BY <1>3, <2>1 DEF IInv, TypeOK
  <2>2. CASE j # ch[1].idx
    <3>1. CASE fetched[j] = got[j]
      BY <1>3, <2>2, <3>1 DEF IInv, TypeOK
    <3>2. CASE \E k \in DOMAIN ch : ch[k].idx = j
      <4>1. PICK k \in DOMAIN ch : ch[k].idx = j
        BY <3>2
      <4>2. k - 1 \in DOMAIN ch' /\ ch'[k - 1] = ch[k]
        BY <1>2, <2>2, <4>1
      <4> QED
        BY <4>1, <4>2
    <3> QED
      BY <3>1, <3>2 DEF IInv, Heard
  <2> QED
    BY <2>1, <2>2
<1> QED
  BY <1>4, <1>5, <1>6, <1>7 DEF IInv

LEMMA MainIInv ==
    IInv /\ (StartCloser \/ Close \/ Build \/ AddExtraTool \/ \E n \in ToolNames \cup Excluded : Execute(n))
        => IInv'
<1> SUFFICES ASSUME IInv,
                    StartCloser \/ Close \/ Build \/ AddExtraTool
                        \/ \E n \in ToolNames \cup Excluded : Execute(n)
             PROVE  IInv'
  OBVIOUS
<1> USE DEF adapter, goroutines
<1>1. TypeOK'
  BY DEF IInv, TypeOK, StartCloser, Close, Build, AddExtraTool, Execute
<1>2. WaitGroup' /\ Answered' /\ Carried' /\ Heard'
  BY DEF IInv, WaitGroup, Answered, Carried, Heard, StartCloser, Close, Build, AddExtraTool, Execute
<1>3. Closed' /\ Listed'
  BY DEF IInv, TypeOK, Closed, Listed, StartCloser, Close, Build, AddExtraTool, Execute
<1>4. Started'
  <2>1. CASE StartCloser
    <3>1. next = Len(slugs) + 1
      BY <2>1, Indices DEF IInv, StartCloser
    <3> QED
      BY <2>1, <3>1 DEF IInv, Started, StartCloser
  <2>2. CASE Close
    BY <2>2 DEF IInv, Started, Close
  <2>3. CASE Build \/ AddExtraTool
    BY <2>3 DEF IInv, Started, Build, AddExtraTool
  <2>4. CASE \E n \in ToolNames \cup Excluded : Execute(n)
    BY <2>4 DEF IInv, Started, Execute
  <2> QED
    BY <2>1, <2>2, <2>3, <2>4
<1> QED
  BY <1>1, <1>2, <1>3, <1>4 DEF IInv

LEMMA ListedIInv ==
    ASSUME IInv, UNCHANGED <<slugs, next, goroutines, ch, fetched, adapter>>,
           \/ pc = "important" /\ pc' = "failed"
           \/ pc = "all" /\ pc' = "launch"
    PROVE  IInv'
<1>1. TypeOK'
  BY DEF IInv, TypeOK, goroutines, adapter
<1>2. Started' /\ Closed' /\ Listed'
  BY DEF IInv, Started, Closed, Listed, goroutines, adapter
<1>3. WaitGroup' /\ Answered' /\ Carried' /\ Heard'
  BY DEF IInv, WaitGroup, Answered, Carried, Heard, goroutines, adapter
<1> QED
  BY <1>1, <1>2, <1>3 DEF IInv

LEMMA ListingIInv == IInv /\ (ListImportant \/ ListAll) => IInv'
<1> SUFFICES ASSUME IInv, ListImportant \/ ListAll PROVE IInv'
  OBVIOUS
<1>1. CASE ListImportant
  <2>1. ASSUME NEW l \in Lists, Took(l), pc' \in {"all", "launch"} PROVE IInv'
    BY <1>1, <2>1, TookIInv DEF ListImportant
  <2>2. ASSUME pc' = "failed", UNCHANGED <<slugs, next, goroutines, ch, fetched, adapter>>
        PROVE  IInv'
    BY <1>1, <2>2, ListedIInv DEF ListImportant
  <2> QED
    BY <1>1, <2>1, <2>2 DEF ListImportant
<1>2. CASE ListAll
  <2>1. ASSUME NEW l \in Lists, Took(l) PROVE IInv'
    BY <1>2, <2>1, TookIInv DEF ListAll
  <2>2. ASSUME UNCHANGED <<slugs, next, goroutines, ch, fetched, adapter>> PROVE IInv'
    BY <1>2, <2>2, ListedIInv DEF ListAll
  <2> QED
    BY <1>2, <2>1, <2>2 DEF ListAll
<1> QED
  BY <1>1, <1>2

LEMMA NextIInv == IInv /\ [Next]_vars => IInv'
<1> SUFFICES ASSUME IInv, [Next]_vars PROVE IInv'
  OBVIOUS
<1>1. CASE ListImportant \/ ListAll
  BY <1>1, ListingIInv
<1>2. CASE Launch
  BY <1>2, LaunchIInv
<1>3. CASE \E i \in DOMAIN slugs : Fetch(i) \/ Send(i) \/ Done(i)
  BY <1>3, FetchIInv, SendIInv, DoneIInv
<1>4. CASE Receive
  BY <1>4, ReceiveIInv
<1>5. CASE StartCloser \/ Close \/ Build \/ AddExtraTool
           \/ \E n \in ToolNames \cup Excluded : Execute(n)
  BY <1>5, MainIInv
<1>6. CASE UNCHANGED vars
  BY <1>6
  DEF IInv, TypeOK, WaitGroup, Started, Closed, Listed, Answered, Carried, Heard,
      vars, goroutines, adapter
<1> QED
  BY <1>1, <1>2, <1>3, <1>4, <1>5, <1>6 DEF Next

LEMMA SpecIInv == Spec => []IInv
BY InitIInv, NextIInv, PTL DEF Spec

(* The state of a discovery has the types its goroutines rely on. *)
THEOREM TypeCorrect == Spec => []TypeOK
BY SpecIInv, PTL DEF IInv

(* No goroutine can panic the server by sending into the closed channel: the *)
(* closer waits for all that main has started, and main starts it last.      *)
THEOREM SafeClose == Spec => []NoSendOnClosed
<1>1. IInv => NoSendOnClosed
  <2> SUFFICES ASSUME IInv, closer = "closed", NEW i \in DOMAIN slugs
               PROVE  g[i] \in {"sent", "done"}
    BY DEF NoSendOnClosed
  <2>1. g[i] # "new"
    BY Indices DEF IInv, Started
  <2> QED
    BY <2>1 DEF IInv, TypeOK, WaitGroup, Closed
<1> QED
  BY <1>1, SpecIInv, PTL

(* When main has taken the last result, it has the answer of every goroutine. *)
LEMMA AllFetched == ASSUME IInv, Build PROVE /\ fetched = got
                                            /\ \A i \in DOMAIN slugs : got[i] # Pending
<1>1. ASSUME NEW i \in DOMAIN slugs PROVE g[i] = "done"
  <2>1. g[i] # "new"
    BY Indices DEF IInv, Started, Build
  <2> QED
    BY <2>1 DEF IInv, TypeOK, WaitGroup, Closed, Build
<1>2. ASSUME NEW i \in DOMAIN slugs PROVE fetched[i] = got[i] /\ got[i] # Pending
  <2>1. DOMAIN ch = {}
    BY DEF Build
  <2> QED
    BY <1>1, <2>1 DEF IInv, Heard, Answered
<1> QED
  BY <1>2 DEF IInv, TypeOK

(* Every step is one of the abstract discovery, or none at all. *)
LEMMA StepRefines == IInv /\ IInv' /\ [Next]_vars => [D!Next]_(D!vars)
<1> SUFFICES ASSUME IInv, IInv', [Next]_vars PROVE D!Next \/ UNCHANGED D!vars
  OBVIOUS
<1> USE DiscoveryAssumption
<1>1. CASE ListImportant
  <2>1. ASSUME NEW l \in Lists, Took(l), Len(l) >= 3, pc' = "launch" PROVE D!List
    BY <1>1, <2>1 DEF D!List, ListImportant, Took, stage, adapter
  <2>2. ASSUME pc' = "all", UNCHANGED tools PROVE UNCHANGED D!vars
    BY <1>1, <2>2 DEF D!vars, ListImportant, IInv, Listed, stage
  <2>3. ASSUME pc' = "failed", UNCHANGED <<slugs, got, tools>> PROVE D!GiveUp
    BY <1>1, <2>3 DEF D!GiveUp, ListImportant, stage
  <2> QED
    BY <1>1, <2>1, <2>2, <2>3 DEF ListImportant, Took, D!Next, adapter, goroutines
<1>2. CASE ListAll
  <2>1. ASSUME NEW l \in Lists, Took(l) PROVE D!List
    BY <1>2, <2>1 DEF D!List, ListAll, Took, stage, adapter
  <2>2. ASSUME UNCHANGED <<slugs, got, tools>> PROVE D!List
    <3>1. got = [i \in DOMAIN slugs |-> Pending]
      <4>1. ASSUME NEW i \in DOMAIN slugs PROVE got[i] = Pending
        BY <1>2, Indices DEF ListAll, IInv, Started, Answered
      <4> QED
        BY <4>1 DEF IInv, TypeOK
    <3> QED
      BY <1>2, <2>2, <3>1 DEF D!List, ListAll, stage, IInv, Listed
  <2> QED
    BY <1>2, <2>1, <2>2 DEF ListAll, D!Next, adapter, goroutines
<1>3. ASSUME NEW i \in DOMAIN slugs, Fetch(i) PROVE D!Next
  <2>1. PICK t \in GetToolV3(slugs[i]) : got' = [got EXCEPT ![i] = t]
    BY <1>3 DEF Fetch
  <2>2. pc \notin {"important", "all"} /\ got[i] = Pending
    BY <1>3, Indices DEF Fetch, IInv, Started, Answered
  <2>3. D!Hear(i)
    BY <1>3, <2>1, <2>2 DEF D!Hear, Fetch, stage, adapter
  <2> QED
    BY <2>2, <2>3 DEF D!Next
<1>4. CASE Build
  <2>1. fetched = got /\ \A i \in DOMAIN slugs : got[i] # Pending
    BY <1>4, AllFetched
  <2>2. D!Make
    BY <1>4, <2>1 DEF D!Make, Build, stage, goroutines
  <2> QED
    BY <2>2 DEF D!Next
<1>5. CASE Launch \/ StartCloser \/ Close \/ Receive \/ AddExtraTool
  BY <1>5 DEF D!vars, Launch, StartCloser, Close, Receive, AddExtraTool, stage,
              goroutines, adapter
<1>6. ASSUME NEW i \in DOMAIN slugs, Send(i) \/ Done(i) PROVE UNCHANGED D!vars
  BY <1>6 DEF D!vars, Send, Done, stage, adapter
<1>7. ASSUME NEW n, Execute(n) PROVE UNCHANGED D!vars
  BY <1>7 DEF D!vars, Execute, stage, goroutines
<1>8. CASE UNCHANGED vars
  BY <1>8 DEF D!vars, vars, stage, goroutines, adapter
<1> QED
  BY <1>1, <1>2, <1>3, <1>4, <1>5, <1>6, <1>7, <1>8 DEF Next

(* However the goroutines run and whatever they are answered, the tool list   *)
(* is that of the abstract discovery: no tool lost, doubled or given another  *)
(* one's answer.                                                              *)
THEOREM Refines == Spec => Promise
<1>1. Init => D!Init
  BY DEF Init, D!Init, stage
<1> QED
  BY <1>1, SpecIInv, StepRefines, PTL DEF Spec, Promise, D!Spec

-----------------------------------------------------------------------------
(* What the adapter's tool list holds, and what a call takes from it.        *)

(* The mapping of the tool at i: what was fetched of it, or what the list     *)
(* said.                                                                      *)
ToolAt(listed, fs, i) == IF fs[i] = Null THEN Listing(listed[i]) ELSE fs[i]

(* The list holds mappings of tools that are not withheld, each with the     *)
(* slug and the version of a tool that was listed.                           *)
LEMMA MappingsHold ==
    ASSUME NEW listed \in Seq(Slugs), NEW fs
    PROVE  /\ \E S : Mappings(listed, fs) \in Seq(S)
           /\ \A k \in DOMAIN Mappings(listed, fs) :
                 /\ Mappings(listed, fs)[k].name \notin Excluded
                 /\ \E i \in DOMAIN listed :
                       Mappings(listed, fs)[k] = Mapping(ToolAt(listed, fs, i))
<1> DEFINE all == [i \in DOMAIN listed |-> Mapping(ToolAt(listed, fs, i))]
           M == {Mapping(ToolAt(listed, fs, i)) : i \in DOMAIN listed}
           K == {i \in DOMAIN all : all[i].name \notin Excluded}
<1>1. Mappings(listed, fs) = Kept(all, K)
  BY DEF Mappings, ToolAt
<1>2. all \in Seq(M)
  <2>1. DOMAIN listed = 1 .. Len(listed) /\ Len(listed) \in Nat
    OBVIOUS
  <2>2. QED
    BY <2>1
<1>3. \A i \in K : /\ i \in DOMAIN listed /\ all[i] = Mapping(ToolAt(listed, fs, i))
                    /\ all[i].name \notin Excluded
  OBVIOUS
<1> HIDE DEF all, K, M
<1>4. /\ Kept(all, K) \in Seq(M)
      /\ \A k \in DOMAIN Kept(all, K) : \E j \in K : Kept(all, K)[k] = all[j]
  BY <1>2, KeptHolds
<1>5. QED
  BY <1>1, <1>3, <1>4

(* An answer is about the tool that was asked for. *)
Asked == \A i \in DOMAIN slugs : got[i] \in Tool => got[i].slug = slugs[i]

(* Once the list is made, every answer is in, and the list is made of them. *)
Finished ==
    pc \in {"built", "serving"} =>
        /\ \A i \in DOMAIN slugs : g[i] = "done"
        /\ tools = Mappings(slugs, got)

(* A tool that ran at Composio is one of the list. *)
Ran ==
    call.by = "composio" =>
        /\ pc = "serving"
        /\ \E k \in DOMAIN tools :
              /\ tools[k].name = call.name
              /\ tools[k].slug = call.slug /\ tools[k].version = call.version

CInv == IInv /\ Asked /\ Finished /\ Ran

LEMMA InitCInv == Init => CInv
<1> SUFFICES ASSUME Init PROVE CInv
  OBVIOUS
<1>1. Asked
  BY DEF Init, Asked
<1>2. Ran
  BY DEF Init, Ran, NoCall
<1>3. Finished
  BY DEF Init, Finished
<1> QED
  BY <1>1, <1>2, <1>3, InitIInv DEF CInv

LEMMA AskedStep == CInv /\ [Next]_vars => Asked'
<1> SUFFICES ASSUME CInv, [Next]_vars PROVE Asked'
  OBVIOUS
<1> USE DiscoveryAssumption DEF adapter, goroutines
<1>1. ASSUME NEW l \in Lists, Took(l) PROVE Asked'
  BY <1>1 DEF Took, Asked
<1>2. ASSUME NEW i \in DOMAIN slugs, Fetch(i) PROVE Asked'
  <2>1. PICK t \in GetToolV3(slugs[i]) : got' = [got EXCEPT ![i] = t]
    BY <1>2 DEF Fetch
  <2>2. t \in Tool => t.slug = slugs[i]
    BY <2>1, CatalogueAssumption DEF GetToolV3, get
  <2>3. QED
    BY <1>2, <2>1, <2>2 DEF CInv, IInv, TypeOK, Asked, Fetch
<1>3. ASSUME UNCHANGED <<slugs, got>> PROVE Asked'
  BY <1>3 DEF CInv, Asked
<1>4. QED
  BY <1>1, <1>2, <1>3 DEF Next, vars, ListImportant, ListAll, Launch, StartCloser, Send, Done,
                          Close, Receive, Build, AddExtraTool, Execute

LEMMA FinishedStep == CInv /\ [Next]_vars => Finished'
<1> SUFFICES ASSUME CInv, [Next]_vars PROVE Finished'
  OBVIOUS
<1> USE DEF adapter, goroutines
<1>1. CASE Build
  <2>1. fetched = got
    BY <1>1, AllFetched DEF CInv
  <2>2. \A i \in DOMAIN slugs : g[i] = "done"
    <3> SUFFICES ASSUME NEW i \in DOMAIN slugs PROVE g[i] = "done"
      OBVIOUS
    <3>1. g[i] # "new"
      BY <1>1, Indices DEF CInv, IInv, Started, Build
    <3>2. QED
      BY <1>1, <3>1 DEF CInv, IInv, TypeOK, WaitGroup, Closed, Build
  <2>3. QED
    BY <1>1, <2>1, <2>2 DEF Build, Finished
<1>2. ASSUME NEW i \in DOMAIN slugs, Fetch(i) \/ Send(i) \/ Done(i) PROVE Finished'
  BY <1>2 DEF CInv, Finished, Fetch, Send, Done
<1>3. CASE \/ AddExtraTool \/ Close \/ \E n \in ToolNames \cup Excluded : Execute(n)
  BY <1>3 DEF CInv, Finished, Close, AddExtraTool, Execute
<1>4. CASE ListImportant \/ ListAll \/ Launch \/ StartCloser \/ Receive
  BY <1>4 DEF Finished, ListImportant, ListAll, Launch, StartCloser, Receive
<1>5. CASE UNCHANGED vars
  BY <1>5 DEF CInv, Finished, vars
<1>6. QED
  BY <1>1, <1>2, <1>3, <1>4, <1>5 DEF Next

LEMMA RanStep == CInv /\ [Next]_vars => Ran'
<1> SUFFICES ASSUME CInv, [Next]_vars PROVE Ran'
  OBVIOUS
<1> USE DEF adapter, goroutines
<1>1. ASSUME NEW n, Execute(n) PROVE Ran'
  <2> DEFINE I == {k \in 1 .. Len(tools) : tools[k].name = n}
             i == SelectInSeq(tools, LAMBDA m : m.name = n)
  <2>1. i > 0 => i \in I
    <3>1. I # {} => \E k \in I : \A j \in I : k <= j
      <4>1. I \subseteq Nat
        OBVIOUS
      <4> HIDE DEF I
      <4>2. QED
        BY <4>1, LeastNumber
    <3>2. i = IF I # {} THEN Min(I) ELSE 0
      BY DEF SelectInSeq
    <3>3. I # {} => Min(I) \in I
      <4> HIDE DEF I
      <4>1. QED
        BY <3>1 DEF Min
    <3> HIDE DEF I, i
    <3>4. QED
      BY <3>2, <3>3
  <2>2. i > 0 => i \in DOMAIN tools /\ tools[i].name = n
    <3>1. tools \in Seq({tools[k] : k \in DOMAIN tools})
      <4>1. tools = Mappings(slugs, got) /\ slugs \in Seq(Slugs)
        BY <1>1 DEF CInv, IInv, TypeOK, Finished, Execute
      <4>2. PICK S : tools \in Seq(S)
        BY <4>1, MappingsHold
      <4>3. QED
        BY <4>2
    <3>2. QED
      BY <2>1, <3>1
  <2> HIDE DEF i, I
  <2>3. QED
    BY <1>1, <2>2 DEF Execute, Ran, NoCall, i
<1>2. ASSUME NEW l \in Lists, Took(l), pc # "serving" PROVE Ran'
  BY <1>2 DEF CInv, Ran, Took
<1>3. ASSUME UNCHANGED <<call, pc, tools>> PROVE Ran'
  BY <1>3 DEF CInv, Ran
<1>4. ASSUME UNCHANGED call, pc # "serving" PROVE Ran'
  BY <1>4 DEF CInv, Ran
<1>5. QED
  BY <1>1, <1>2, <1>3, <1>4
  DEF Next, vars, ListImportant, ListAll, Launch, StartCloser, Fetch, Send, Done,
      Close, Receive, Build, AddExtraTool

LEMMA SpecCInv == Spec => []CInv
<1>1. CInv /\ [Next]_vars => CInv'
  BY NextIInv, AskedStep, FinishedStep, RanStep DEF CInv
<1>2. QED
  BY InitCInv, <1>1, PTL DEF Spec

(* main's exclusions hold for every call: a withheld tool never runs at      *)
(* Composio, whether it was fetched or the fetch failed.                     *)
THEOREM ExclusionsHold == Spec => []WithheldNeverRuns
<1>1. CInv => WithheldNeverRuns
  <2> SUFFICES ASSUME CInv, call.by = "composio" PROVE call.name \notin Excluded
    BY DEF WithheldNeverRuns
  <2>1. PICK k \in DOMAIN tools : tools[k].name = call.name
    BY DEF CInv, Ran
  <2>2. tools = Mappings(slugs, got) /\ slugs \in Seq(Slugs)
    BY DEF CInv, IInv, TypeOK, Ran, Finished
  <2>3. QED
    BY <2>1, <2>2, MappingsHold
<1>2. QED
  BY <1>1, SpecCInv, PTL

(* A call runs the newest version that Composio named for that tool, and the *)
(* list's default only where none was named or the fetch failed.             *)
THEOREM NewestRuns == Spec => []NewestVersionRuns
<1>1. CInv => NewestVersionRuns
  <2> SUFFICES ASSUME CInv, call.by = "composio"
               PROVE  \E i \in DOMAIN slugs :
                         /\ slugs[i] = call.slug
                         /\ call.version = IF got[i] = Null \/ got[i].versions = <<>>
                                           THEN Default ELSE got[i].versions[1]
    BY DEF NewestVersionRuns
  <2>1. PICK k \in DOMAIN tools : tools[k].slug = call.slug /\ tools[k].version = call.version
    BY DEF CInv, Ran
  <2>2. tools = Mappings(slugs, got) /\ slugs \in Seq(Slugs)
    BY DEF CInv, IInv, TypeOK, Ran, Finished
  <2>3. PICK i \in DOMAIN slugs : tools[k] = Mapping(ToolAt(slugs, got, i))
    BY <2>1, <2>2, MappingsHold
  <2>4. call.slug = ToolAt(slugs, got, i).slug /\ call.version = LatestVersion(ToolAt(slugs, got, i))
    BY <2>1, <2>3 DEF Mapping
  <2>5. CASE got[i] = Null
    BY <2>4, <2>5 DEF ToolAt, Listing, LatestVersion
  <2>6. CASE got[i] # Null
    <3>1. got[i] \in Tool
      <4>1. got[i] # Pending
        BY DEF CInv, IInv, Answered, Finished, Ran
      <4>2. QED
        BY <2>6, <4>1 DEF CInv, IInv, TypeOK
    <3>2. got[i].slug = slugs[i]
      BY <3>1 DEF CInv, Asked
    <3>3. got[i].versions # <<>> => Head(got[i].versions) = got[i].versions[1]
      <4>1. got[i].versions \in {<<>>} \cup (Versions \X {Default})
        BY <3>1 DEF Tool
      <4>2. \A v \in Versions : Head(<<v, Default>>) = <<v, Default>>[1]
        OBVIOUS
      <4>3. QED
        BY <4>1, <4>2
    <3>4. got[i].version = Default
      BY <3>1 DEF Tool
    <3>5. QED
      BY <2>4, <2>6, <3>2, <3>3, <3>4 DEF ToolAt, LatestVersion
  <2>7. QED
    BY <2>5, <2>6
<1>2. QED
  BY <1>1, SpecCInv, PTL
=============================================================================
