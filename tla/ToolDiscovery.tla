----------------------------- MODULE ToolDiscovery -----------------------------
(***************************************************************************)
(* NewDynamicComposioAdapter, for one platform: main lists the tools, one  *)
(* goroutine per tool fetches it and sends what it got into a channel, one *)
(* more closes the channel when all are done, and main builds the list of  *)
(* tools; then the tool list as the server's requests use it.              *)
(***************************************************************************)
EXTENDS ToolCatalogue

CONSTANTS
    Lists,     \* the lists of slugs that Composio may give
    Extras,    \* local names of the tools that main may attach
    Pending    \* not answered yet

VARIABLES
    pc,        \* what main is doing
    slugs,     \* listed, and the tools in it by index
    next,      \* the index whose goroutine is started next
    g,         \* what the goroutine of each index is doing
    got,       \* its local full or fetchErr: a tool, Null for an error, or Pending
    wg,        \* the goroutines added to the WaitGroup and not done
    ch,        \* the results in the channel
    closer,    \* the goroutine that closes it
    fetched,   \* main's answers, Null where there is none
    tools,     \* the adapter's Tools_
    extras,    \* and its ExtraTools
    call       \* the last tool call and what it ran

goroutines == <<g, got, wg, closer>>
adapter == <<tools, extras, call>>
vars == <<pc, slugs, next, goroutines, ch, fetched, adapter>>

ASSUME DiscoveryAssumption ==
    /\ Lists \subseteq Seq(Slugs)
    /\ Pending \notin Tool /\ Pending # Null

NoCall == [name |-> "", by |-> "none", slug |-> Null, version |-> Null]

Init ==
    /\ pc = "important"
    /\ slugs = <<>> /\ next = 1 /\ g = <<>> /\ got = <<>> /\ wg = {}
    /\ ch = <<>> /\ closer = "none" /\ fetched = <<>>
    /\ tools = <<>> /\ extras = {} /\ call = NoCall

Took(l) ==
    /\ slugs' = l
    /\ g' = [i \in DOMAIN l |-> "new"]
    /\ got' = [i \in DOMAIN l |-> Pending]
    /\ fetched' = [i \in DOMAIN l |-> Null]
    /\ UNCHANGED <<next, wg, closer, ch, adapter>>

(* The tools tagged important; all of them are asked for if these are few. *)
ListImportant ==
    /\ pc = "important"
    /\ \/ \E l \in Lists : Took(l) /\ pc' = IF Len(l) < 3 THEN "all" ELSE "launch"
       \/ pc' = "failed" /\ UNCHANGED <<slugs, next, goroutines, ch, fetched, adapter>>

(* Faulty variant: the answers' slice is made before the second listing. *)
ListAllLate ==
    /\ pc = "all"
    /\ pc' = "launch"
    /\ \/ \E l \in Lists : Len(l) > Len(slugs) /\ slugs' = l
       \/ slugs' = slugs
    /\ UNCHANGED <<next, goroutines, ch, fetched, adapter>>

(* An error here, or a list that is no longer, leaves the first list. *)
ListAll ==
    /\ pc = "all"
    /\ pc' = "launch"
    /\ \/ \E l \in Lists : Len(l) > Len(slugs) /\ Took(l)
       \/ UNCHANGED <<slugs, next, goroutines, ch, fetched, adapter>>

(* Faulty variant: wg.Add in the goroutine instead of before it. *)
LaunchUncounted ==
    /\ pc = "launch" /\ next <= Len(slugs)
    /\ g' = [g EXCEPT ![next] = "fetching"]
    /\ next' = next + 1
    /\ UNCHANGED <<pc, slugs, got, wg, closer, ch, fetched, adapter>>

Launch ==
    /\ pc = "launch" /\ next <= Len(slugs)
    /\ wg' = wg \cup {next}
    /\ g' = [g EXCEPT ![next] = "fetching"]
    /\ next' = next + 1
    /\ UNCHANGED <<pc, slugs, got, closer, ch, fetched, adapter>>

StartCloser ==
    /\ pc = "launch" /\ next > Len(slugs)
    /\ pc' = "collect"
    /\ closer' = "waiting"
    /\ UNCHANGED <<slugs, next, g, got, wg, ch, fetched, adapter>>

(* The HTTP client gives up after 30 seconds: every fetch ends. *)
Fetch(i) ==
    /\ g[i] = "fetching"
    /\ \E t \in GetToolV3(slugs[i]) : got' = [got EXCEPT ![i] = t]
    /\ g' = [g EXCEPT ![i] = "sending"]
    /\ UNCHANGED <<pc, slugs, next, wg, closer, ch, fetched, adapter>>

(* The channel has room for a result of each. *)
Send(i) ==
    /\ g[i] = "sending"
    /\ Len(ch) < Len(slugs)
    /\ ch' = Append(ch, [idx |-> i, tool |-> got[i]])
    /\ g' = [g EXCEPT ![i] = "sent"]
    /\ UNCHANGED <<pc, slugs, next, got, wg, closer, fetched, adapter>>

(* Faulty variant: a goroutine whose fetch failed does not say that it is done. *)
DoneIfFetched(i) ==
    /\ g[i] = "sent"
    /\ wg' = IF got[i] = Null THEN wg ELSE wg \ {i}
    /\ g' = [g EXCEPT ![i] = "done"]
    /\ UNCHANGED <<pc, slugs, next, got, closer, ch, fetched, adapter>>

Done(i) ==
    /\ g[i] = "sent"
    /\ wg' = wg \ {i}
    /\ g' = [g EXCEPT ![i] = "done"]
    /\ UNCHANGED <<pc, slugs, next, got, closer, ch, fetched, adapter>>

Close ==
    /\ closer = "waiting" /\ wg = {}
    /\ closer' = "closed"
    /\ UNCHANGED <<pc, slugs, next, g, got, wg, ch, fetched, adapter>>

(* Faulty variant: the answers are taken in the order in which they come. *)
ReceiveInOrder ==
    /\ pc = "collect" /\ ch # <<>>
    /\ ch' = Tail(ch)
    /\ LET free == {i \in DOMAIN slugs : fetched[i] = Null}
           first == CHOOSE i \in free : \A j \in free : i <= j
       IN  fetched' = [fetched EXCEPT ![first] = Head(ch).tool]
    /\ UNCHANGED <<pc, slugs, next, goroutines, adapter>>

Receive ==
    /\ pc = "collect" /\ ch # <<>>
    /\ ch' = Tail(ch)
    /\ fetched' = [fetched EXCEPT ![Head(ch).idx] = Head(ch).tool]
    /\ UNCHANGED <<pc, slugs, next, goroutines, adapter>>

(* The loop over the channel ends once it is closed and empty. *)
Build ==
    /\ pc = "collect" /\ ch = <<>> /\ closer = "closed"
    /\ tools' = Mappings(slugs, fetched)
    /\ pc' = IF tools' = <<>> THEN "failed" ELSE "built"
    /\ UNCHANGED <<slugs, next, goroutines, ch, fetched, extras, call>>

(* main registers the adapter and attaches the tools it has for it. *)
AddExtraTool ==
    /\ pc = "built"
    /\ pc' = "serving"
    /\ extras' \in SUBSET Extras
    /\ UNCHANGED <<slugs, next, goroutines, ch, fetched, tools, call>>

ToolNames == {tools[i].name : i \in DOMAIN tools} \cup extras

(* A tool of main's own comes first, then the first mapping of that name. *)
Execute(n) ==
    LET i == SelectInSeq(tools, LAMBDA m : m.name = n) IN
    /\ pc = "serving"
    /\ call' = CASE n \in extras -> [NoCall EXCEPT !.name = n, !.by = "extra"]
                 [] n \notin extras /\ i > 0 ->
                        [name |-> n, by |-> "composio",
                         slug |-> tools[i].slug, version |-> tools[i].version]
                 [] OTHER -> [NoCall EXCEPT !.name = n, !.by = "unknown"]
    /\ UNCHANGED <<pc, slugs, next, goroutines, ch, fetched, tools, extras>>

Next ==
    \/ ListImportant \/ ListAll \/ Launch \/ StartCloser
    \/ \E i \in DOMAIN slugs : Fetch(i) \/ Send(i) \/ Done(i)
    \/ Close \/ Receive \/ Build \/ AddExtraTool
    \/ \E n \in ToolNames \cup Excluded : Execute(n)

Spec == Init /\ [][Next]_vars

(* The scheduler runs main and every goroutine again and again. *)
MainStep ==
    ListImportant \/ ListAll \/ Launch \/ StartCloser \/ Receive \/ Build \/ AddExtraTool

MaxTools == CHOOSE n \in {Len(l) : l \in Lists} : \A l \in Lists : Len(l) <= n

LiveSpec ==
    /\ Spec
    /\ WF_vars(MainStep)
    /\ \A i \in 1..MaxTools : WF_vars(i \in DOMAIN slugs /\ (Fetch(i) \/ Send(i) \/ Done(i)))
    /\ WF_vars(Close)

-----------------------------------------------------------------------------
TypeOK ==
    /\ pc \in {"important", "all", "launch", "collect", "built", "serving", "failed"}
    /\ slugs \in Seq(Slugs) /\ next \in 1..(Len(slugs) + 1)
    /\ g \in [DOMAIN slugs -> {"new", "fetching", "sending", "sent", "done"}]
    /\ got \in [DOMAIN slugs -> Tool \cup {Null, Pending}]
    /\ wg \subseteq DOMAIN slugs
    /\ ch \in Seq([idx : DOMAIN slugs, tool : Tool \cup {Null}])
    /\ closer \in {"none", "waiting", "closed"}
    /\ fetched \in [DOMAIN slugs -> Tool \cup {Null}]
    /\ extras \subseteq Extras

(* A send on a closed channel would end the whole server in a panic: when the *)
(* closer has seen the wait group at zero, no goroutine has a send before it. *)
NoSendOnClosed ==
    closer = "closed" => \A i \in DOMAIN slugs : g[i] \in {"sent", "done"}

stage == CASE pc \in {"important", "all"} -> "listing"
           [] pc \in {"launch", "collect"} -> "asking"
           [] pc \in {"built", "serving"} -> "ready"
           [] pc = "failed" -> "failed"

D == INSTANCE DiscoveredTools WITH
         slugs <- IF pc = "all" THEN <<>> ELSE slugs,
         heard <- IF pc = "all" THEN <<>> ELSE got

(* Discovery is the abstract one: however the goroutines' answers mix in the *)
(* channel, the list is made once, of every tool listed, each with the       *)
(* answer that was given for it, and from the list's own item only where     *)
(* there was an error; and it is made only after the last answer.            *)
Promise == D!Spec

(* A tool that main withholds (gmail's delete_message) is never run at        *)
(* Composio, whatever happened when the tools were fetched.                   *)
WithheldNeverRuns == call.by = "composio" => call.name \notin Excluded

(* A tool runs in the newest version that Composio named for it, unless it    *)
(* named none or fetching the tool failed; the goroutine that learnt it is    *)
(* long gone by then.                                                         *)
NewestVersionRuns ==
    call.by = "composio" =>
        \E i \in DOMAIN slugs :
            /\ slugs[i] = call.slug
            /\ call.version = IF got[i] = Null \/ got[i].versions = <<>>
                              THEN Default ELSE got[i].versions[1]

(* Startup does not hang in a discovery: a list is made, or the platform is   *)
(* given up, whatever fails.                                                  *)
DiscoveryEnds == pc = "important" ~> pc \in {"serving", "failed"}
=============================================================================
