----------------------------- MODULE ToolCatalogue -----------------------------
(***************************************************************************)
(* What is known of the tools of one platform at Composio, and how the     *)
(* tool list of the connector's adapter is made of it.  Discovery and its  *)
(* abstract specification share these definitions.                         *)
(***************************************************************************)
EXTENDS Naturals, Lists

CONSTANTS
    Slugs,      \* [app, base]: begins with "<APP>_" or not, and what follows
    Versions,   \* versions of a tool
    Default,    \* the one that a tool has in a list of tools
    Excluded,   \* local names that main withholds
    Null        \* no tool: nothing fetched, or no mapping of that name

(* A tool as Composio describes it, with its versions newest first.  The    *)
(* descriptions and the input schemas are left out.                         *)
Tool == [slug : Slugs, versions : {<<>>} \cup (Versions \X {Default}), version : {Default}]

ASSUME CatalogueAssumption ==
    /\ Default \in Versions
    /\ Null \notin Tool

(* Faulty variant: a tool runs in its default version. *)
DefaultVersion(t) == t.version

LatestVersion(t) == IF t.versions # <<>> THEN Head(t.versions) ELSE t.version

(* The items of a list carry no versions of their own. *)
Listing(s) == [slug |-> s, versions |-> <<>>, version |-> Default]

(* What an HTTP request of the client may return: what its caller hopes for, *)
(* or an error, after a lost exchange, a status of 400 or more, or a body    *)
(* that does not parse.                                                      *)
get(hoped) == hoped \cup {Null}

GetToolV3(s) == get({t \in Tool : t.slug = s})

(* The name is the slug without the prefix, and the slug itself when that    *)
(* leaves nothing.  A slug without the prefix keeps its text: two slugs may  *)
(* meet in one name.                                                         *)
LocalName(s) == IF s.base = "" THEN "app_" ELSE s.base

Mapping(t) == [name |-> LocalName(t.slug), slug |-> t.slug, version |-> LatestVersion(t)]

(* Faulty variant: only tools that were fetched are withheld. *)
MappingsKeepingUnfetched(listed, fetched) ==
    LET tool(i) == IF fetched[i] = Null THEN Listing(listed[i]) ELSE fetched[i]
        all == [i \in DOMAIN listed |-> Mapping(tool(i))]
        unfetched == {LocalName(listed[i]) : i \in {j \in DOMAIN listed : fetched[j] = Null}}
    IN  Kept(all, {i \in DOMAIN all : all[i].name \notin Excluded \ unfetched})

(* The tool list, in the order of the slugs listed: what was fetched of each, *)
(* or what the list said of it.                                               *)
Mappings(listed, fetched) ==
    LET tool(i) == IF fetched[i] = Null THEN Listing(listed[i]) ELSE fetched[i]
        all == [i \in DOMAIN listed |-> Mapping(tool(i))]
    IN  Kept(all, {i \in DOMAIN all : all[i].name \notin Excluded})
=============================================================================
