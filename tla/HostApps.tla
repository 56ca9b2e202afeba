------------------------------ MODULE HostApps ------------------------------
(***************************************************************************)
(* The host's app catalog, src/src/host/host_apps.cpp, and the handlers    *)
(* host.syncApps, host.listApps and host.status of                         *)
(* src/src/host/host_main.cpp that read and write it.  The file is         *)
(* truncated and written in place; the engine may be killed in between,    *)
(* the write may fall short, noticed or not (the stream is asked before it *)
(* is flushed), and others may edit the file by hand.                      *)
(*                                                                         *)
(* Of an app's optional fields one string (cmd) and one flag (wait-all)    *)
(* stand for the others.                                                   *)
(***************************************************************************)
EXTENDS Json, FiniteSets

CONSTANTS
    Libraries,      \* the 'games' arrays the launcher publishes
    Scribbles,      \* bound: texts of others that may be there at first
    Strays          \* bound: tokens that others put into the file

VARIABLES
    file,           \* the text of sunshine_apps.json; empty also when missing
    edited,         \* somebody else wrote to the file since the last sync
    pc,             \* where host.syncApps is
    prev, next,     \* its local variables, kept until the next call
    answer          \* the last answer

vars == <<file, edited, pc, prev, next, answer>>

Games == [name : Seq(Chars), cmd : Seq(Chars), waitAll : BOOLEAN]

ASSUME CatalogAssumption ==
    /\ {"apps", "cmd", "env", "name", "open", "wait-all"} \subseteq Chars
    /\ Libraries \subseteq Seq(Games)
    /\ Scribbles \subseteq Seq(Tokens)
    /\ Strays \subseteq Tokens

K(key) == <<key>>
FlagText(b) == IF b THEN "true" ELSE "false"

\* The fields of an app, in the order of the object's keys; the command only if
\* there is one.
SerializeApp(a) ==
    DumpObj((IF a.cmd = <<>> THEN <<>> ELSE <<Member(K("cmd"), DumpStr(a.cmd))>>)
            \o <<Member(K("name"), DumpStr(a.name)),
                 Member(K("wait-all"), <<Token(FlagText(a.waitAll))>>)>>)

\* serialize_apps_json
SerializeApps(apps) ==
    DumpObj(<<Member(K("apps"), DumpArr([i \in 1 .. Len(apps) |-> SerializeApp(apps[i])])),
              Member(K("env"), DumpObj(<<>>))>>)

\* One round of the loop of parse_apps_json: an app, or none for a nameless entry
ParseApp(v) ==
    LET name == Get(v, K("name"), {"str"}, Str(<<>>)).str
    IN  IF v.type # "obj" \/ name = <<>> THEN <<>>
        ELSE <<[name    |-> name,
                cmd     |-> Get(v, K("cmd"), {"str"}, Str(<<>>)).str,
                waitAll |-> Get(v, K("wait-all"), {"true", "false"}, Lit("true")).type = "true"]>>

\* Mutated form of ParseApps: entries are read until the text breaks off.
ParseAppsSalvage(text) ==
    FlattenSeq([i \in 1 .. Len(text) |->
        IF text[i].s = <<"name", Q>> /\ Is(text, i + 2, "str")
        THEN <<[name |-> Front(text[i + 2].s), cmd |-> <<>>, waitAll |-> TRUE]>> ELSE <<>>])

\* parse_apps_json: nothing of a malformed text
ParseApps(text) ==
    LET lists == {Get(v, K("apps"), {"arr"}, Arr(<<>>)).arr : v \in Parse(text)}
        list  == CHOOSE l \in lists : TRUE
    IN  IF lists = {} THEN <<>> ELSE FlattenSeq([i \in 1 .. Len(list) |-> ParseApp(list[i])])

\* host_launch_command: a URI is handed to the system's opener, in quotes.
HostLaunchCommand(cmd) ==
    IF \E i \in 1 .. Len(cmd) : cmd[i] = "uri" THEN <<"open", Q>> \o cmd \o <<Q>> ELSE cmd

\* games_from_params
GamesFromParams(games) ==
    FlattenSeq([i \in 1 .. Len(games) |->
        IF games[i].name = <<>> THEN <<>>
        ELSE <<[games[i] EXCEPT !.cmd = HostLaunchCommand(games[i].cmd)]>>])

\* find_by_name: where an app has that name, and the first of them
Named(apps, name) == {i \in 1 .. Len(apps) : apps[i].name = name}
FindByName(apps, name) == apps[Min(Named(apps, name))]

\* Mutated form of DiffApps: an app that changed counts as new too.
DiffAppsChangedIsNew(old, new) ==
    LET has(l, a) == \E i \in 1 .. Len(l) : l[i] = a
    IN  [added   |-> Cardinality({i \in 1 .. Len(new) : ~has(old, new[i])}),
         updated |-> 0,
         removed |-> Cardinality({i \in 1 .. Len(old) : ~has(new, old[i])})]

\* diff_apps: by name, against the first of that name
DiffApps(old, new) ==
    LET absent(apps, from) == {i \in 1 .. Len(apps) : Named(from, apps[i].name) = {}}
        known == (1 .. Len(new)) \ absent(new, old)
    IN  [added   |-> Cardinality(absent(new, old)),
         updated |-> Cardinality({i \in known : FindByName(old, new[i].name) # new[i]}),
         removed |-> Cardinality(absent(old, new))]

-----------------------------------------------------------------------------

NoDiff == DiffApps(<<>>, <<>>)
Said(what, diff, total) == [what |-> what, diff |-> diff, total |-> total]
Nothing == Said("nothing", NoDiff, 0)

Init ==
    /\ \/ file = <<>> /\ edited = FALSE
       \/ file \in Scribbles /\ edited = TRUE
    /\ pc = "idle"
    /\ prev = <<>> /\ next = <<>> /\ answer = Nothing

\* host.syncApps reads the catalog and the library.
SyncRead ==
    /\ pc = "idle" /\ pc' = "open"
    /\ prev' = ParseApps(file)
    /\ \E games \in Libraries : next' = GamesFromParams(games)
    /\ answer' = Nothing
    /\ UNCHANGED <<file, edited>>

\* write_apps opens the file, which empties it.
SyncOpen ==
    /\ pc = "open"
    /\ \/ pc' = "write" /\ file' = <<>> /\ edited' = FALSE /\ UNCHANGED answer
       \/ pc' = "idle" /\ answer' = Said("internal", NoDiff, 0) /\ UNCHANGED <<file, edited>>
    /\ UNCHANGED <<prev, next>>

\* The text goes out, whole or in part, and the answer with it.
SyncWrite ==
    LET text == SerializeApps(next)
        done == Said("synced", DiffApps(prev, next), Len(next))
    IN  /\ pc = "write" /\ pc' = "idle"
        /\ \/ file' = text /\ answer' = done
           \/ \E n \in 0 .. Len(text) - 1 :
                 /\ file' = SubSeq(text, 1, n)
                 /\ answer' \in {Said("internal", NoDiff, 0), done}
        /\ UNCHANGED <<edited, prev, next>>

\* The engine is killed and started again.
Crash ==
    /\ pc # "idle" /\ pc' = "idle"
    /\ pc = "write" =>
          \E n \in 0 .. Len(SerializeApps(next)) : file' = SubSeq(SerializeApps(next), 1, n)
    /\ pc = "open" => UNCHANGED file
    /\ prev' = <<>> /\ next' = <<>> /\ answer' = Nothing
    /\ UNCHANGED edited

\* host.listApps, and the configured and appsCount of host.status
ListApps ==
    /\ pc = "idle"
    /\ prev' = <<>> /\ next' = <<>>
    /\ answer' = Said("apps", NoDiff, Len(ParseApps(file)))
    /\ UNCHANGED <<file, edited, pc>>

\* Somebody drops, changes or adds a token.
Edit ==
    /\ pc = "idle" /\ ~edited /\ edited' = TRUE
    /\ \E i \in 1 .. Len(file), stray \in Strays :
          LET upTo == SubSeq(file, 1, i - 1)
              from == SubSeq(file, i + 1, Len(file))
          IN  file' \in {upTo \o from, upTo \o <<stray>> \o from,
                         upTo \o <<stray, file[i]>> \o from}
    /\ prev' = <<>> /\ next' = <<>> /\ answer' = Nothing
    /\ UNCHANGED pc

Next == SyncRead \/ SyncOpen \/ SyncWrite \/ Crash \/ ListApps \/ Edit

Spec == Init /\ [][Next]_vars

-----------------------------------------------------------------------------
(* Properties                                                              *)

\* json.cpp gives every JSON text its value, and of the other texts it reads
\* exactly the lenient ones: raw control characters in a string, a low surrogate
\* alone and numbers that only strtod takes are let pass; a bracket, a comma, a
\* colon, a quote or an escape out of place never is.
ParserMeetsGrammar == Means(file, JSON) \subseteq Parse(file) /\ Parse(file) = Means(file, Lenient)

\* What json.h:66 says of parse, "Returns nullopt on any malformed input (no
\* partial results)": the leniencies make it false of some files ...
NothingMalformed == Parse(file) \subseteq Means(file, JSON)

\* ... but not of those the engine wrote: where they read, they are JSON, whatever
\* quotes, backslashes and control characters the titles hold.  Sunshine has a
\* reader of its own, which may not have the leniencies of this one.
WritesJSON == ~edited => NothingMalformed

\* A catalog nobody else touched reads as a list that was published, or as
\* empty: a file that was cut short by a kill or a full disk never passes for a
\* shorter library, and titles with quotes, backslashes or control characters
\* come back as they were.
CatalogIsWholeOrEmpty ==
    ~edited /\ pc = "idle" => ParseApps(file) \in {<<>>} \cup {GamesFromParams(g) : g \in Libraries}

Names(apps)  == {apps[i].name : i \in 1 .. Len(apps)}
Unique(apps) == \A i, j \in 1 .. Len(apps) : apps[i].name = apps[j].name => i = j
AppOf(apps, name) == apps[CHOOSE i \in 1 .. Len(apps) : apps[i].name = name]

\* What host.syncApps reports is the difference between the catalog it found and
\* the library it wrote, when names are unique in both: the counts add up to
\* the new total, and a repeated sync of the same library reports nothing.
DiffTellsTheTruth ==
    answer.what = "synced" /\ Unique(prev) /\ Unique(next) =>
        /\ answer.diff.added = Cardinality(Names(next) \ Names(prev))
        /\ answer.diff.removed = Cardinality(Names(prev) \ Names(next))
        /\ answer.diff.updated = Cardinality({n \in Names(prev) \cap Names(next) :
                                                 AppOf(prev, n) # AppOf(next, n)})
        /\ answer.total = Len(prev) + answer.diff.added - answer.diff.removed
=============================================================================
