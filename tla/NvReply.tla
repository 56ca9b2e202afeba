------------------------------ MODULE NvReply ------------------------------
(***************************************************************************)
(* How the engine reads a GameStream host's answers: the receive loops and *)
(* response splitting of src/src/net/http_client.cpp, the tag lookup of    *)
(* src/src/net/gamestream_xml.cpp and the app list of                      *)
(* src/src/net/nv_applist.cpp.  Pure operators, no state.                  *)
(*                                                                         *)
(* A document is a sequence of elements, each a tag and its value.  A      *)
(* connection that ends early cuts it after any element; an element cut in *)
(* the middle has no closing tag and is not found, so it counts as gone.   *)
(***************************************************************************)
EXTENDS Naturals, SequencesExt

CONSTANTS
    Words,          \* app titles and references, letter case left aside
    Leading,        \* Leading[w]: the number w starts with, 0 if none (std::atoi)
    AllDigits       \* the words that consist of digits only

ASSUME WordsAssumption ==
    /\ Leading \in [Words -> Nat]
    /\ AllDigits \subseteq Words

Element(tag, val) == [tag |-> tag, val |-> val]

\* <root status_code="..."> comes first in every answer.
Answer(status, fields) == <<Element("root", status)>> \o fields

-----------------------------------------------------------------------------
(* http_client.cpp                                                         *)

\* recv_all_plain / recv_all_ssl: whatever arrived before the peer closed, the
\* receive timeout struck or the connection broke; nobody asks which it was.
RecvAll(cells) == {SubSeq(cells, 1, n) : n \in 0 .. Len(cells)}

ChunkSize == 2

\* A chunked body: chunks of n elements, each behind its size, and a 0 chunk.
Chunked(doc, n) ==
    LET chunk(i) == SubSeq(doc, i, IF i + n - 1 < Len(doc) THEN i + n - 1 ELSE Len(doc))
        from[i \in 1 .. Len(doc) + n] ==
            IF i > Len(doc) THEN <<Element("size", 0)>>
            ELSE <<Element("size", Len(chunk(i)))>> \o chunk(i) \o from[i + n]
    IN  from[1]

\* dechunk: stops at the 0 chunk, at anything that is no size, and at a chunk
\* that is not all there.
Dechunk(body) ==
    LET from[i \in 1 .. Len(body) + 1] ==
            IF \/ i > Len(body)
               \/ body[i].tag # "size"
               \/ body[i].val = 0
               \/ i + body[i].val > Len(body)
            THEN <<>>
            ELSE SubSeq(body, i + 1, i + body[i].val) \o from[i + body[i].val + 1]
    IN  from[1]

\* parse_http_response: not HTTP, or cut before the end of the headers, is an
\* empty body; Content-Length is not looked at.
ParseHttpResponse(head, body) ==
    IF head = "chunked" THEN Dechunk(body)
    ELSE IF head = "plain" THEN body
    ELSE <<>>

\* NvHttpClient::request: all that may be made of a document a host sends, in
\* one piece or in chunks.
Received(doc) ==
    {<<>>} \cup {ParseHttpResponse("plain", b) : b \in RecvAll(doc)}
           \cup {ParseHttpResponse("chunked", b) : b \in RecvAll(Chunked(doc, ChunkSize))}

-----------------------------------------------------------------------------
(* gamestream_xml.cpp                                                      *)

\* xml_text: the first element of that name, or what an empty string means to
\* the caller.
XmlText(doc, tag, ifAbsent) ==
    LET at == {i \in 1 .. Len(doc) : doc[i].tag = tag}
    IN  IF at = {} THEN ifAbsent ELSE doc[Min(at)].val

\* !xml.empty() && xml_attr(xml, "root", "status_code") == "200"
StatusOk(doc) == XmlText(doc, "root", "") = "200"

-----------------------------------------------------------------------------
(* nv_applist.cpp                                                          *)

Titles  == [word : Words, upper : BOOLEAN]
NoTitle == [word |-> "", upper |-> FALSE]

\* The <App> entries of an applist answer, as a host writes them; id 0 stands
\* for an entry without <ID>.
AppElements(apps) ==
    FlattenSeq([i \in 1 .. Len(apps) |->
        <<Element("App", ""), Element("AppTitle", apps[i].title)>>
            \o (IF apps[i].id > 0 THEN <<Element("ID", apps[i].id)>> ELSE <<>>)
            \o <<Element("/App", "")>>])

\* find_app_body: an <App> that is not inside an earlier entry
Opens(doc, i) ==
    /\ doc[i].tag = "App"
    /\ \A j \in 1 .. i - 1 : doc[j].tag = "App" => \E k \in j + 1 .. i - 1 : doc[k].tag = "/App"

\* Mutated form of Block: an entry's fields are looked up in all that follows.
BlockUnbounded(doc, i) == SubSeq(doc, i, Len(doc))

\* An entry goes up to its </App> or to the end of the document.
Block(doc, i) ==
    LET ends == {j \in i + 1 .. Len(doc) : doc[j].tag = "/App"}
    IN  SubSeq(doc, i, IF ends = {} THEN Len(doc) ELSE Min(ends))

Entry(doc, i) == [id    |-> XmlText(Block(doc, i), "ID", 0),
                  title |-> XmlText(Block(doc, i), "AppTitle", NoTitle)]

\* An entry without a positive ID or a title is no usable app.
Usable(a) == a.id > 0 /\ a.title # NoTitle

\* parse_app_list
ParseAppList(doc) ==
    FlattenSeq([i \in 1 .. Len(doc) |->
        IF Opens(doc, i) /\ Usable(Entry(doc, i)) THEN <<Entry(doc, i)>> ELSE <<>>])

\* resolve_app_id: digits are the id; else the first title equal but for case.
ResolveAppId(apps, ref) ==
    LET matches == {i \in 1 .. Len(apps) : apps[i].title.word = ref.word}
    IN  IF ref.word \in AllDigits /\ Leading[ref.word] > 0 THEN Leading[ref.word]
        ELSE IF matches = {} THEN 0
        ELSE apps[Min(matches)].id
=============================================================================
