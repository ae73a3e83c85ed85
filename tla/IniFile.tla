------------------------------ MODULE IniFile -------------------------------
(***************************************************************************)
(* ini_file.c: a program parses a text into a document, lets callbacks     *)
(* traverse it, changes its nodes, dumps it to a stream or to a buffer,    *)
(* destroys it, and parses what it has dumped.  The document is the heap   *)
(* the code builds: nodes, details and strings are blocks that point to    *)
(* each other.  Any allocation may fail, and so may writing to a stream.    *)
(***************************************************************************)
EXTENDS Naturals, Sequences, SequencesExt, FiniteSetsExt

CONSTANTS
  Texts,           \* texts to parse first, sequences of characters
  EditTexts,       \* arguments of the setters
  Suffix,          \* STR_TO_APPEND of test_getters_and_setters()
  Widths,          \* arguments of ini_set_item_indent_width()
  Buffers,         \* lengths of the program's own buffers; 0 is no buffer
  LineMax, KeyMax, IndentMax, FirstTotal,  \* INI_*_MAX, and the first size of a buffer
  MaxParses, MaxOps                      \* bounds: texts parsed, and operations: an edit counts 2

\* Texts are made of characters, and lengths are lengths.
ASSUME IniAssumption ==
  /\ \A t \in Texts \cup EditTexts \cup {Suffix} : t \in Seq(STRING)
  /\ Widths \subseteq Nat /\ Buffers \subseteq Nat
  /\ LineMax \in Nat /\ KeyMax \in Nat /\ IndentMax \in Nat /\ FirstTotal \in Nat /\ MaxParses \in Nat /\ MaxOps \in Nat

NULL == 0
Blank == {" "}
Newline == {"\n", "\r"}
Space == Blank \cup Newline
Tag == {";"}
Bracket == {"[", "]"}
LF == <<"\n">>
CRLF == <<"\r", "\n">>

VARIABLES
  mem, brk,      \* the heap: the block at each address, and the last address given out
  doc,           \* address of the document
  pc,            \* of the program: "start", "idle", "parsing", "ready", "overrun" or "crashed"
  parse,         \* locals of __parse_from()
  walk,          \* locals of __traverse_all_nodes() and __traverse_nodes_of()
  buf,           \* argument of __dump_node_to_buffer()
  err,           \* error code of the last function
  s_newline, s_indent_spaces,
  text,          \* the text to be parsed next, or the part dumped so far
  dumped,        \* ghost: content of the document that text was dumped from, and whether all
                 \* of its writes succeeded
  lost,          \* ghost: blocks given up knowingly, see DestroyEnds
  parses, ops  \* bounded counters

settings == <<s_newline, s_indent_spaces>>
heap == <<mem, brk>>
vars == <<heap, doc, pc, parse, walk, buf, err, settings, text, dumped, lost, parses, ops>>

NoWalk == [job |-> "none", header |-> 0, outer |-> NULL, sec |-> NULL, inner |-> NULL, name |-> NULL, count |-> 0]
NoParse == [rest |-> <<>>, section |-> NULL, prev |-> NULL, strip |-> FALSE, is_str |-> FALSE, buf |-> NULL]
NoBuf == [size |-> 0, first |-> 0, total |-> 0, used |-> 0, allow_resizing |-> FALSE]
NotDumped == [content |-> <<>>, at |-> MaxParses, whole |-> TRUE]
NoIndent == <<"none">>

-----------------------------------------------------------------------------
\* Words.
DropHead(s, chars) ==
  LET kept == {i \in DOMAIN s : s[i] \notin chars} IN IF kept = {} THEN <<>> ELSE SubSeq(s, Min(kept), Len(s))
DropTail(s, chars) ==
  LET kept == {i \in DOMAIN s : s[i] \notin chars} IN IF kept = {} THEN <<>> ELSE SubSeq(s, 1, Max(kept))
Trim(s, chars) == DropTail(DropHead(s, chars), chars)
Has(s, chars) == \E i \in DOMAIN s : s[i] \in chars
Spaces(n) == [i \in 1..n |-> " "]

\* How much of s one line takes: __get_from_string() ends it before a newline,
\* which the caller skips, and fgets() after one.
FirstOf(s, chars) == Min({i \in DOMAIN s : s[i] \in chars} \cup {Len(s) + 1})
LineFromString(s) == LET n == Min({FirstOf(s, Newline) - 1, LineMax})
                     IN [line |-> SubSeq(s, 1, n), rest |-> SubSeq(s, n + 2, Len(s))]
LineFromStream(s) == LET n == Min({FirstOf(s, {"\n"}), LineMax, Len(s)})
                     IN [line |-> SubSeq(s, 1, n), rest |-> SubSeq(s, n + 1, Len(s))]

\* What a line is: its type with the words to be stored, or an error.
Is(type, words) == [type |-> type, words |-> words, err |-> "OK"]
Bad(e) == [type |-> "none", words |-> <<>>, err |-> e]

SectionLine(body) ==
  LET name == Trim(SubSeq(body, 2, Len(body) - 1), Blank)
  IN CASE Len(body) = 1 \/ body[2] = "]" -> Bad("NULL_SECTION_NAME")
       [] Last(body) # "]" -> Bad("BAD_FORMAT")
       [] name = <<>> -> Bad("NULL_SECTION_NAME")
       [] Has(name, Bracket) -> Bad("BAD_FORMAT")
       [] OTHER -> Is("section", <<name>>)

ItemLine(body, orphan, strip) ==
  LET equal_sign == FirstOf(body, {"="})
      val == SubSeq(body, equal_sign + 1, Len(body))
      key == DropTail(SubSeq(body, 1, equal_sign - 1), Blank)
  IN CASE orphan -> Bad("ORPHAN_ITEM")
       [] equal_sign > Len(body) -> Bad("BAD_FORMAT")
       [] equal_sign = 1 -> Bad("NULL_KEY")
       [] OTHER -> Is("item", <<IF strip THEN DropHead(val, Blank) ELSE val, key>>)

ParsedLine(line, orphan, strip) ==
  LET head == DropHead(line, Space)
      body == DropTail(head, Newline)
  IN CASE head = <<>> -> Is("blank", <<>>)
       [] head # <<>> /\ head[1] \in Tag -> Is("comment", <<DropTail(body, Blank)>>)
       [] head # <<>> /\ head[1] = "[" -> SectionLine(DropTail(body, Blank))
       [] OTHER -> ItemLine(IF strip THEN DropTail(body, Blank) ELSE body, orphan, strip)

-----------------------------------------------------------------------------
\* Blocks.
Node(type, detail) == [type |-> type, detail |-> detail, next |-> NULL]

\* The blocks of a node, in the order in which they are allocated from b + 1 on.
Blocks(line, b) ==
  CASE line.type = "blank" -> <<Node("blank", NULL)>>
    [] line.type = "comment" -> <<Node("comment", b + 2)>> \o line.words
    [] line.type = "section" -> <<Node("section", b + 2), [name |-> b + 3, sub |-> NULL]>> \o line.words
    [] line.type = "item" -> <<Node("item", b + 2), [val |-> b + 3, key |-> b + 4]>> \o line.words
    [] OTHER -> <<Node("blank", NULL)>>

Allocated(m, b, blocks) ==
  [a \in DOMAIN m \cup (b + 1..b + Len(blocks)) |-> IF a \in DOMAIN m THEN m[a] ELSE blocks[a - b]]
Freed(m, addresses) == [a \in DOMAIN m \ addresses |-> m[a]]

Type(m, a) == m[a].type
Detail(m, a) == m[m[a].detail]
ItemBlocks(m, a) == IF Type(m, a) = "item" THEN {Detail(m, a).key, Detail(m, a).val} ELSE {}
NodeBlocks(m, a) ==
  {a} \cup (IF Type(m, a) = "section" THEN {Detail(m, a).name} ELSE ItemBlocks(m, a))
      \cup (IF Type(m, a) = "blank" THEN {} ELSE {m[a].detail})

Following(m, a) == IF a = NULL THEN NULL ELSE m[a].next
List(m, a) ==
  LET nth[i \in Nat] == IF i = 0 THEN a ELSE Following(m, nth[i - 1])
      len == CHOOSE i \in 0..brk : nth[i] = NULL /\ (i = 0 \/ nth[i - 1] # NULL)
  IN [i \in 1..len |-> nth[i - 1]]
Sections == List(mem, mem[doc].section)
NodesOf(sec) == List(mem, Detail(mem, sec).sub)

\* The nodes in the order of a traversal.
Nodes ==
  LET sections == Sections
  IN List(mem, mem[doc].preamble) \o FlattenSeq([i \in DOMAIN sections |-> <<sections[i]>> \o NodesOf(sections[i])])

Words(m, a) ==
  CASE Type(m, a) = "blank" -> <<>>
    [] Type(m, a) = "comment" -> <<Detail(m, a)>>
    [] Type(m, a) = "section" -> <<m[Detail(m, a).name]>>
    [] OTHER -> <<m[Detail(m, a).key], m[Detail(m, a).val]>>
Content == LET nodes == Nodes IN [i \in DOMAIN nodes |-> <<Type(mem, nodes[i]), Words(mem, nodes[i])>>]

\* The line a node is dumped as.
Line(type, words) ==
  CASE type = "blank" -> s_newline
    [] type = "comment" -> words[1] \o s_newline
    [] type = "section" -> <<"[">> \o words[1] \o <<"]">> \o s_newline
    [] OTHER -> (IF s_indent_spaces = NoIndent THEN <<>> ELSE s_indent_spaces) \o words[1] \o <<"=">> \o words[2] \o s_newline

-----------------------------------------------------------------------------
\* ini_section_find(), ini_item_find(): the first of those that are equal.
Named(name) == SelectSeq(Sections, LAMBDA sec : mem[Detail(mem, sec).name] = name)
Keyed(sec, key) == SelectSeq(NodesOf(sec), LAMBDA a : Type(mem, a) = "item" /\ mem[Detail(mem, a).key] = key)
Found(nodes) == IF nodes = <<>> THEN NULL ELSE nodes[1]
IsRepeated(nodes) == Len(nodes) > 1

\* The setters and callbacks map a record of what they may change to the set of
\* the records they may leave.
Now == [mem |-> mem, brk |-> brk, text |-> text, buf |-> buf, err |-> "OK"]
Error(n, e) == {[n EXCEPT !.err = e]}

Put(m, a, field, p) ==
  IF field = "comment" THEN [m EXCEPT ![a] = [@ EXCEPT !.type = "comment", !.detail = p]]
  ELSE [m EXCEPT ![m[a].detail] = [@ EXCEPT ![field] = p]]

\* A new string takes the place of the old one, or cannot be allocated.
Stored(n, a, field, word) ==
  LET p == n.brk + 1
      m == n.mem
      old == IF field = "comment" THEN m[a].detail ELSE Detail(m, a)[field]
  IN Error(n, "MEM_ALLOC") \cup {[n EXCEPT !.mem = Freed(Put(Allocated(m, n.brk, <<word>>), a, field, p), {old}), !.brk = p]}

\* The word is as long as the trimmed name but begins where the name does.
ini_section_rename(n, a, name) ==
  LET word == Trim(name, Space)
  IN CASE Type(n.mem, a) # "section" -> Error(n, "NOT_SECTION_NODE")
       [] Len(name) > LineMax - 2 -> Error(n, "STRING_TOO_LONG")
       [] word = <<>> -> {n}
       [] Has(word, Newline \cup Bracket) -> Error(n, "BAD_FORMAT")
       [] OTHER -> Stored(n, a, "name", SubSeq(name, 1, Len(word)))

\* Mutant: a key may begin as a comment or a section does.
SetAnyKey(n, a, key) ==
  LET word == Trim(key, Space)
  IN CASE Type(n.mem, a) # "item" -> Error(n, "NOT_ITEM_NODE")
       [] Len(key) > KeyMax -> Error(n, "STRING_TOO_LONG")
       [] word = <<>> -> {n}
       [] Has(word, Newline) -> Error(n, "BAD_FORMAT")
       [] OTHER -> Stored(n, a, "key", word)

ini_item_set_key(n, a, key) ==
  LET word == Trim(key, Space)
  IN CASE Type(n.mem, a) # "item" -> Error(n, "NOT_ITEM_NODE")
       [] Len(key) > KeyMax -> Error(n, "STRING_TOO_LONG")
       [] word = <<>> -> {n}
       [] word[1] \in Tag \cup {"["} \/ Has(word, Newline) -> Error(n, "BAD_FORMAT")
       [] OTHER -> Stored(n, a, "key", word)

ini_item_set_value(n, a, val) ==
  CASE Type(n.mem, a) # "item" -> Error(n, "NOT_ITEM_NODE")
    [] Len(val) > LineMax - KeyMax - 1 -> Error(n, "STRING_TOO_LONG")
    [] val = <<>> -> {n}
    [] Has(val, Newline) -> Error(n, "BAD_FORMAT")
    [] OTHER -> Stored(n, a, "val", val)

ini_comment_set(n, a, comment) ==
  LET word == Trim(comment, Space)
  IN CASE Len(comment) > LineMax -> Error(n, "STRING_TOO_LONG")
       [] Type(n.mem, a) \notin {"comment", "blank"} -> Error(n, "COMMENT_NOT_ALLOWED")
       [] word = <<>> -> {n}
       [] word[1] \notin Tag \/ Has(word, Newline) -> Error(n, "BAD_FORMAT")
       [] OTHER -> Stored(n, a, "comment", word)

-----------------------------------------------------------------------------
\* Callbacks, called with the pointer to the name of the section and a node.
__dump_node_to_stream(name, a) == {[Now EXCEPT !.text = @ \o Line(Type(mem, a), Words(mem, a))]}

\* What is written of the line if the fputs() or fputc() of its k-th piece fails: the sum of
\* what they return is 0 after the second piece, which ends the line, but fputc() returns
\* a "[" and not 1.  Only the failure of the first piece is reported.
Pieces(type, words) ==
  CASE type = "blank" -> <<s_newline>>
    [] type = "comment" -> <<words[1], s_newline>>
    [] type = "section" -> <<<<"[">>, words[1], <<"]">>, s_newline>>
    [] OTHER -> (IF s_indent_spaces = NoIndent THEN <<>> ELSE <<s_indent_spaces>>)
                  \o <<words[1], <<"=">>, words[2], s_newline>>
CutShort(type, pieces, k) == FlattenSeq(IF k = 2 /\ type # "section" THEN <<pieces[1]>> ELSE RemoveAt(pieces, k))
CutToStream(name, a) ==
  LET pieces == Pieces(Type(mem, a), Words(mem, a))
  IN Error(Now, "IO") \cup {[Now EXCEPT !.text = @ \o CutShort(Type(mem, a), pieces, k)] : k \in 2..Len(pieces)}

\* Mutant: the check forgets the newline.
NotEnoughForWords(len) == buf.used + len - Len(s_newline) > buf.total

NotEnough(len) == buf.used + len > buf.total

\* The buffer is doubled, once, when the line does not fit or there is none yet.
__dump_node_to_buffer(name, a) ==
  LET line == Line(Type(mem, a), Words(mem, a))
      buf_not_enough == NotEnough(Len(line))
      grows == buf.size = 0 \/ buf_not_enough
      written(b) == [Now EXCEPT !.text = @ \o line, !.buf = [b EXCEPT !.used = @ + Len(line)],
                                !.err = IF b.used + Len(line) > b.size THEN "OVERRUN" ELSE "OK"]
  IN IF ~grows THEN {written(buf)}
     ELSE Error(Now, "MEM_ALLOC")
            \cup (IF buf_not_enough /\ ~buf.allow_resizing THEN {}
                  ELSE {written([buf EXCEPT !.size = 2 * buf.total, !.total = 2 * @])})

\* Destruction frees a node after the callback, a section after its nodes.
__do_nothing_but_trigger_summary(name, a) ==
  {IF Type(mem, a) = "section" THEN Now ELSE [Now EXCEPT !.mem = Freed(@, NodeBlocks(mem, a))]}

test_getters_and_setters(name, a) ==
  LET sec == Found(Named(mem[name]))
      key == mem[Detail(mem, a).key]
      val == mem[Detail(mem, a).val]
      same == Keyed(sec, key)
  IN CASE Type(mem, a) = "blank" -> {Now}
       [] Type(mem, a) = "comment" -> ini_comment_set(Now, a, Detail(mem, a) \o Suffix)
       [] Type(mem, a) = "section" /\ IsRepeated(Named(mem[name])) -> Error(Now, "REPEATED_SECTION")
       [] Type(mem, a) = "section" /\ ~IsRepeated(Named(mem[name])) -> ini_section_rename(Now, a, mem[name] \o Suffix)
       [] Type(mem, a) = "item" /\ (IsRepeated(same) \/ Found(same) # a) -> Error(Now, "REPEATED_ITEM")
       [] OTHER -> UNION {ini_item_set_key([n EXCEPT !.err = "OK"], a, key \o Suffix)
                            : n \in ini_item_set_value(Now, a, val \o Suffix)}

-----------------------------------------------------------------------------
Idle == walk.job = "none"
Begin(job) == walk' = [NoWalk EXCEPT !.job = job, !.header = 1, !.outer = mem[doc].preamble]

\* One call of the callback, for a node of the section that is traversed, or for
\* the next of the preamble or of the sections.
NextInner(r) == [walk EXCEPT !.inner = mem[@].next, !.count = @ + 1]
\* Mutant: the name is read before the callback.
NextOuterCached(r) ==
  LET a == walk.outer
      next == [walk EXCEPT !.outer = mem[a].next, !.count = @ + 1]
  IN IF Type(mem, a) = "section"
     THEN [next EXCEPT !.sec = a, !.inner = Detail(mem, a).sub, !.name = Detail(mem, a).name] ELSE next

NextOuter(r) ==
  LET a == walk.outer
      next == [walk EXCEPT !.outer = mem[a].next, !.count = @ + 1]
  IN IF Type(mem, a) = "section"
     THEN [next EXCEPT !.sec = a, !.inner = Detail(r.mem, a).sub, !.name = Detail(r.mem, a).name] ELSE next

Inside == walk.inner # NULL
Visited == IF Inside THEN walk.inner ELSE walk.outer
NameGiven ==
  IF Inside THEN walk.name ELSE IF Type(mem, Visited) = "section" THEN Detail(mem, Visited).name ELSE NULL
CallBack(job, results) ==
  /\ walk.job = job
  /\ walk.sec = NULL => walk.outer # NULL
  /\ walk.sec # NULL => walk.inner # NULL
  /\ \E r \in results :
       /\ mem' = r.mem /\ brk' = r.brk /\ text' = r.text /\ buf' = r.buf
       /\ err' = IF job = "destroy" THEN err ELSE r.err
       /\ walk' = IF r.err # "OK" THEN NoWalk ELSE IF Inside THEN NextInner(r) ELSE NextOuter(r)
       /\ pc' = IF r.err = "OVERRUN" THEN "overrun" ELSE pc
  /\ UNCHANGED <<doc, parse, settings, lost, parses, ops>>
Visit(job, results) == CallBack(job, results) /\ UNCHANGED dumped

\* Bound: one write fails, in the dump that is the last operation.
WriteFails ==
  /\ ops = MaxOps /\ dumped.whole /\ dumped' = [dumped EXCEPT !.whole = FALSE]
  /\ CallBack("stream", CutToStream(NameGiven, Visited))

LeaveSection ==
  /\ walk.sec # NULL /\ walk.inner = NULL
  /\ walk' = [walk EXCEPT !.sec = NULL, !.name = NULL]
  /\ mem' = IF walk.job = "destroy" THEN Freed(mem, NodeBlocks(mem, walk.sec)) ELSE mem
  /\ UNCHANGED <<brk, doc, pc, parse, buf, err, settings, text, dumped, lost, parses, ops>>

NextHeader ==
  /\ walk.header = 1 /\ walk.outer = NULL /\ walk' = [walk EXCEPT !.header = 2, !.outer = mem[doc].section]
  /\ UNCHANGED <<heap, doc, pc, parse, buf, err, settings, text, dumped, lost, parses, ops>>

Traversed(job) == walk.job = job /\ walk.header = 2 /\ walk.outer = NULL /\ walk.sec = NULL

\* The program has the text, wherever it was written to.
DumpEnds ==
  /\ Traversed("stream") \/ Traversed("buffer")
  /\ walk' = NoWalk /\ buf' = NoBuf /\ dumped' = [dumped EXCEPT !.content = Content, !.at = parses]
  /\ UNCHANGED <<heap, doc, pc, parse, err, settings, text, lost, parses, ops>>

EditEnds ==
  /\ Traversed("edit") /\ walk' = NoWalk
  /\ UNCHANGED <<heap, doc, pc, parse, buf, err, settings, text, dumped, lost, parses, ops>>

\* The document itself is freed only if there was a node in it.
DestroyEnds ==
  /\ Traversed("destroy") /\ walk' = NoWalk /\ pc' = "idle" /\ doc' = NULL
  /\ IF walk.count > 0 THEN mem' = Freed(mem, {doc}) /\ UNCHANGED lost ELSE lost' = lost \cup {doc} /\ UNCHANGED mem
  /\ UNCHANGED <<brk, parse, buf, err, settings, text, dumped, parses, ops>>

-----------------------------------------------------------------------------
\* Steps 1 and 2 of main(): a width that is too large, and a newline that is none,
\* change nothing.
Configure ==
  /\ pc = "start" /\ pc' = "idle"
  /\ \E width \in Widths, newline \in {LF, CRLF, Suffix} :
       /\ s_newline' = IF newline \in {LF, CRLF} THEN newline ELSE s_newline
       /\ s_indent_spaces' \in {s_indent_spaces} \cup (IF width > IndentMax THEN {} ELSE {Spaces(width)})
  /\ UNCHANGED <<heap, doc, parse, walk, buf, err, text, dumped, lost, parses, ops>>

\* ini_parse_from_stream(), ini_parse_from_buffer().  Whether there is a line buffer is not
\* looked at: without one the first line is written to a null pointer, and only a stream
\* that is empty makes an empty document.
ParseBegins ==
  /\ pc = "idle" /\ (parses = 0 \/ dumped.at < MaxParses) /\ parses < MaxParses /\ parses' = parses + 1
  /\ \/ err' = "MEM_ALLOC" /\ UNCHANGED <<heap, doc, pc, parse>>
     \/ \E strip, is_str \in BOOLEAN :
          /\ doc' = brk + 1 /\ brk' = brk + 2 /\ pc' = "parsing" /\ err' = "OK"
          /\ mem' = Allocated(mem, brk, <<[preamble |-> NULL, section |-> NULL], <<>>>>)
          /\ parse' = [NoParse EXCEPT !.rest = text, !.strip = strip, !.is_str = is_str, !.buf = brk + 2]
     \/ \E strip, is_str \in BOOLEAN :
          /\ doc' = brk + 1 /\ brk' = brk + 1 /\ err' = "OK"
          /\ pc' = IF is_str \/ text # <<>> THEN "crashed" ELSE "ready"
          /\ mem' = Allocated(mem, brk, <<[preamble |-> NULL, section |-> NULL]>>)
          /\ parse' = [NoParse EXCEPT !.strip = strip, !.is_str = is_str]
  /\ UNCHANGED <<walk, buf, settings, text, dumped, lost, ops>>

\* Where the new node a is linked into the heap m.
AsHead(m, a) ==
  LET section == parse.section
      link(p, field) == [m EXCEPT ![p] = [@ EXCEPT ![field] = a]]
  IN IF Type(m, a) = "section" THEN IF section = NULL THEN link(doc, "section") ELSE link(section, "next")
     ELSE IF section = NULL THEN IF m[doc].preamble = NULL THEN link(doc, "preamble") ELSE m
     ELSE IF Detail(m, section).sub = NULL THEN link(m[section].detail, "sub") ELSE m
AsNext(m, a) ==
  IF Type(m, a) # "section" /\ parse.prev # NULL THEN [m EXCEPT ![parse.prev] = [@ EXCEPT !.next = a]] ELSE m

\* Mutant: a section leaves the last node of the section before as it is.
PrevKept(m, a) == IF Type(m, a) = "section" THEN parse.prev ELSE a

Prev(m, a) == IF Type(m, a) = "section" THEN NULL ELSE a

\* Mutant: only the node and the line buffer are freed.
FreesNodeOnly(k) == {brk + i : i \in 1..1} \cup {parse.buf}

\* What the statements of RETURN_IF_TRUE free when the k-th allocation fails.
FreeStatements(k) == {brk + i : i \in 1..k - 1} \cup {parse.buf}

ParseFails(e, m, k) ==
  /\ err' = e /\ mem' = Freed(m, FreeStatements(k)) /\ Begin("destroy") /\ parse' = NoParse
  /\ UNCHANGED <<brk, pc>>

\* One turn of the loop of __parse_from().
ParseLine ==
  /\ pc = "parsing" /\ Idle /\ parse.rest # <<>>
  /\ LET got == IF parse.is_str THEN LineFromString(parse.rest) ELSE LineFromStream(parse.rest)
         line == ParsedLine(got.line, parse.section = NULL, parse.strip)
         blocks == Blocks(line, brk)
         a == brk + 1
         m == Allocated(mem, brk, blocks)
     IN \/ line.err # "OK" /\ ParseFails(line.err, m, 2)
        \/ \E k \in DOMAIN blocks : ParseFails("MEM_ALLOC", Allocated(mem, brk, SubSeq(blocks, 1, k - 1)), k)
        \/ /\ line.err = "OK" /\ mem' = AsNext(AsHead(m, a), a) /\ brk' = brk + Len(blocks)
           /\ parse' = [parse EXCEPT !.rest = got.rest, !.prev = Prev(m, a),
                                      !.section = IF Type(m, a) = "section" THEN a ELSE @]
           /\ UNCHANGED <<walk, err, pc>>
  /\ UNCHANGED <<doc, buf, settings, text, dumped, lost, parses, ops>>

ParseEnds ==
  /\ pc = "parsing" /\ Idle /\ parse.rest = <<>> /\ pc' = "ready"
  /\ mem' = Freed(mem, {parse.buf})
  /\ parse' = [parse EXCEPT !.section = NULL, !.prev = NULL, !.buf = NULL]
  /\ UNCHANGED <<brk, doc, walk, buf, err, settings, text, dumped, lost, parses, ops>>

-----------------------------------------------------------------------------
\* The program, when it has a document.
Ready == pc = "ready" /\ Idle
Operate(cost) == Ready /\ ops + cost <= MaxOps /\ ops' = ops + cost

ini_dump_to_stream ==
  /\ Operate(1) /\ Begin("stream") /\ text' = <<>> /\ dumped' = NotDumped /\ err' = "OK"
  /\ UNCHANGED <<heap, doc, pc, parse, buf, settings, lost, parses>>

\* Without an indent string the code reads a null pointer.
ini_dump_to_buffer ==
  /\ Operate(1) /\ s_indent_spaces # NoIndent /\ Begin("buffer") /\ text' = <<>> /\ dumped' = NotDumped /\ err' = "OK"
  /\ \E len \in Buffers, allow_resizing \in BOOLEAN :
       LET total == IF len = 0 THEN FirstTotal ELSE len
       IN buf' = [size |-> len, first |-> total, total |-> total, used |-> 0, allow_resizing |-> allow_resizing]
  /\ UNCHANGED <<heap, doc, pc, parse, settings, lost, parses>>

ini_destroy ==
  /\ Ready /\ Begin("destroy")
  /\ UNCHANGED <<heap, doc, pc, parse, buf, err, settings, text, dumped, lost, parses, ops>>

TestGettersAndSetters ==
  /\ Operate(2) /\ Begin("edit") /\ dumped' = NotDumped /\ err' = "OK"
  /\ UNCHANGED <<heap, doc, pc, parse, buf, settings, text, lost, parses>>

\* The program uses one setter and does not look at what it returns.
Set ==
  /\ Operate(2) /\ dumped' = NotDumped
  /\ \E a \in Range(Nodes), t \in EditTexts :
       \E r \in ini_section_rename(Now, a, t) \cup ini_item_set_key(Now, a, t)
                  \cup ini_item_set_value(Now, a, t) \cup ini_comment_set(Now, a, t) :
         mem' = r.mem /\ brk' = r.brk
  /\ UNCHANGED <<doc, pc, parse, walk, buf, err, settings, text, lost, parses>>

Init ==
  /\ mem = <<>> /\ brk = 0 /\ doc = NULL /\ pc = "start" /\ parse = NoParse /\ walk = NoWalk /\ buf = NoBuf
  /\ err = "OK" /\ s_newline = LF /\ s_indent_spaces = NoIndent /\ text \in Texts /\ dumped = NotDumped
  /\ lost = {} /\ parses = 0 /\ ops = 0

Next ==
  \/ Configure \/ ParseBegins \/ ParseLine \/ ParseEnds
  \/ ini_dump_to_stream \/ ini_dump_to_buffer \/ ini_destroy \/ TestGettersAndSetters \/ Set
  \/ Visit("stream", __dump_node_to_stream(NameGiven, Visited)) \/ WriteFails
  \/ Visit("buffer", __dump_node_to_buffer(NameGiven, Visited))
  \/ Visit("destroy", __do_nothing_but_trigger_summary(NameGiven, Visited))
  \/ Visit("edit", test_getters_and_setters(NameGiven, Visited))
  \/ LeaveSection \/ NextHeader \/ DumpEnds \/ EditEnds \/ DestroyEnds

-----------------------------------------------------------------------------
Live(a) == a \in DOMAIN mem
Pointers == {walk.outer, walk.sec, walk.inner, walk.name, parse.section, parse.prev, parse.buf, doc} \ {NULL}

\* Nodes, when no traversal is freeing them.
Whole == doc # NULL /\ walk.job # "destroy"
InDocument(m) ==
  {doc} \cup UNION {NodeBlocks(m, a) : a \in Range(Nodes)}

\* A document that is dumped, to a stream or to a buffer, and parsed again has the
\* same nodes with the same words, but for the blanks around values that the parser
\* is told to strip, and for the blank lines that parsing from a buffer makes of
\* the second half of each "\r\n".  It is not true of a stream that a write failed of,
\* nor of every document: with a "\r" in a line, which ends it for the parser of a buffer
\* and is dropped at the end of a line from a stream, or, by the setters, with a "=" in a
\* key, a blank before the name of a section, or a line that is too long.
Stripped(w) == IF w[1] = "item" /\ parse.strip THEN <<"item", <<w[2][1], Trim(w[2][2], Blank)>>>> ELSE w
NoBlankLines(c) == SelectSeq(c, LAMBDA w : w[1] # "blank")
Expected(c) ==
  LET stripped == [i \in DOMAIN c |-> Stripped(c[i])]
  IN IF parse.is_str /\ s_newline = CRLF THEN NoBlankLines(stripped) ELSE stripped
Plain(c, is_str) ==
  \A i \in DOMAIN c :
    /\ c[i][1] = "section" => c[i][2][1][1] \notin Blank
    /\ c[i][1] = "item" => ~Has(c[i][2][1], {"="})
    /\ \A w \in Range(c[i][2]) : IF is_str THEN ~Has(w, {"\r"}) ELSE w # <<>> => Last(w) # "\r"
    /\ Len(Line(c[i][1], c[i][2])) <= LineMax
Reparsed == Idle /\ parses > dumped.at /\ dumped.whole
RoundTrip ==
  /\ pc = "ready" /\ Reparsed /\ Plain(dumped.content, parse.is_str) =>
       Expected(dumped.content) = IF parse.is_str /\ s_newline = CRLF THEN NoBlankLines(Content) ELSE Content
  /\ pc = "idle" /\ Reparsed /\ Plain(dumped.content, TRUE) => err \in {"OK", "MEM_ALLOC"}

\* The lists hold the lines in the order in which they were read, each line under
\* the section that it follows: addresses are given out in that order.
LinesInOrder == Whole => LET nodes == Nodes IN \A i, j \in DOMAIN nodes : i < j => nodes[i] < nodes[j]

\* Whatever a traversal or the parser goes on with is in memory: the next nodes, and
\* the name that callbacks are given, which a callback may have replaced; but for the
\* line buffer that was not allocated, with which no document gets a line (ParseBegins).
NoDangling ==
  /\ pc # "overrun" => \A a \in Pointers : Live(a)
  /\ pc = "parsing" /\ Idle => parse.buf # NULL
  /\ pc = "crashed" => Nodes = <<>>

\* A dump to a buffer writes past its end only for a line that is longer than the
\* buffer was at first: the one doubling is not enough for that one alone.
BufferHolds ==
  pc = "overrun" => \E a \in Range(Nodes) : Len(Line(Type(mem, a), Words(mem, a))) > buf.first

Spec == Init /\ [][Next]_vars

=============================================================================
