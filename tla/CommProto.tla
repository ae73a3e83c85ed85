------------------------------ MODULE CommProto ------------------------------
(***************************************************************************)
(* communication_protocol.c: a struct is written to and read from a packet *)
(* under the direction of its meta data, a list of field types.  Three     *)
(* functions walk over meta data and struct together, field by field and   *)
(* once more for the structs inside: serialization, deserialization, which *)
(* allocates the dynamic arrays or takes those that are there, and clear,  *)
(* which frees them.  Every allocation may fail and realloc() may move.    *)
(*                                                                         *)
(* One unit stands for the bytes of one number, in the packet and in the   *)
(* struct; byte order and lengths that overflow 32 bits are left out.      *)
(***************************************************************************)
EXTENDS Integers, Sequences, SequencesExt

CONSTANTS
  Metas,                       \* the meta data that a program may use
  Usages,                      \* how dest may be used for a packet after another, see MayParse
  StaticSizes,                 \* sizes of the caller's own buffers
  COMMPROTO_INITIAL_BUFSIZE,
  COMMPROTO_MAX_BUFSIZE,
  MB,
  MaxLen,                      \* bound: length of a dynamic array
  MaxMessages                  \* bound: messages that the program makes, for each usage

Simple == {"INT", "ARRAY_LEN", "DYNAMIC_ARRAY", "FIXED_ARRAY"}
Struct == {"STRUCT_DYNAMIC_ARRAY", "STRUCT_FIXED_ARRAY"}
Type == Simple \cup Struct

VARIABLES
  s_is_initialized,
  meta,       \* struct_meta_data: one record per field; those of a struct inside follow its own
  obj,        \* obj[o]: the members of struct o
  usage,      \* how dest is used
  state,      \* state[o]: "fresh", "filled", "failed" or "cleared"
  packet,     \* what serialization returned, or None
  sent,       \* history: the struct that the packet was made of
  wire,       \* the part of a packet that has last arrived at dest
  op, who,    \* the operation and its struct
  stack,      \* the calls of general_*(), innermost first
  mp,         \* *meta_pptr
  handled,    \* *handled_len_ptr
  buf,        \* the buffer being written
  err, pc,    \* "idle", "field" (the head of the inner loop), "round" (behind it), "done"
  blocks,     \* number of memory blocks that are allocated
  messages    \* bounded counter

call == <<op, who, stack, mp, handled, err, pc>>
setup == <<s_is_initialized, meta, usage>>
caller == <<setup, state, packet, sent, wire, messages>>
vars == <<caller, obj, call, buf, blocks>>

-----------------------------------------------------------------------------
\* Members of structs: numbers, lengths and pointers to arrays of elements.
Num(v)   == [k |-> "int", v |-> v, arr |-> <<>>]
Length(v) == [k |-> "len", v |-> v, arr |-> <<>>]
Array(a) == [k |-> "ptr", v |-> 1, arr |-> a]
NULL     == [k |-> "ptr", v |-> 0, arr |-> <<>>]
Junk     == [k |-> "junk", v |-> 0, arr |-> <<>>]
None     == [data |-> <<>>, size |-> 0, cap |-> 0, static |-> TRUE]

\* The zeroed members of the field at p, of the k fields from p on, of the field
\* with the structs inside, and of the fields up to p.
Members(p) ==
  CASE meta[p].t = "INT" -> <<Num(0)>>
    [] meta[p].t = "ARRAY_LEN" -> <<Length(0)>>
    [] meta[p].t = "FIXED_ARRAY" -> [i \in 1..meta[p].n |-> Num(0)]
    [] OTHER -> <<NULL>>
Record(p, k) == FlattenSeq([i \in 1..k |-> Members(p + i - 1)])
IsInner(p) == \E q \in 1..(p - 1) : meta[q].t \in Struct /\ p <= q + meta[q].k
Whole(p) ==
  IF IsInner(p) THEN <<>>
  ELSE IF meta[p].t = "STRUCT_FIXED_ARRAY"
       THEN FlattenSeq([i \in 1..meta[p].n |-> Record(p + 1, meta[p].k)]) ELSE Members(p)
UpTo(p) == FlattenSeq([q \in 1..p |-> Whole(q)])
AllMembers == UpTo(Len(meta))

Owned(cells) ==
  FoldSeq(LAMBDA c, n : n + c.v, 0, SelectSeq(cells, LAMBDA c : c.k = "ptr"))
AllOwned(o) ==
  Owned(obj[o]) + FoldSeq(LAMBDA c, n : n + Owned(FlattenSeq(c.arr)), 0, obj[o])

\* check_struct_differences(): the arrays count up to their lengths.
LengthAt(cells, i) ==
  LET before == {j \in 1..(i - 1) : cells[j].k = "len"}
  IN  cells[CHOOSE j \in before : \A l \in before : l <= j].v
SameRecord(a, b) ==
  \A i \in DOMAIN a : IF a[i].k = "ptr" THEN \A e \in 1..LengthAt(a, i) : a[i].arr[e] = b[i].arr[e]
                                        ELSE a[i] = b[i]
SameStruct(a, b) ==
  \A i \in DOMAIN a : IF a[i].k = "ptr"
                      THEN \A e \in 1..LengthAt(a, i) : SameRecord(a[i].arr[e], b[i].arr[e])
                      ELSE a[i] = b[i]

-----------------------------------------------------------------------------
\* A call of general_*(): base is the member whose array it walks over, or 0.  History:
\* lost, it has gone past a struct array without the fields of its structs, see PastArray.
Frame(fields, loops, p, base, sp, width, limit) ==
  [fields |-> fields, loops |-> loops, loop |-> 1, field |-> 1, simple_array_len |-> -1,
   struct_array_len |-> -1, should_reallocate_array |-> FALSE, round |-> p, base |-> base,
   sp |-> sp, start |-> sp, width |-> width, limit |-> limit, lost |-> FALSE]

f == Head(stack)
can_have_inner_struct == Len(stack) = 1
type == meta[mp].t

Space == IF f.base = 0 THEN obj[who] ELSE FlattenSeq(obj[who][f.base].arr)
Here == Space[f.sp]
Store(new) ==
  LET i == f.sp - 1
      Put(cells, at) == [j \in DOMAIN cells |-> IF j - at \in DOMAIN new THEN new[j - at] ELSE cells[j]]
  IN  obj' = IF f.base = 0 THEN [obj EXCEPT ![who] = Put(@, i)]
             ELSE [obj EXCEPT ![who][f.base].arr[i \div f.width + 1] = Put(@, i % f.width)]

LoopGoesOn == err = "OK" /\ (op = "parse" => handled < Len(wire))

\* Step 1 of all three: the lengths must have come before.
MetaError ==
  CASE type = "DYNAMIC_ARRAY" /\ f.simple_array_len < 0 -> "META_ARRAY_LENGTH_MISSING"
    [] type = "STRUCT_DYNAMIC_ARRAY" /\ f.struct_array_len < 0 -> "META_ARRAY_LENGTH_MISSING"
    [] type \in Struct /\ ~can_have_inner_struct -> "WRONG_META_DATA"
    [] OTHER -> "OK"
data_offset ==
  CASE type = "DYNAMIC_ARRAY" -> f.simple_array_len
    [] type = "FIXED_ARRAY" -> meta[mp].n
    [] type \in Struct -> 0
    [] OTHER -> 1

TooShort == op = "parse" /\ handled + data_offset > Len(wire)
NeedsMemory(n) == n > 0 /\ (f.should_reallocate_array \/ Here.v = 0)

\* What the operation is about to touch is what the meta data say, and large enough.
ArrayHolds ==
  \/ f.simple_array_len <= Len(Here.arr) \/ op \in {"fill", "clear"}
  \/ op = "parse" /\ (NeedsMemory(f.simple_array_len) \/ TooShort)
Touched == IF op = "clear" /\ type \in {"INT", "FIXED_ARRAY", "STRUCT_FIXED_ARRAY"} THEN <<>>
           ELSE IF type = "STRUCT_FIXED_ARRAY" THEN <<>> ELSE Members(mp)
Sound ==
  /\ mp <= Len(meta)
  /\ type = "DYNAMIC_ARRAY" /\ f.sp <= Len(Space) => ArrayHolds
  /\ \A i \in DOMAIN Touched :
       /\ f.sp + i - 1 <= Len(Space)
       /\ LET c == Space[f.sp + i - 1]
          IN  c.k = Touched[i].k \/ (op \in {"parse", "fill"} /\ c.k = "junk" /\ Touched[i].k = "int")

Fail(e) == err' = e /\ UNCHANGED <<stack, mp, pc>>

\* The end of the inner loop's body: g is the frame, p the field to come.
Proceed(g, p, callers) ==
  IF op = "parse" /\ g.sp - g.start > g.limit
  THEN err' = "STRUCT_PTR_EXCEEDS" /\ mp' = p /\ stack' = <<g>> \o callers /\ UNCHANGED pc
  ELSE /\ stack' = <<[g EXCEPT !.field = @ + 1]>> \o callers /\ mp' = p
       /\ pc' = IF p > Len(meta) \/ g.field + 1 > g.fields THEN "round" ELSE "field"
       /\ UNCHANGED err
NextField(g) == Proceed(g, mp + 1, Tail(stack))

\* A simple field is done: the pointer moves on, and a length is remembered.
Passed(length, grows) ==
  [f EXCEPT !.sp = @ + (IF type = "DYNAMIC_ARRAY" THEN 1 ELSE data_offset),
            !.simple_array_len = IF type = "ARRAY_LEN" THEN length
                                 ELSE IF type = "FIXED_ARRAY" THEN data_offset ELSE @,
            !.struct_array_len = IF type = "ARRAY_LEN" THEN length ELSE @,
            !.should_reallocate_array = IF type = "ARRAY_LEN" THEN grows ELSE @]

\* The recursive call for a struct array, of which there are n.
CallInner(n) ==
  LET k == meta[mp].k
      width == Len(Record(mp + 1, k))
      g == [f EXCEPT !.struct_array_len = n]
  IN  /\ mp' = mp + 1
      /\ stack' = <<IF type = "STRUCT_DYNAMIC_ARRAY" THEN Frame(k, n, mp + 1, f.sp, 1, width, n * width)
                    ELSE Frame(k, n, mp + 1, f.base, f.sp, width, n * width), g>> \o Tail(stack)
      /\ UNCHANGED <<err, pc>>

struct_array_len == IF type = "STRUCT_FIXED_ARRAY" THEN meta[mp].n ELSE f.struct_array_len

\* A dynamic struct array that is not entered: only without a length are the fields of
\* its structs skipped, else they are taken for those that follow.
PastArray ==
  Proceed([f EXCEPT !.sp = @ + 1, !.lost = @ \/ struct_array_len > 0],
          IF struct_array_len = 0 THEN mp + 1 + meta[mp].k ELSE mp + 1, Tail(stack))

-----------------------------------------------------------------------------
\* The head of the inner loop.  Out of step with the memory the program has no
\* meaning, and no action either: InStep says when it is.
At(o, types) == /\ pc = "field" /\ op = o /\ LoopGoesOn
                /\ mp <= Len(meta) /\ type \in types /\ Sound
InField(o, types) == At(o, types) /\ MetaError = "OK"

BadMeta ==
  /\ At(op, Type) /\ MetaError # "OK" /\ Fail(MetaError)
  /\ UNCHANGED <<caller, obj, op, who, handled, buf, blocks>>

Reuses == usage \in {"reuse", "rules"}

\* The lengths the program may write.  Arrays that are to be used again start with the
\* longest.  The comment in Step 2 allows any that are not longer afterwards ("rules"),
\* but one that has been shorter must not grow again ("reuse").
Lengths ==
  LET there == IF f.base = 0 THEN obj["dest"] ELSE FlattenSeq(obj["dest"][f.base].arr)
  IN  {n \in 0..MaxLen :
         /\ Reuses /\ messages = 1 => n = MaxLen
         /\ usage = "reuse" /\ messages > 1 /\ f.sp \in DOMAIN there => n <= there[f.sp].v}

\* The program writes the members of a struct one after the other.
FillField ==
  /\ InField("fill", Type)
  /\ CASE type \in {"INT", "FIXED_ARRAY"} ->
           /\ Store([i \in 1..data_offset |-> Num(100 * messages + 10 * f.sp + i + f.base)])
           /\ NextField(Passed(0, FALSE)) /\ UNCHANGED blocks
       [] type = "ARRAY_LEN" ->
           /\ \E n \in Lengths : Store(<<Length(n)>>) /\ NextField(Passed(n, FALSE))
           /\ UNCHANGED blocks
       [] type = "DYNAMIC_ARRAY" ->
           /\ IF f.simple_array_len = 0 THEN UNCHANGED <<obj, blocks>>
              ELSE /\ Store(<<Array([i \in 1..f.simple_array_len |->
                                      <<Num(100 * messages + 10 * f.sp + i + f.base)>>])>>)
                   /\ blocks' = blocks + 1
           /\ NextField(Passed(0, FALSE))
       [] type = "STRUCT_DYNAMIC_ARRAY" /\ struct_array_len = 0 ->
           PastArray /\ UNCHANGED <<obj, blocks>>
       [] type = "STRUCT_DYNAMIC_ARRAY" /\ struct_array_len > 0 ->
           /\ Store(<<Array([i \in 1..struct_array_len |-> Record(mp + 1, meta[mp].k)])>>)
           /\ blocks' = blocks + 1 /\ CallInner(struct_array_len)
       [] OTHER -> CallInner(struct_array_len) /\ UNCHANGED <<obj, blocks>>
  /\ UNCHANGED <<caller, op, who, handled, buf>>

-----------------------------------------------------------------------------
\* general_serialization(): the buffer grows once, by COMMPROTO_EXPAND_BUFSIZE, if it must.
ExpandedSize(n) == IF n < MB THEN 2 * n ELSE MB * (n \div MB + 1)
StillTooBig(need, cap) == cap > COMMPROTO_MAX_BUFSIZE \/ need > cap

\* Mutant: the pointer into a dynamic array is not moved on.
UnitsOfFirst ==
  CASE type = "DYNAMIC_ARRAY" -> [i \in 1..data_offset |-> Here.arr[1][1].v]
    [] OTHER -> [i \in 1..data_offset |-> Space[f.sp + i - 1].v]
Units ==
  CASE type = "DYNAMIC_ARRAY" -> [i \in 1..data_offset |-> Here.arr[i][1].v]
    [] OTHER -> [i \in 1..data_offset |-> Space[f.sp + i - 1].v]

Written(b) ==
  /\ buf' = [b EXCEPT !.data = @ \o Units] /\ handled' = handled + data_offset
  /\ NextField(Passed(Here.v, FALSE))

SerializeSimple ==
  /\ InField("serialize", Simple)
  /\ LET need == handled + data_offset
         cap == ExpandedSize(buf.cap)
     IN  \/ need <= buf.cap /\ Written(buf)
         \/ /\ need > buf.cap /\ (buf.static \/ StillTooBig(need, cap)) /\ Fail("PACKET_TOO_BIG")
            /\ buf' = (IF buf.static THEN buf ELSE [buf EXCEPT !.cap = cap]) /\ UNCHANGED handled
         \/ /\ need > buf.cap /\ ~buf.static /\ ~StillTooBig(need, cap)
            /\ \/ Fail("MEM_ALLOC") /\ buf' = [buf EXCEPT !.cap = cap] /\ UNCHANGED handled
               \/ Written([buf EXCEPT !.cap = cap, !.size = cap])
  /\ UNCHANGED <<caller, obj, op, who, blocks>>

SerializeStructs ==
  /\ InField("serialize", Struct)
  /\ IF type = "STRUCT_DYNAMIC_ARRAY" /\ struct_array_len = 0 THEN PastArray ELSE CallInner(struct_array_len)
  /\ UNCHANGED <<caller, obj, op, who, handled, buf, blocks>>

-----------------------------------------------------------------------------
\* general_deserialization().
Taken == SubSeq(wire, handled + 1, handled + data_offset)

ParseTooShort ==
  /\ InField("parse", Type) /\ TooShort /\ Fail("INCOMPLETE_BUF_CONTENTS")
  /\ UNCHANGED <<caller, obj, op, who, handled, buf, blocks>>

ParseNumbers ==
  /\ InField("parse", {"INT", "FIXED_ARRAY"}) /\ ~TooShort
  /\ handled' = handled + data_offset
  /\ Store([i \in 1..data_offset |-> Num(Taken[i])]) /\ NextField(Passed(0, FALSE))
  /\ UNCHANGED <<caller, op, who, buf, blocks>>

\* The arrays are allocated anew only if the length is greater than the one before.
\* Mutant: the other way round.
GrowsReversed(new, old) == new < old
Grows(new, old) == new > old

ParseLength ==
  /\ InField("parse", {"ARRAY_LEN"}) /\ ~TooShort
  /\ handled' = handled + 1
  /\ Store(<<Length(Taken[1])>>) /\ NextField(Passed(Taken[1], Grows(Taken[1], Here.v)))
  /\ UNCHANGED <<caller, op, who, buf, blocks>>

\* Step 2: memory for n elements like zeros.  What realloc() adds is not
\* initialized; in the outer call an array that has moved is zeroed, all of it.
Reallocated(n, zeros) ==
  LET old == Here.arr
      Kept == Array([i \in 1..n |-> IF i <= Len(old) THEN old[i] ELSE [j \in DOMAIN zeros |-> Junk]])
      Zeroed == Array([i \in 1..n |-> zeros])
  IN  IF ~can_have_inner_struct THEN {Kept} ELSE {Zeroed} \cup (IF Here.v = 0 THEN {} ELSE {Kept})

NoMemory ==
  /\ InField("parse", {"DYNAMIC_ARRAY", "STRUCT_DYNAMIC_ARRAY"}) /\ ~TooShort
  /\ NeedsMemory(IF type = "DYNAMIC_ARRAY" THEN f.simple_array_len ELSE struct_array_len)
  /\ Fail("MEM_ALLOC")
  /\ UNCHANGED <<caller, obj, op, who, handled, buf, blocks>>

\* The n elements that there are memory for are overwritten, those behind them stay.
ParseArray ==
  /\ InField("parse", {"DYNAMIC_ARRAY"}) /\ ~TooShort
  /\ LET n == f.simple_array_len
         Fill(a) == IF n = 0 THEN a
                    ELSE Array([i \in DOMAIN a.arr |-> IF i <= n THEN <<Num(Taken[i])>> ELSE a.arr[i]])
     IN  /\ \E a \in (IF NeedsMemory(n) THEN Reallocated(n, <<Num(0)>>) ELSE {Here}) : Store(<<Fill(a)>>)
         /\ blocks' = IF NeedsMemory(n) /\ Here.v = 0 THEN blocks + 1 ELSE blocks
  /\ handled' = handled + data_offset /\ NextField(Passed(0, FALSE))
  /\ UNCHANGED <<caller, op, who, buf>>

ParseStructs ==
  /\ InField("parse", Struct)
  /\ LET n == struct_array_len
         dynamic == type = "STRUCT_DYNAMIC_ARRAY"
         needs == dynamic /\ NeedsMemory(n)
     IN  /\ \/ ~needs /\ UNCHANGED obj
            \/ needs /\ \E a \in Reallocated(n, Record(mp + 1, meta[mp].k)) : Store(<<a>>)
         /\ blocks' = IF needs /\ Here.v = 0 THEN blocks + 1 ELSE blocks
         /\ IF dynamic /\ n = 0 THEN PastArray ELSE CallInner(n)
  /\ UNCHANGED <<caller, op, who, handled, buf>>

-----------------------------------------------------------------------------
\* general_clear().
ClearSimple ==
  /\ InField("clear", Simple)
  /\ NextField(Passed(IF type = "ARRAY_LEN" THEN Here.v ELSE 0, FALSE))
  /\ IF type = "DYNAMIC_ARRAY" THEN Store(<<NULL>>) /\ blocks' = blocks - Here.v
                               ELSE UNCHANGED <<obj, blocks>>
  /\ UNCHANGED <<caller, op, who, handled, buf>>

\* An array that is NULL is not entered, whatever its length; see PastArray.
ClearStructs ==
  /\ InField("clear", Struct)
  /\ IF type = "STRUCT_DYNAMIC_ARRAY" /\ (struct_array_len = 0 \/ Here.v = 0)
     THEN PastArray /\ Store(<<NULL>>) /\ blocks' = blocks - Here.v
     ELSE CallInner(struct_array_len) /\ UNCHANGED <<obj, blocks>>
  /\ UNCHANGED <<caller, op, who, handled, buf>>

-----------------------------------------------------------------------------
\* Behind the inner loop: the next round, or the return.
LoopEnded == (pc = "round" \/ (pc = "field" /\ ~LoopGoesOn))
GoesRound == LoopGoesOn /\ f.loop < f.loops

NextRound ==
  /\ LoopEnded /\ GoesRound
  /\ stack' = <<[f EXCEPT !.loop = @ + 1, !.field = 1]>> \o Tail(stack) /\ mp' = f.round /\ pc' = "field"
  /\ UNCHANGED <<caller, obj, op, who, handled, buf, err, blocks>>

Result == IF op = "parse" /\ err = "OK" /\ f.loop < f.loops THEN "INCOMPLETE_BUF_CONTENTS" ELSE err

Return ==
  /\ LoopEnded /\ ~GoesRound /\ Len(stack) = 1
  /\ err' = Result /\ pc' = "done" /\ stack' = <<>>
  /\ UNCHANGED <<caller, obj, op, who, mp, handled, buf, blocks>>

\* An array that was entered is left; clear frees it.
\* Mutant: the arrays of structs are forgotten.
FreesNone == FALSE
Frees == op = "clear" /\ f.base # 0 /\ err = "OK"

ReturnInner ==
  /\ LoopEnded /\ ~GoesRound /\ Len(stack) = 2
  /\ LET g == stack[2]
         dynamic == f.base # 0
     IN  /\ IF Result # "OK"
            THEN err' = Result /\ pc' = "round" /\ stack' = <<g>> /\ UNCHANGED mp
            ELSE Proceed([g EXCEPT !.sp = IF dynamic THEN @ + 1 ELSE f.sp], mp, <<>>)
         /\ IF Frees THEN obj' = [obj EXCEPT ![who][f.base] = NULL] /\ blocks' = blocks - 1
                     ELSE UNCHANGED <<obj, blocks>>
  /\ UNCHANGED <<caller, op, who, handled, buf>>

-----------------------------------------------------------------------------
\* The callers: what the test program does, in any order that the comments allow.
Idle == pc = "idle"

Begin(o, w) ==
  /\ op' = o /\ who' = w /\ mp' = 1 /\ handled' = 0 /\ err' = "OK" /\ pc' = "field"
  /\ stack' = <<Frame(32767, 1, 1, 0, 1, Len(obj[w]), Len(AllMembers))>>
Refuse(o, w, e) ==
  /\ op' = o /\ who' = w /\ mp' = 1 /\ handled' = 0 /\ err' = e /\ pc' = "done" /\ stack' = <<>>
Ends(ops) ==
  /\ pc = "done" /\ op \in ops
  /\ op' = "none" /\ who' = "src" /\ mp' = 1 /\ handled' = 0 /\ err' = "OK" /\ pc' = "idle" /\ stack' = <<>>

commproto_init ==
  /\ Idle /\ ~s_is_initialized /\ s_is_initialized' = TRUE
  /\ UNCHANGED <<meta, usage, state, packet, sent, wire, messages, obj, call, buf, blocks>>

\* src is filled when nothing is left of the message before.
StartFill ==
  /\ Idle /\ packet = None /\ state["src"] # "filled" /\ messages < MaxMessages[usage]
  /\ messages' = messages + 1 /\ Begin("fill", "src")
  /\ obj' = [obj EXCEPT !["src"] = AllMembers]
  /\ UNCHANGED <<setup, state, packet, sent, wire, buf, blocks>>

commproto_serialize ==
  /\ Idle /\ packet = None
  /\ \E w \in {"src", "dest"} : state[w] = "filled" /\
       (\/ \E n \in StaticSizes :
             /\ buf' = [None EXCEPT !.size = n, !.cap = n] /\ UNCHANGED blocks
             /\ IF ~s_is_initialized THEN Refuse("serialize", w, "NOT_INITIALIZED")
                ELSE IF n = 0 THEN Refuse("serialize", w, "ZERO_LENGTH") ELSE Begin("serialize", w)
        \/ /\ buf' = [data |-> <<>>, size |-> COMMPROTO_INITIAL_BUFSIZE,
                       cap |-> COMMPROTO_INITIAL_BUFSIZE, static |-> FALSE]
           /\ blocks' = blocks + 1
           /\ IF ~s_is_initialized THEN Refuse("serialize", w, "NOT_INITIALIZED") ELSE Begin("serialize", w)
        \/ /\ buf' = None /\ UNCHANGED blocks
           /\ Refuse("serialize", w, IF s_is_initialized THEN "MEM_ALLOC" ELSE "NOT_INITIALIZED"))
  /\ UNCHANGED <<caller, obj>>

\* The caller frees a buffer that came with an error; whether a larger one was
\* shrunk to the packet makes no difference to anybody.
SerializeEnd ==
  /\ Ends({"serialize"}) /\ buf' = None
  /\ IF err = "OK"
     THEN /\ packet' = [buf EXCEPT !.size = 0, !.cap = 0]
          /\ sent' = obj[who]
          /\ UNCHANGED blocks
     ELSE UNCHANGED <<packet, sent>> /\ blocks' = IF buf.static THEN blocks ELSE blocks - 1
  /\ UNCHANGED <<setup, state, wire, messages, obj>>

DropPacket ==
  /\ Idle /\ packet # None /\ packet' = None /\ sent' = <<>>
  /\ blocks' = IF packet.static THEN blocks ELSE blocks - 1
  /\ UNCHANGED <<setup, state, wire, messages, obj, call, buf>>

\* The packet has arrived, or only its first n units.  "clear": dest has been
\* cleared.  "reuse": its first packet was a whole one and had the longest arrays.
\* "rules": likewise, and there is no other and no error.  "grow": the arrays may grow,
\* but there are none of structs, and dest is cleared after an error.
MayParse ==
  CASE usage = "clear" -> state["dest"] \in {"fresh", "cleared"}
    [] Reuses -> \/ state["dest"] = "filled" \/ (state["dest"] = "failed" /\ usage = "reuse")
                 \/ state["dest"] = "fresh" /\ messages = 1
    [] usage = "grow"  -> state["dest"] # "failed"

commproto_parse ==
  /\ Idle /\ packet # None /\ MayParse
  /\ \E n \in (IF usage = "rules" THEN {Len(packet.data)} ELSE 0..Len(packet.data)) :
       /\ wire' = SubSeq(packet.data, 1, n)
       /\ IF n = 0 THEN Refuse("parse", "dest", "ZERO_LENGTH") ELSE Begin("parse", "dest")
  /\ UNCHANGED <<setup, state, packet, sent, messages, obj, buf, blocks>>

ParseEnd ==
  /\ Ends({"parse"})
  /\ state' = [state EXCEPT !["dest"] = IF err = "OK" /\ wire = packet.data THEN "filled"
                                        ELSE IF Reuses /\ @ = "fresh" THEN @ ELSE "failed"]
  /\ wire' = IF err = "OK" THEN wire ELSE <<>>
  /\ UNCHANGED <<setup, packet, sent, messages, obj, buf, blocks>>

\* Any struct at any time: after a parse, whole, cut or failed, and by a destructor once
\* more.
commproto_clear ==
  /\ Idle
  /\ \E w \in {"src", "dest"} :
       IF s_is_initialized THEN Begin("clear", w) ELSE Refuse("clear", w, "OK")
  /\ UNCHANGED <<caller, obj, buf, blocks>>

FillEnd ==
  /\ Ends({"fill"}) /\ state' = [state EXCEPT !["src"] = "filled"]
  /\ UNCHANGED <<setup, packet, sent, wire, messages, obj, buf, blocks>>

ClearEnd ==
  /\ Ends({"clear"})
  /\ state' = IF s_is_initialized THEN [state EXCEPT ![who] = "cleared"] ELSE state
  /\ wire' = (IF who = "dest" THEN <<>> ELSE wire)
  /\ UNCHANGED <<setup, packet, sent, messages, obj, buf, blocks>>

-----------------------------------------------------------------------------
HasStructArray == \E p \in DOMAIN meta : meta[p].t = "STRUCT_DYNAMIC_ARRAY"

Init ==
  /\ s_is_initialized = FALSE /\ meta \in Metas /\ usage \in Usages /\ (usage = "grow" => ~HasStructArray)
  /\ obj = [o \in {"src", "dest"} |-> AllMembers] /\ state = [o \in {"src", "dest"} |-> "fresh"]
  /\ packet = None /\ sent = <<>> /\ wire = <<>>
  /\ op = "none" /\ who = "src" /\ stack = <<>> /\ mp = 1 /\ handled = 0 /\ err = "OK" /\ pc = "idle"
  /\ buf = None /\ blocks = 0 /\ messages = 0

Serialization == SerializeSimple \/ SerializeStructs \/ SerializeEnd
Deserialization == ParseTooShort \/ ParseNumbers \/ ParseLength \/ NoMemory \/ ParseArray
                     \/ ParseStructs \/ ParseEnd
Clearing == ClearSimple \/ ClearStructs \/ ClearEnd
Filling == FillField \/ FillEnd
Library == BadMeta \/ Serialization \/ Deserialization \/ Clearing \/ Filling \/ NextRound \/ Return \/ ReturnInner
Caller == commproto_init \/ StartFill \/ commproto_serialize \/ DropPacket \/ commproto_parse \/ commproto_clear

Next == Library \/ Caller
Spec == Init /\ [][Next]_vars

-----------------------------------------------------------------------------
\* However often dest has been used, and whatever lengths its arrays had: a whole
\* packet that is parsed without an error gives the struct that it was made of,
\* and the struct that was parsed gives the same packet again.
RoundTrip ==
  pc = "done" /\ err = "OK" =>
    /\ op = "parse" /\ wire = packet.data => SameStruct(sent, obj["dest"])
    /\ op = "serialize" /\ who = "dest" => buf.data = wire

\* Neither the packet, nor the struct, nor an array is written or read behind its
\* end or as what it is not: walking over the meta data keeps in step with the
\* struct, and lengths never get ahead of the memory.  The exception is clear, and it
\* alone, behind a struct array that has a length and no memory; no struct that holds a
\* whole message has one, but one may after a parse that was cut or has failed and after
\* another clear.
Lost == stack # <<>> /\ Last(stack).lost
InStep ==
  /\ pc = "field" /\ LoopGoesOn => Sound \/ Lost
  /\ Lost => op = "clear" /\ state[who] # "filled"
  /\ Len(buf.data) <= buf.size /\ (~buf.static => buf.size <= COMMPROTO_MAX_BUFSIZE)
  /\ op = "parse" => handled <= Len(wire)

\* Between the calls every block is held by a struct or is the packet, after
\* every error too.  Struct arrays that are used again are the exception: clear
\* takes the present length for the number of the structs inside.
NothingLeaked ==
  pc = "idle" /\ ~(Reuses /\ HasStructArray) =>
    blocks = AllOwned("src") + AllOwned("dest") + (IF packet.static THEN 0 ELSE 1)
=============================================================================
