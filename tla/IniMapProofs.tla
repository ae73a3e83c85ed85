----------------------------- MODULE IniMapProofs -----------------------------
(***************************************************************************)
(* Theorems about IniFile and IniMap: the document's lists are in order,   *)
(* nothing dangles, every block has one owner.                             *)
(***************************************************************************)
EXTENDS IniMap, SequenceLemmas

-----------------------------------------------------------------------------
\* The inductive invariant.  It speaks of three sets of addresses: N, the nodes
\* that are in the heap; S, those of them that are sections; B, those that the
\* traversal has before it.  As addresses are given out in the order of the
\* lines, a list is the order of its nodes, and each pointer in it is to the least
\* of a set.
First(Q, p) == IF p = NULL THEN Q = {} ELSE p \in Q /\ \A c \in Q : p <= c
\* p points to the last of Q, or to nothing if there is none.
Latest(Q, p) == IF p = NULL THEN Q = {} ELSE p \in Q /\ \A c \in Q : c <= p
\* The nodes of Q that come after a.
Behind(Q, a) == {c \in Q : c > a}
\* The nodes of B before the first section in B.
Leading(S, B) == {c \in B : \A s \in S \cap B : c < s}
\* The nodes of N after the last section.
Trailing(S, N) == {c \in N : \A s \in S : s < c}

\* The characters of the lines.  Those that the code compares with are named, as the provers
\* do not know that a literal is a string.
Chars == STRING \cup {" ", "\n", "\r", "[", "]", "=", "none"}
\* Strings.
Word == Seq(Chars)

\* A node has the blocks of its type, all different.
Shape(m, a) ==
  /\ a \in DOMAIN m
  /\ m[a] \in [type : {"blank", "comment", "section", "item"}, detail : Nat, next : Nat]
  /\ Type(m, a) = "blank" => m[a].detail = NULL
  /\ Type(m, a) # "blank" => m[a].detail \in DOMAIN m \ {a}
  /\ Type(m, a) = "comment" => Detail(m, a) \in Word
  /\ Type(m, a) = "section" =>
       /\ Detail(m, a) \in [name : Nat, sub : Nat]
       /\ Detail(m, a).name \in DOMAIN m \ {a, m[a].detail}
       /\ m[Detail(m, a).name] \in Word
  /\ Type(m, a) = "item" =>
       /\ Detail(m, a) \in [val : Nat, key : Nat]
       /\ Detail(m, a).key \in DOMAIN m \ {a, m[a].detail}
       /\ Detail(m, a).val \in DOMAIN m \ {a, m[a].detail, Detail(m, a).key}
       /\ m[Detail(m, a).key] \in Word /\ m[Detail(m, a).val] \in Word

\* Nodes share no blocks, with each other or with the roots R.
Apart(m, N, R) ==
  /\ \A a \in N : NodeBlocks(m, a) \cap R = {}
  /\ \A a, c \in N : a # c => NodeBlocks(m, a) \cap NodeBlocks(m, c) = {}
\* All blocks of the nodes N.
Covered(m, N) == UNION {NodeBlocks(m, a) : a \in N}
\* Every block belongs to a node or is a root, and none is above the break.
Extent(m, b, N, R) == b \in Nat /\ DOMAIN m \subseteq 1..b /\ DOMAIN m = R \cup Covered(m, N)

\* The next of a section is the next section, that of another node the next node
\* before the next section.
Links(m, N, S) ==
  /\ \A a \in S : First(Behind(S, a), m[a].next)
  /\ \A a \in N \ S : First(Leading(S, Behind(N, a)), m[a].next)
\* S are the sections among the nodes N.
Sorts(m, N, S) == S \subseteq N /\ \A a \in N : a \in S <=> Type(m, a) = "section"
\* A heap of nodes with blocks of their own.
Body(m, b, N, S, R) ==
  N \subseteq Nat /\ (\A a \in N : Shape(m, a)) /\ Sorts(m, N, S) /\ Apart(m, N, R) /\ Extent(m, b, N, R)
\* A heap of nodes that are linked in their order.
Sound(m, b, N, S, R) == Body(m, b, N, S, R) /\ Links(m, N, S)

\* The nodes N are the same in two heaps.
Same(m, m2, N) ==
  \A a \in N : /\ NodeBlocks(m2, a) = NodeBlocks(m, a) /\ m2[a] = m[a]
               /\ Type(m2, a) = Type(m, a) /\ Words(m2, a) = Words(m, a)
               /\ Type(m, a) # "blank" => Detail(m2, a) = Detail(m, a)

\* The lists begin at the document and at the sections; x is one that is being destroyed.
Heads(m, d, N, S) ==
  /\ m[d] \in [preamble : Nat, section : Nat]
  /\ First(Leading(S, N), m[d].preamble) /\ First(S, m[d].section)
\* An item comes after a section.
NoOrphans(m, N, S) == \A a \in N : Type(m, a) = "item" => \E s \in S : s < a
\* The lists of the sections, but for x, begin where they should.
Subs(m, N, S, x) == \A s \in S \ {x} : First(Leading(S, Behind(N, s)), Detail(m, s).sub)

\* What the objects own.
Held == UNION {Owned(o) : o \in Obj}
\* The blocks that no node owns.
Roots == ({doc, parse.buf} \ {NULL}) \cup Held \cup lost
\* No root has two owners.
RootsApart ==
  /\ doc = parse.buf => doc = NULL
  /\ {NULL, doc, parse.buf} \cap lost = {}
  /\ \A o \in Obj : /\ Owned(o) \cap ({doc, parse.buf} \cup lost) = {}
                    /\ obj[o].path = obj[o].map => obj[o].path = NULL
                    /\ \A p \in Obj \ {o} : Owned(o) \cap Owned(p) = {}

\* What a traversal is made for.
Jobs == {"none", "stream", "buffer", "destroy", "edit", "map"}
\* The types of the variables.
Types ==
  /\ pc \in {"start", "idle", "parsing", "ready", "overrun", "crashed"}
  /\ doc \in Nat /\ text \in Word /\ s_newline \in Word /\ s_indent_spaces \in Word
  /\ parse \in [rest : Word, section : Nat, prev : Nat, strip : BOOLEAN, is_str : BOOLEAN, buf : Nat]
  /\ walk \in [job : Jobs, header : {0, 1, 2}, outer : Nat, sec : Nat, inner : Nat, name : Nat, count : Nat]
  /\ buf \in [size : Nat, first : Nat, total : Nat, used : Nat, allow_resizing : BOOLEAN]
  /\ obj \in [Obj -> [alive : BOOLEAN, err : {"OK", "NOT_INITIALIZED"}, doc : Nat, path : Nat, map : Nat, synced : BOOLEAN]]

\* Where the document is while the program is somewhere.
Phases(N) ==
  /\ pc \in {"start", "idle"} <=> doc = NULL
  /\ doc = NULL \/ pc = "crashed" => N = {} /\ Idle
  /\ pc = "parsing" => (Idle <=> parse.buf # NULL)
  /\ pc # "parsing" => parse.section = NULL /\ parse.prev = NULL /\ parse.buf = NULL
  /\ walk.job \notin {"none", "destroy"} => pc = "ready"
  /\ walk.job = "destroy" => pc \in {"parsing", "ready"} /\ parse.section = NULL /\ parse.prev = NULL

Document(N, S) ==
  doc # NULL => /\ Subs(mem, N, S, IF walk.job = "destroy" THEN walk.sec ELSE NULL)
                /\ walk.job # "destroy" => Heads(mem, doc, N, S) /\ NoOrphans(mem, N, S)

\* The traversal: what it goes on with is the first of what is before it.
Walking(N, S, B) ==
  /\ Idle => walk = NoWalk
  /\ ~Idle =>
       /\ B \subseteq N /\ \A b \in B, c \in N : c > b => c \in B
       /\ walk.header \in {1, 2}
       /\ walk.sec = NULL => walk.inner = NULL /\ walk.name = NULL
       /\ walk.header = 1 =>
            /\ walk.sec = NULL /\ First(Leading(S, B), walk.outer)
            /\ mem[doc] \in [preamble : Nat, section : Nat] /\ First(S \cap B, mem[doc].section)
       /\ walk.header = 2 => First(Leading(S, B), walk.inner) /\ First(S \cap B, walk.outer)
       /\ walk.sec # NULL => walk.sec \in S \ B /\ walk.name = Detail(mem, walk.sec).name
       /\ walk.job = "destroy" => N \ B = {walk.sec} \ {NULL}

Parsing(N, S) ==
  pc = "parsing" /\ Idle => Latest(S, parse.section) /\ Latest(Trailing(S, N), parse.prev)

\* The buffer before the line that is too long for it, and after.
Filling == buf.size \in {0, buf.total} /\ buf.used <= buf.total /\ buf.first <= buf.total
\* What the buffer was too small for is a line longer than its first size.
Overrun(N) == \E a \in N : Len(Line(Type(mem, a), Words(mem, a))) > buf.first
\* The buffer is within its bounds, or was overrun by a long line.
Buffered(N) == (walk.job = "buffer" => Filling) /\ (pc = "overrun" => Overrun(N))

\* An object has a map if and only if it has a document, and the object whose map is being
\* filled is there.
Objects ==
  /\ \A o \in Obj : /\ obj[o].doc = NULL <=> obj[o].map = NULL
                    /\ obj[o].err = "OK" => obj[o].map # NULL
                    /\ ~obj[o].alive => obj[o].map = NULL /\ obj[o].path = NULL
  /\ walk.job = "map" => building \in Obj /\ obj[building].map # NULL /\ obj[building].alive

\* The whole state, of a heap with the nodes N, the sections S, and B to be visited.
Good(N, S, B) ==
  /\ Types /\ Sound(mem, brk, N, S, Roots) /\ RootsApart /\ Phases(N) /\ Document(N, S)
  /\ Walking(N, S, B) /\ Parsing(N, S) /\ Buffered(N) /\ Objects

\* The inductive invariant.
IInv == \E N, S, B \in SUBSET Nat : Good(N, S, B)
-----------------------------------------------------------------------------
\* Heaps.

\* A node whose blocks are the same is the same.
LEMMA SameNode ==
  ASSUME NEW m, NEW m2, NEW a, Shape(m, a),
         \A x \in NodeBlocks(m, a) : x \in DOMAIN m2 /\ m2[x] = m[x]
  PROVE  /\ Shape(m2, a) /\ NodeBlocks(m2, a) = NodeBlocks(m, a) /\ m2[a] = m[a]
         /\ Type(m2, a) = Type(m, a) /\ Words(m2, a) = Words(m, a)
         /\ Type(m, a) # "blank" => Detail(m2, a) = Detail(m, a)
<1>1. m2[a] = m[a] /\ a \in DOMAIN m2 /\ Type(m2, a) = Type(m, a)
  BY DEF NodeBlocks, Type
<1>2. Type(m, a) \in {"blank", "comment", "section", "item"}
  BY DEF Shape, Type
<1>3. CASE Type(m, a) = "blank"
  BY <1>1, <1>3 DEF Shape, NodeBlocks, ItemBlocks, Type, Words
<1>4. ASSUME Type(m, a) # "blank"
      PROVE  m[a].detail \in DOMAIN m2 /\ m2[a].detail = m[a].detail /\ Detail(m2, a) = Detail(m, a)
  BY <1>1, <1>4 DEF NodeBlocks, Detail
<1>5. CASE Type(m, a) = "comment"
  BY <1>1, <1>4, <1>5 DEF Shape, NodeBlocks, ItemBlocks, Words
<1>6. CASE Type(m, a) = "section"
  <2>1. Detail(m, a).name \in NodeBlocks(m, a)
    BY <1>6 DEF NodeBlocks
  <2>2. Detail(m2, a).name \in DOMAIN m2 /\ m2[Detail(m2, a).name] = m[Detail(m, a).name]
    BY <2>1, <1>4, <1>6
  <2>. QED  BY <2>1, <2>2, <1>1, <1>4, <1>6 DEF Shape, NodeBlocks, Words
<1>7. CASE Type(m, a) = "item"
  <2>1. Detail(m, a).key \in NodeBlocks(m, a) /\ Detail(m, a).val \in NodeBlocks(m, a)
    BY <1>7 DEF NodeBlocks, ItemBlocks
  <2>2. /\ Detail(m2, a).key \in DOMAIN m2 /\ m2[Detail(m2, a).key] = m[Detail(m, a).key]
        /\ Detail(m2, a).val \in DOMAIN m2 /\ m2[Detail(m2, a).val] = m[Detail(m, a).val]
    BY <2>1, <1>4, <1>7
  <2>. QED  BY <2>1, <2>2, <1>1, <1>4, <1>7 DEF Shape, NodeBlocks, ItemBlocks, Words
<1>. QED  BY <1>2, <1>3, <1>5, <1>6, <1>7

\* Blocks of a node are numbers of blocks.
LEMMA BlocksLive ==
  ASSUME NEW m, NEW a, Shape(m, a)
  PROVE  NodeBlocks(m, a) \subseteq DOMAIN m /\ a \in NodeBlocks(m, a)
<1>1. Type(m, a) # "blank" => m[a].detail \in DOMAIN m
  BY DEF Shape
<1>2. Type(m, a) = "section" => Detail(m, a).name \in DOMAIN m
  BY DEF Shape
<1>3. Type(m, a) = "item" => Detail(m, a).key \in DOMAIN m /\ Detail(m, a).val \in DOMAIN m
  BY DEF Shape
<1>4. a \in DOMAIN m
  BY DEF Shape
<1>. QED  BY <1>1, <1>2, <1>3, <1>4 DEF NodeBlocks, ItemBlocks

\* What does not touch the blocks of the nodes leaves them as they are.
LEMMA FrameBody ==
  ASSUME NEW m, NEW b, NEW N, NEW S, NEW R, Body(m, b, N, S, R),
         NEW m2, NEW b2 \in Nat, NEW R2,
         \A x \in Covered(m, N) : x \in DOMAIN m2 /\ m2[x] = m[x],
         R2 \cap Covered(m, N) = {}, DOMAIN m2 = R2 \cup Covered(m, N), DOMAIN m2 \subseteq 1..b2
  PROVE  Body(m2, b2, N, S, R2) /\ Same(m, m2, N)
<1>1. ASSUME NEW a \in N
      PROVE  /\ Shape(m2, a) /\ NodeBlocks(m2, a) = NodeBlocks(m, a) /\ m2[a] = m[a]
             /\ Type(m2, a) = Type(m, a) /\ Words(m2, a) = Words(m, a)
             /\ Type(m, a) # "blank" => Detail(m2, a) = Detail(m, a)
  <2>1. \A x \in NodeBlocks(m, a) : x \in DOMAIN m2 /\ m2[x] = m[x]
    BY DEF Covered
  <2>. QED  BY <2>1, SameNode DEF Body
<1>2. Covered(m2, N) = Covered(m, N)
  BY <1>1 DEF Covered
<1>3. Sorts(m2, N, S)
  BY <1>1 DEF Body, Sorts
<1>4. Apart(m2, N, R2)
  <2>1. \A a \in N : NodeBlocks(m, a) \subseteq Covered(m, N)
    BY DEF Covered
  <2>. QED  BY <1>1, <2>1 DEF Body, Apart
<1>5. Extent(m2, b2, N, R2)
  BY <1>2 DEF Extent
<1>. QED  BY <1>1, <1>3, <1>4, <1>5 DEF Body, Same

\* A heap that agrees with a sound one on the blocks of the nodes is sound, whatever its roots are.
LEMMA Frame ==
  ASSUME NEW m, NEW b, NEW N, NEW S, NEW R, Sound(m, b, N, S, R),
         NEW m2, NEW b2 \in Nat, NEW R2,
         \A x \in Covered(m, N) : x \in DOMAIN m2 /\ m2[x] = m[x],
         R2 \cap Covered(m, N) = {}, DOMAIN m2 = R2 \cup Covered(m, N), DOMAIN m2 \subseteq 1..b2
  PROVE  Sound(m2, b2, N, S, R2) /\ Same(m, m2, N)
<1>1. Body(m2, b2, N, S, R2) /\ Same(m, m2, N)
  BY FrameBody DEF Sound
<1>2. Links(m2, N, S)
  <2>1. S \subseteq N /\ \A a \in N : m2[a] = m[a]
    BY <1>1 DEF Body, Sorts, Same
  <2>2. Links(m, N, S)
    BY DEF Sound
  <2>. QED  BY <2>1, <2>2 DEF Links
<1>. QED  BY <1>1, <1>2 DEF Sound

\* Roots and nodes make up the heap, and have nothing in common.
LEMMA RootsAreApart ==
  ASSUME NEW m, NEW b, NEW N, NEW S, NEW R, Body(m, b, N, S, R)
  PROVE  /\ R \cap Covered(m, N) = {} /\ Covered(m, N) \subseteq DOMAIN m /\ R \subseteq DOMAIN m
         /\ N \subseteq Covered(m, N) /\ NULL \notin DOMAIN m /\ DOMAIN m \subseteq Nat /\ NULL \notin N
<1>1. R \cap Covered(m, N) = {}
  BY DEF Body, Apart, Covered
<1>2. DOMAIN m \subseteq 1..b /\ b \in Nat
  BY DEF Body, Extent
<1>3. NULL \notin DOMAIN m /\ DOMAIN m \subseteq Nat
  BY <1>2 DEF NULL
<1>4. N \subseteq Covered(m, N)
  BY BlocksLive DEF Body, Covered
<1>. QED  BY <1>1, <1>3, <1>4 DEF Body, Extent

\* What allocation does.
LEMMA AllocatedIs ==
  ASSUME NEW m, NEW b \in Nat, DOMAIN m \subseteq 1..b, NEW blocks, Len(blocks) \in Nat
  PROVE  /\ DOMAIN Allocated(m, b, blocks) = DOMAIN m \cup (b + 1..b + Len(blocks))
         /\ DOMAIN m \cap (b + 1..b + Len(blocks)) = {}
         /\ DOMAIN Allocated(m, b, blocks) \subseteq 1..b + Len(blocks) /\ b + Len(blocks) \in Nat
         /\ \A x \in DOMAIN m : Allocated(m, b, blocks)[x] = m[x]
         /\ \A i \in 1..Len(blocks) : Allocated(m, b, blocks)[b + i] = blocks[i]
<1>1. \A x \in DOMAIN m : x \in Nat /\ x <= b
  OBVIOUS
<1>2. DOMAIN m \cap (b + 1..b + Len(blocks)) = {}
  BY <1>1
<1>3. \A i \in 1..Len(blocks) : b + i \in b + 1..b + Len(blocks) /\ b + i - b = i
  OBVIOUS
<1>. QED  BY <1>1, <1>2, <1>3 DEF Allocated

\* Allocation of new roots, freeing of roots, and a change of one.
LEMMA FrameAllocated ==
  ASSUME NEW m, NEW b, NEW N, NEW S, NEW R, Sound(m, b, N, S, R), NEW blocks, Len(blocks) \in Nat
  PROVE  /\ Sound(Allocated(m, b, blocks), b + Len(blocks), N, S, R \cup (b + 1..b + Len(blocks)))
         /\ Same(m, Allocated(m, b, blocks), N)
<1>. DEFINE m2 == Allocated(m, b, blocks)
            new == b + 1..b + Len(blocks)
<1>1. b \in Nat /\ DOMAIN m \subseteq 1..b /\ DOMAIN m = R \cup Covered(m, N) /\ R \cap Covered(m, N) = {}
  BY RootsAreApart DEF Sound, Body, Extent
<1>2. /\ DOMAIN m2 = DOMAIN m \cup new /\ DOMAIN m \cap new = {} /\ DOMAIN m2 \subseteq 1..b + Len(blocks)
      /\ b + Len(blocks) \in Nat /\ \A x \in DOMAIN m : m2[x] = m[x]
  <2>1. b \in Nat /\ DOMAIN m \subseteq 1..b
    BY <1>1
  <2>2. DOMAIN m2 = DOMAIN m \cup new /\ DOMAIN m \cap new = {}
    BY <2>1, AllocatedIs
  <2>3. DOMAIN m2 \subseteq 1..b + Len(blocks) /\ b + Len(blocks) \in Nat
    BY <2>1, AllocatedIs
  <2>4. \A x \in DOMAIN m : m2[x] = m[x]
    BY DEF Allocated
  <2>. QED  BY <2>2, <2>3, <2>4
<1>. HIDE DEF m2, new
<1>3. /\ \A x \in Covered(m, N) : x \in DOMAIN m2 /\ m2[x] = m[x]
      /\ (R \cup new) \cap Covered(m, N) = {} /\ DOMAIN m2 = (R \cup new) \cup Covered(m, N)
  BY <1>1, <1>2
<1>4. Sound(m2, b + Len(blocks), N, S, R \cup new) /\ Same(m, m2, N)
  BY <1>2, <1>3, Frame
<1>. QED  BY <1>4 DEF m2, new

\* Freeing roots leaves the nodes as they are.
LEMMA FrameFreed ==
  ASSUME NEW m, NEW b, NEW N, NEW S, NEW R, Sound(m, b, N, S, R), NEW X, X \cap Covered(m, N) = {}
  PROVE  Sound(Freed(m, X), b, N, S, R \ X) /\ Same(m, Freed(m, X), N)
<1>. DEFINE m2 == Freed(m, X)
<1>1. b \in Nat /\ DOMAIN m \subseteq 1..b /\ DOMAIN m = R \cup Covered(m, N) /\ R \cap Covered(m, N) = {}
  BY RootsAreApart DEF Sound, Body, Extent
<1>2. DOMAIN m2 = DOMAIN m \ X /\ \A x \in DOMAIN m2 : m2[x] = m[x]
  BY DEF Freed
<1>. HIDE DEF m2
<1>3. /\ \A x \in Covered(m, N) : x \in DOMAIN m2 /\ m2[x] = m[x]
      /\ (R \ X) \cap Covered(m, N) = {} /\ DOMAIN m2 = (R \ X) \cup Covered(m, N) /\ DOMAIN m2 \subseteq 1..b
  BY <1>1, <1>2
<1>4. Sound(m2, b, N, S, R \ X) /\ Same(m, m2, N)
  BY <1>1, <1>3, Frame
<1>. QED  BY <1>4 DEF m2

\* So does writing to a root.
LEMMA FrameRoot ==
  ASSUME NEW m, NEW b, NEW N, NEW S, NEW R, Body(m, b, N, S, R), NEW r \in R,
         NEW m2, DOMAIN m2 = DOMAIN m, \A y \in DOMAIN m : y # r => m2[y] = m[y]
  PROVE  Body(m2, b, N, S, R) /\ Same(m, m2, N) /\ (Links(m, N, S) => Sound(m2, b, N, S, R))
<1>1. b \in Nat /\ DOMAIN m \subseteq 1..b /\ DOMAIN m = R \cup Covered(m, N) /\ R \cap Covered(m, N) = {}
  BY RootsAreApart DEF Body, Extent
<1>3. /\ \A x \in Covered(m, N) : x \in DOMAIN m2 /\ m2[x] = m[x]
      /\ R \cap Covered(m, N) = {} /\ DOMAIN m2 = R \cup Covered(m, N) /\ DOMAIN m2 \subseteq 1..b
  BY <1>1
<1>4. Body(m2, b, N, S, R) /\ Same(m, m2, N)
  BY <1>1, <1>3, FrameBody
<1>5. Links(m, N, S) => Links(m2, N, S)
  <2>1. S \subseteq N /\ \A a \in N : m2[a] = m[a]
    BY <1>4 DEF Body, Sorts, Same
  <2>. QED  BY <2>1 DEF Links
<1>. QED  BY <1>4, <1>5 DEF Sound

\* The lists of sections, in two heaps with the same nodes.
LEMMA SameSubs ==
  ASSUME NEW m, NEW m2, NEW N, NEW S, NEW x, Sorts(m, N, S), Same(m, m2, N), Subs(m, N, S, x)
  PROVE  Subs(m2, N, S, x)
<1>1. \A s \in S : s \in N /\ Type(m, s) = "section"
  BY DEF Sorts
<1>2. ASSUME NEW s \in S PROVE Detail(m2, s) = Detail(m, s)
  <2>1. s \in N /\ Type(m, s) # "blank"
    BY <1>1
  <2>. QED  BY <2>1 DEF Same
<1>. QED  BY <1>1, <1>2 DEF Subs

\* A node is freed that comes before all others, except for the section x that it is in.
LEMMA Removal ==
  ASSUME NEW m, NEW b, NEW N, NEW S, NEW R, Sound(m, b, N, S, R), NEW x, Subs(m, N, S, x),
         NEW a \in N, \A c \in N \ {a} : c > a \/ (c = x /\ x \in S /\ a \notin S)
  PROVE  /\ Sound(Freed(m, NodeBlocks(m, a)), b, N \ {a}, S \ {a}, R)
         /\ Same(m, Freed(m, NodeBlocks(m, a)), N \ {a})
         /\ Subs(Freed(m, NodeBlocks(m, a)), N \ {a}, S \ {a}, x)
<1>. DEFINE m2 == Freed(m, NodeBlocks(m, a))
            N2 == N \ {a}
            S2 == S \ {a}
<1>1. b \in Nat /\ DOMAIN m \subseteq 1..b /\ DOMAIN m = R \cup Covered(m, N) /\ R \cap Covered(m, N) = {}
  BY RootsAreApart DEF Sound, Body, Extent
<1>2. DOMAIN m2 = DOMAIN m \ NodeBlocks(m, a) /\ \A y \in DOMAIN m2 : m2[y] = m[y]
  BY DEF Freed
<1>. HIDE DEF m2
<1>3. Covered(m, N) = Covered(m, N2) \cup NodeBlocks(m, a) /\ Covered(m, N2) \cap NodeBlocks(m, a) = {}
  BY DEF Sound, Body, Apart, Covered
<1>4. R \cap NodeBlocks(m, a) = {} /\ R \cap Covered(m, N2) = {}
  BY <1>1, <1>3
<1>5. /\ \A y \in Covered(m, N2) : y \in DOMAIN m2 /\ m2[y] = m[y]
      /\ DOMAIN m2 = R \cup Covered(m, N2) /\ DOMAIN m2 \subseteq 1..b
  BY <1>1, <1>2, <1>3, <1>4
<1>6. Body(m, b, N, S, R) /\ Sorts(m, N, S)
  BY DEF Sound, Body
<1>7. ASSUME NEW c \in N2
      PROVE  /\ Shape(m2, c) /\ NodeBlocks(m2, c) = NodeBlocks(m, c) /\ m2[c] = m[c]
             /\ Type(m2, c) = Type(m, c) /\ Words(m2, c) = Words(m, c)
             /\ Type(m, c) # "blank" => Detail(m2, c) = Detail(m, c)
  <2>1. \A y \in NodeBlocks(m, c) : y \in DOMAIN m2 /\ m2[y] = m[y]
    BY <1>5 DEF Covered
  <2>2. Shape(m, c)
    BY <1>6 DEF Body
  <2>. QED  BY <2>1, <2>2, SameNode
<1>8. Same(m, m2, N2)
  BY <1>7 DEF Same
<1>9. Covered(m2, N2) = Covered(m, N2)
  BY <1>7 DEF Covered
<1>10. Sorts(m2, N2, S2)
  BY <1>6, <1>7 DEF Sorts
<1>11. Apart(m2, N2, R)
  BY <1>6, <1>7 DEF Body, Apart
<1>12. Body(m2, b, N2, S2, R)
  BY <1>1, <1>5, <1>6, <1>7, <1>9, <1>10, <1>11 DEF Body, Extent
<1>13. N \subseteq Nat /\ S \subseteq N
  BY <1>6 DEF Body, Sorts
<1>14. ASSUME NEW c \in N2, c > a
       PROVE  /\ Behind(N2, c) = Behind(N, c) /\ Behind(S2, c) = Behind(S, c)
              /\ Leading(S2, Behind(N, c)) = Leading(S, Behind(N, c))
  <2>1. c \in Nat /\ a \in Nat /\ ~(a > c)
    BY <1>13, <1>14
  <2>2. Behind(N2, c) = Behind(N, c) /\ Behind(S2, c) = Behind(S, c)
    BY <2>1 DEF Behind
  <2>3. S2 \cap Behind(N, c) = S \cap Behind(N, c)
    BY <2>1 DEF Behind
  <2>. QED  BY <2>2, <2>3 DEF Leading
<1>15. \A c \in S2 : First(Behind(S2, c), m2[c].next)
  <2>. SUFFICES ASSUME NEW c \in S2 PROVE First(Behind(S2, c), m2[c].next)
    OBVIOUS
  <2>1. First(Behind(S, c), m[c].next) /\ c \in N2 /\ m2[c] = m[c]
    BY <1>7, <1>13 DEF Sound, Links
  <2>2. CASE c > a
    BY <2>1, <2>2, <1>14
  <2>3. CASE a \notin S
    <3>. S2 = S
      BY <2>3
    <3>. QED  BY <2>1
  <2>. QED  BY <2>1, <2>2, <2>3
<1>16. \A c \in N2 \ S2 : First(Leading(S2, Behind(N2, c)), m2[c].next)
  <2>. SUFFICES ASSUME NEW c \in N2 \ S2 PROVE First(Leading(S2, Behind(N2, c)), m2[c].next)
    OBVIOUS
  <2>1. c \in N \ S /\ c > a /\ m2[c] = m[c]
    BY <1>7
  <2>2. First(Leading(S, Behind(N, c)), m[c].next)
    BY <2>1 DEF Sound, Links
  <2>. QED  BY <2>1, <2>2, <1>14
<1>17. Subs(m2, N2, S2, x)
  <2>. SUFFICES ASSUME NEW s \in S2 \ {x} PROVE First(Leading(S2, Behind(N2, s)), Detail(m2, s).sub)
    BY DEF Subs
  <2>1. s \in N2 /\ s > a /\ Detail(m2, s) = Detail(m, s)
    BY <1>6, <1>7 DEF Sorts
  <2>2. First(Leading(S, Behind(N, s)), Detail(m, s).sub)
    BY DEF Subs
  <2>. QED  BY <2>1, <2>2, <1>14
<1>18. Sound(m2, b, N2, S2, R)
  BY <1>12, <1>15, <1>16 DEF Sound, Links
<1>. QED  BY <1>8, <1>17, <1>18 DEF m2

-----------------------------------------------------------------------------
\* Orders of addresses.

\* The first of the nodes before the next section is the first of all.
LEMMA FirstLeading ==
  ASSUME NEW S, NEW B \in SUBSET Nat, NEW p, First(Leading(S, B), p), p # NULL
  PROVE  p \in B \ S /\ \A c \in B : p <= c
<1>1. p \in B /\ \A s \in S \cap B : p < s
  BY DEF First, Leading
<1>2. p \notin S
  BY <1>1
<1>3. ASSUME NEW c \in B PROVE p <= c
  <2>. SUFFICES ASSUME c < p PROVE FALSE
    <3>. p \in Nat /\ c \in Nat
      BY <1>1
    <3>. QED  OBVIOUS
  <2>0. p \in Nat /\ c \in Nat /\ \A s \in S \cap B : s \in Nat
    BY <1>1
  <2>1. \A s \in S \cap B : c < s
    BY <1>1, <2>0
  <2>2. c \in Leading(S, B)
    BY <2>1 DEF Leading
  <2>. QED  BY <2>2, <1>1 DEF First
<1>. QED  BY <1>1, <1>2, <1>3

\* When no node is left before the next section, that is the first of all.
LEMMA FirstSection ==
  ASSUME NEW S, NEW B \in SUBSET Nat, NEW p, First(Leading(S, B), NULL), First(S \cap B, p), p # NULL
  PROVE  p \in S \cap B /\ \A c \in B : p <= c
<1>1. p \in S \cap B /\ \A s \in S \cap B : p <= s
  BY DEF First
<1>2. ASSUME NEW c \in B PROVE p <= c
  <2>. SUFFICES ASSUME c < p PROVE FALSE
    <3>. p \in Nat /\ c \in Nat
      BY <1>1
    <3>. QED  OBVIOUS
  <2>0. p \in Nat /\ c \in Nat /\ \A s \in S \cap B : s \in Nat
    BY <1>1
  <2>1. \A s \in S \cap B : c < s
    BY <1>1, <2>0
  <2>2. c \in Leading(S, B)
    BY <2>1 DEF Leading
  <2>. QED  BY <2>2 DEF First, NULL
<1>. QED  BY <1>1, <1>2

\* What is left after the first.
LEMMA AfterFirst ==
  ASSUME NEW N \in SUBSET Nat, NEW B \in SUBSET N, \A b \in B, c \in N : c > b => c \in B,
         NEW p \in B, \A c \in B : p <= c
  PROVE  B \ {p} = Behind(N, p)
<1>1. ASSUME NEW c \in N PROVE c \in B \ {p} <=> c > p
  <2>1. c \in Nat /\ p \in Nat
    OBVIOUS
  <2>. QED  BY <2>1
<1>. QED  BY <1>1 DEF Behind

\* Nothing is left when there is no section and no node before the next section.
LEMMA NoneLeft ==
  ASSUME NEW S, NEW B, First(Leading(S, B), NULL), First(S \cap B, NULL)
  PROVE  B = {}
BY DEF First, Leading, NULL

\* A new node a comes after all nodes.
Comes(N, S, a, N2, S2) ==
  /\ N \in SUBSET Nat /\ S \in SUBSET N /\ a \in Nat /\ \A c \in N : c < a
  /\ N2 = N \cup {a} /\ S2 \in {S, S \cup {a}}

\* What follows what, once a section has come last.
LEMMA NewSection ==
  ASSUME NEW N, NEW S, NEW a, NEW N2, NEW S2, Comes(N, S, a, N2, S2), a \in S2
  PROVE  /\ \A c \in N : Behind(N2, c) = Behind(N, c) \cup {a} /\ Behind(S2, c) = Behind(S, c) \cup {a}
         /\ Behind(N2, a) = {} /\ Behind(S2, a) = {}
         /\ Leading(S2, N2) = Leading(S, N)
         /\ \A c \in N : Leading(S2, Behind(N2, c)) = Leading(S, Behind(N, c))
<1>0. /\ N \in SUBSET Nat /\ S \in SUBSET N /\ a \in Nat /\ (\A c \in N : c < a) /\ N2 = N \cup {a} /\ S2 = S \cup {a}
  BY DEF Comes
<1>1. \A c \in N : Behind(N2, c) = Behind(N, c) \cup {a} /\ Behind(S2, c) = Behind(S, c) \cup {a}
  BY <1>0 DEF Behind
<1>3. Behind(N2, a) = {} /\ Behind(S2, a) = {}
  <2>1. \A c \in N2 : ~(c > a)
    BY <1>0
  <2>2. \A c \in S2 : ~(c > a)
    BY <1>0, <2>1
  <2>. QED  BY <1>0, <2>1, <2>2 DEF Behind
<1>4. ASSUME NEW B \in SUBSET N, NEW B2, B2 = B \cup {a} PROVE Leading(S2, B2) = Leading(S, B)
  <2>1. a \notin Leading(S2, B2)
    BY <1>0, <1>4 DEF Leading
  <2>2. ASSUME NEW c \in B PROVE c \in Leading(S2, B2) <=> c \in Leading(S, B)
    <3>1. c < a
      BY <1>0
    <3>2. (\A s \in S2 \cap B2 : c < s) <=> \A s \in S \cap B : c < s
      BY <1>0, <1>4, <3>1
    <3>. QED  BY <1>0, <1>4, <3>2 DEF Leading
  <2>. QED  BY <1>0, <1>4, <2>1, <2>2 DEF Leading
<1>5. Leading(S2, N2) = Leading(S, N)
  BY <1>0, <1>4
<1>6. ASSUME NEW c \in N PROVE Leading(S2, Behind(N2, c)) = Leading(S, Behind(N, c))
  <2>1. Behind(N, c) \in SUBSET N /\ Behind(N2, c) = Behind(N, c) \cup {a}
    BY <1>0, <1>1 DEF Behind
  <2>. QED  BY <1>0, <1>4, <2>1
<1>. QED  BY <1>0, <1>1, <1>3, <1>5, <1>6

\* What follows what, once another node has come last.
LEMMA NewNode ==
  ASSUME NEW N, NEW S, NEW a, NEW N2, NEW S2, Comes(N, S, a, N2, S2), a \notin S2
  PROVE  /\ \A c \in N : Behind(N2, c) = Behind(N, c) \cup {a}
         /\ Behind(N2, a) = {} /\ a \notin S /\ S2 = S
         /\ \A B \in SUBSET N : S \cap B = {} => Leading(S, B) = B
         /\ \A B \in SUBSET N : \A B2 : B2 = B \cup {a} =>
              /\ S \cap B # {} => Leading(S, B2) = Leading(S, B)
              /\ S \cap B = {} => Leading(S, B2) = B2
<1>0. /\ N \in SUBSET Nat /\ S \in SUBSET N /\ a \in Nat /\ (\A c \in N : c < a) /\ N2 = N \cup {a} /\ S2 = S
  BY DEF Comes
<1>1. \A c \in N : Behind(N2, c) = Behind(N, c) \cup {a}
  BY <1>0 DEF Behind
<1>2. Behind(N2, a) = {}
  <2>1. \A c \in N2 : ~(c > a)
    BY <1>0
  <2>. QED  BY <1>0, <2>1 DEF Behind
<1>3. a \notin S
  BY <1>0
<1>4. ASSUME NEW B \in SUBSET N, NEW B2, B2 = B \cup {a}, S \cap B # {} PROVE Leading(S, B2) = Leading(S, B)
  <2>1. S \cap B2 = S \cap B
    BY <1>0, <1>3, <1>4
  <2>2. a \notin Leading(S, B2)
    <3>1. PICK s \in S \cap B : TRUE
      BY <1>0, <1>4
    <3>2. s \in Nat /\ s < a
      BY <1>0, <3>1
    <3>3. ~(a < s)
      BY <1>0, <3>2
    <3>. QED  BY <1>0, <2>1, <3>1, <3>3 DEF Leading
  <2>. QED  BY <1>0, <1>4, <2>1, <2>2 DEF Leading
<1>5. ASSUME NEW B \in SUBSET N, NEW B2, B2 = B \cup {a}, S \cap B = {} PROVE Leading(S, B2) = B2
  <2>1. S \cap B2 = {}
    BY <1>0, <1>3, <1>5
  <2>. QED  BY <1>0, <2>1 DEF Leading
<1>6. ASSUME NEW B \in SUBSET N, S \cap B = {} PROVE Leading(S, B) = B
  BY <1>0, <1>6 DEF Leading
<1>. QED  BY <1>0, <1>1, <1>2, <1>3, <1>4, <1>5, <1>6

-----------------------------------------------------------------------------
\* Changes of one node.

\* A heap that agrees with a sound one on the blocks of some nodes has the same nodes there.
LEMMA SameNodes ==
  ASSUME NEW m, NEW b, NEW N, NEW S, NEW R, Body(m, b, N, S, R), NEW N0, N0 \subseteq N,
         NEW m2, \A x \in Covered(m, N0) : x \in DOMAIN m2 /\ m2[x] = m[x]
  PROVE  Same(m, m2, N0)
<1>1. ASSUME NEW c \in N0
      PROVE  /\ Shape(m2, c) /\ NodeBlocks(m2, c) = NodeBlocks(m, c) /\ m2[c] = m[c]
             /\ Type(m2, c) = Type(m, c) /\ Words(m2, c) = Words(m, c)
             /\ Type(m, c) # "blank" => Detail(m2, c) = Detail(m, c)
  <2>1. \A x \in NodeBlocks(m, c) : x \in DOMAIN m2 /\ m2[x] = m[x]
    BY DEF Covered
  <2>2. Shape(m, c)
    BY DEF Body
  <2>. QED  BY <2>1, <2>2, SameNode
<1>. QED  BY <1>1 DEF Same

\* Of the nodes N0 nothing changes; a is new, or its blocks are.
LEMMA Replace ==
  ASSUME NEW m, NEW b, NEW N, NEW S, NEW R, Body(m, b, N, S, R),
         NEW N0, N0 \subseteq N, NEW a \in Nat, a \notin N0, NEW N2, N2 = N0 \cup {a},
         NEW S2, S2 \subseteq N2, \A c \in N0 : c \in S2 <=> c \in S,
         NEW m2, NEW b2 \in Nat, Shape(m2, a), a \in S2 <=> Type(m2, a) = "section",
         \A x \in Covered(m, N0) : x \in DOMAIN m2 /\ m2[x] = m[x],
         NodeBlocks(m2, a) \cap (R \cup Covered(m, N0)) = {},
         \A y : y \in DOMAIN m2 <=> y \in R \cup Covered(m, N0) \cup NodeBlocks(m2, a), DOMAIN m2 \subseteq 1..b2
  PROVE  Body(m2, b2, N2, S2, R)
<1>1. ASSUME NEW c \in N0
      PROVE  /\ Shape(m2, c) /\ NodeBlocks(m2, c) = NodeBlocks(m, c) /\ m2[c] = m[c]
             /\ Type(m2, c) = Type(m, c) /\ Words(m2, c) = Words(m, c)
             /\ Type(m, c) # "blank" => Detail(m2, c) = Detail(m, c)
  <2>1. \A x \in NodeBlocks(m, c) : x \in DOMAIN m2 /\ m2[x] = m[x]
    BY DEF Covered
  <2>2. Shape(m, c)
    BY DEF Body
  <2>. QED  BY <2>1, <2>2, SameNode
<1>3. Covered(m2, N2) = Covered(m, N0) \cup NodeBlocks(m2, a)
  BY <1>1 DEF Covered
<1>4. N2 \subseteq Nat
  BY DEF Body
<1>5. \A c \in N2 : Shape(m2, c)
  BY <1>1
<1>6. Sorts(m2, N2, S2)
  <2>1. \A c \in N0 : c \in S <=> Type(m, c) = "section"
    BY DEF Body, Sorts
  <2>2. \A c \in N0 : c \in S2 <=> Type(m2, c) = "section"
    BY <2>1, <1>1
  <2>. QED  BY <2>2 DEF Sorts
<1>7. Apart(m2, N2, R)
  <2>1. \A c \in N0 : NodeBlocks(m, c) \subseteq Covered(m, N0)
    BY DEF Covered
  <2>2. \A c \in N0 : NodeBlocks(m2, c) \cap R = {}
    BY <1>1 DEF Body, Apart
  <2>3. \A c, e \in N0 : c # e => NodeBlocks(m2, c) \cap NodeBlocks(m2, e) = {}
    BY <1>1 DEF Body, Apart
  <2>4. NodeBlocks(m2, a) \cap R = {}
    OBVIOUS
  <2>5. \A c \in N0 : NodeBlocks(m2, a) \cap NodeBlocks(m2, c) = {}
    BY <2>1, <1>1
  <2>. QED  BY <2>2, <2>3, <2>4, <2>5 DEF Apart
<1>8. Extent(m2, b2, N2, R)
  BY <1>3 DEF Extent
<1>. QED  BY <1>4, <1>5, <1>6, <1>7, <1>8 DEF Body

\* A node gets another next.
LEMMA NodeNext ==
  ASSUME NEW m, NEW m2, NEW a, Shape(m, a), NEW v \in Nat,
         a \in DOMAIN m2, m2[a] = [m[a] EXCEPT !.next = v],
         \A x \in NodeBlocks(m, a) \ {a} : x \in DOMAIN m2 /\ m2[x] = m[x]
  PROVE  /\ Shape(m2, a) /\ NodeBlocks(m2, a) = NodeBlocks(m, a) /\ m2[a].next = v
         /\ Type(m2, a) = Type(m, a) /\ Words(m2, a) = Words(m, a)
         /\ Type(m, a) # "blank" => Detail(m2, a) = Detail(m, a)
<1>1. /\ m2[a] \in [type : {"blank", "comment", "section", "item"}, detail : Nat, next : Nat]
      /\ m2[a].type = m[a].type /\ m2[a].detail = m[a].detail /\ m2[a].next = v
  BY DEF Shape
<1>2. Type(m2, a) = Type(m, a) /\ Type(m, a) \in {"blank", "comment", "section", "item"}
  BY <1>1 DEF Shape, Type
<1>3. CASE Type(m, a) = "blank"
  BY <1>1, <1>2, <1>3 DEF Shape, NodeBlocks, ItemBlocks, Words
<1>4. ASSUME Type(m, a) # "blank"
      PROVE  m[a].detail \in DOMAIN m2 /\ m2[m[a].detail] = m[m[a].detail] /\ Detail(m2, a) = Detail(m, a)
  <2>1. m[a].detail \in NodeBlocks(m, a) \ {a}
    BY <1>4 DEF NodeBlocks, Shape
  <2>. QED  BY <2>1, <1>1 DEF Detail
<1>5. CASE Type(m, a) = "comment"
  BY <1>1, <1>2, <1>4, <1>5 DEF Shape, NodeBlocks, ItemBlocks, Words
<1>6. CASE Type(m, a) = "section"
  <2>1. Detail(m, a).name \in NodeBlocks(m, a) \ {a}
    BY <1>6 DEF NodeBlocks, Shape
  <2>2. Detail(m2, a).name \in DOMAIN m2 /\ m2[Detail(m2, a).name] = m[Detail(m, a).name]
    BY <2>1, <1>4, <1>6
  <2>. QED  BY <2>1, <2>2, <1>1, <1>2, <1>4, <1>6 DEF Shape, NodeBlocks, Words
<1>7. CASE Type(m, a) = "item"
  <2>1. Detail(m, a).key \in NodeBlocks(m, a) \ {a} /\ Detail(m, a).val \in NodeBlocks(m, a) \ {a}
    BY <1>7 DEF NodeBlocks, ItemBlocks, Shape
  <2>2. /\ Detail(m2, a).key \in DOMAIN m2 /\ m2[Detail(m2, a).key] = m[Detail(m, a).key]
        /\ Detail(m2, a).val \in DOMAIN m2 /\ m2[Detail(m2, a).val] = m[Detail(m, a).val]
    BY <2>1, <1>4, <1>7
  <2>. QED  BY <2>1, <2>2, <1>1, <1>2, <1>4, <1>7 DEF Shape, NodeBlocks, ItemBlocks, Words
<1>. QED  BY <1>1, <1>2, <1>3, <1>5, <1>6, <1>7

\* A section gets another list of nodes.
LEMMA NodeSub ==
  ASSUME NEW m, NEW m2, NEW a, Shape(m, a), Type(m, a) = "section", NEW v \in Nat,
         m[a].detail \in DOMAIN m2, m2[m[a].detail] = [Detail(m, a) EXCEPT !.sub = v],
         \A x \in NodeBlocks(m, a) \ {m[a].detail} : x \in DOMAIN m2 /\ m2[x] = m[x]
  PROVE  /\ Shape(m2, a) /\ NodeBlocks(m2, a) = NodeBlocks(m, a) /\ m2[a] = m[a]
         /\ Type(m2, a) = "section" /\ Words(m2, a) = Words(m, a)
         /\ Detail(m2, a).sub = v /\ Detail(m2, a).name = Detail(m, a).name
<1>1. a \in DOMAIN m2 /\ m2[a] = m[a]
  <2>1. a \in NodeBlocks(m, a) \ {m[a].detail}
    BY DEF NodeBlocks, Shape
  <2>. QED  BY <2>1
<1>2. Detail(m2, a) = [Detail(m, a) EXCEPT !.sub = v] /\ Type(m2, a) = "section"
  BY <1>1 DEF Detail, Type
<1>3. Detail(m, a) \in [name : Nat, sub : Nat]
  BY DEF Shape
<1>4. /\ Detail(m2, a) \in [name : Nat, sub : Nat]
      /\ Detail(m2, a).sub = v /\ Detail(m2, a).name = Detail(m, a).name
  BY <1>2, <1>3
<1>5. Detail(m, a).name \in NodeBlocks(m, a) \ {m[a].detail}
  BY DEF NodeBlocks, Shape
<1>6. Detail(m2, a).name \in DOMAIN m2 /\ m2[Detail(m2, a).name] = m[Detail(m, a).name]
  BY <1>4, <1>5
<1>7. NodeBlocks(m2, a) = NodeBlocks(m, a)
  BY <1>1, <1>2, <1>4 DEF NodeBlocks
<1>8. Words(m2, a) = Words(m, a)
  BY <1>2, <1>4, <1>6 DEF Words
<1>9. Shape(m2, a)
  BY <1>1, <1>2, <1>4, <1>5, <1>6 DEF Shape
<1>. QED  BY <1>1, <1>2, <1>4, <1>7, <1>8, <1>9

\* The blocks of node a are its own: no root and no block of the nodes N0, and every live block
\* is a root, a block of N0 or one of them.
Own(m, b, N, N0, S, R, a) ==
  /\ NodeBlocks(m, a) \cap (R \cup Covered(m, N0)) = {}
  /\ \A y : y \in DOMAIN m <=> y \in R \cup Covered(m, N0) \cup NodeBlocks(m, a)
  /\ Shape(m, a) /\ a \in Nat /\ (a \in S <=> Type(m, a) = "section") /\ S \subseteq N
  /\ b \in Nat /\ DOMAIN m \subseteq 1..b /\ NodeBlocks(m, a) \subseteq DOMAIN m /\ a \in NodeBlocks(m, a)
  /\ R \cap Covered(m, N0) = {}

\* A node's blocks are its own.
LEMMA OwnBlocks ==
  ASSUME NEW m, NEW b, NEW N, NEW S, NEW R, Body(m, b, N, S, R), NEW a \in N,
         NEW N0, N0 = N \ {a}
  PROVE  Own(m, b, N, N0, S, R, a)
<1>1. Covered(m, N) = Covered(m, N0) \cup NodeBlocks(m, a)
  BY DEF Covered
<1>2. Covered(m, N0) \cap NodeBlocks(m, a) = {} /\ R \cap NodeBlocks(m, a) = {} /\ R \cap Covered(m, N0) = {}
  BY DEF Body, Apart, Covered
<1>3. Shape(m, a) /\ a \in Nat /\ (a \in S <=> Type(m, a) = "section") /\ S \subseteq N
  BY DEF Body, Sorts
<1>4. b \in Nat /\ DOMAIN m \subseteq 1..b /\ DOMAIN m = R \cup Covered(m, N)
  BY DEF Body, Extent
<1>5. NodeBlocks(m, a) \subseteq DOMAIN m /\ a \in NodeBlocks(m, a)
  BY <1>3, BlocksLive
<1>. QED  BY <1>1, <1>2, <1>3, <1>4, <1>5 DEF Own

\* Writing the next of a node changes that node's next only.
LEMMA SetNext ==
  ASSUME NEW m, NEW b, NEW N, NEW S, NEW R, Body(m, b, N, S, R), NEW x \in N, NEW v \in Nat,
         NEW N0, N0 = N \ {x},
         NEW m2, DOMAIN m2 = DOMAIN m, m2[x] = [m[x] EXCEPT !.next = v], \A y \in DOMAIN m \ {x} : m2[y] = m[y]
  PROVE  /\ Body(m2, b, N, S, R) /\ Same(m, m2, N0)
         /\ m2[x].next = v /\ NodeBlocks(m2, x) = NodeBlocks(m, x) /\ Type(m2, x) = Type(m, x)
         /\ Type(m, x) # "blank" => Detail(m2, x) = Detail(m, x)
         /\ DOMAIN m2 = DOMAIN m /\ \A r \in R : m2[r] = m[r]
<1>1. /\ NodeBlocks(m, x) \cap (R \cup Covered(m, N0)) = {}
      /\ \A y : y \in DOMAIN m <=> y \in R \cup Covered(m, N0) \cup NodeBlocks(m, x)
      /\ Shape(m, x) /\ x \in Nat /\ (x \in S <=> Type(m, x) = "section") /\ S \subseteq N
      /\ b \in Nat /\ DOMAIN m \subseteq 1..b /\ NodeBlocks(m, x) \subseteq DOMAIN m /\ x \in NodeBlocks(m, x)
  <2>1. Own(m, b, N, N0, S, R, x)
    BY OwnBlocks
  <2>. QED  BY <2>1 DEF Own
<1>2. /\ DOMAIN m2 = DOMAIN m /\ m2[x] = [m[x] EXCEPT !.next = v]
      /\ \A y \in DOMAIN m \ {x} : m2[y] = m[y]
  OBVIOUS
<1>3. \A y \in NodeBlocks(m, x) \ {x} : y \in DOMAIN m2 /\ m2[y] = m[y]
  BY <1>1, <1>2
<1>4. /\ Shape(m2, x) /\ NodeBlocks(m2, x) = NodeBlocks(m, x) /\ m2[x].next = v
      /\ Type(m2, x) = Type(m, x)
      /\ Type(m, x) # "blank" => Detail(m2, x) = Detail(m, x)
  <2>. x \in DOMAIN m2
    BY <1>1, <1>2
  <2>. QED  BY <1>1, <1>2, <1>3, NodeNext
<1>5. \A y \in Covered(m, N0) : y \in DOMAIN m2 /\ m2[y] = m[y]
  BY <1>1, <1>2
<1>6. \A r \in R : m2[r] = m[r]
  BY <1>1, <1>2
<1>7. N = N0 \cup {x}
  OBVIOUS
<1>8. Body(m2, b, N, S, R)
  <2>1. N0 \subseteq N /\ x \in Nat /\ x \notin N0 /\ N = N0 \cup {x} /\ S \subseteq N
    BY <1>1
  <2>2. /\ NodeBlocks(m2, x) \cap (R \cup Covered(m, N0)) = {}
        /\ \A y : y \in DOMAIN m2 <=> y \in R \cup Covered(m, N0) \cup NodeBlocks(m2, x)
        /\ DOMAIN m2 \subseteq 1..b
        /\ (x \in S <=> Type(m2, x) = "section")
    BY <1>1, <1>2, <1>4
  <2>3. Shape(m2, x) /\ b \in Nat
    BY <1>1, <1>4
  <2>. QED  BY <1>5, <2>1, <2>2, <2>3, Replace
<1>9. Same(m, m2, N0)
  <2>. N0 \subseteq N
    OBVIOUS
  <2>. QED  BY <1>5, SameNodes
<1>. QED  BY <1>2, <1>4, <1>6, <1>7, <1>8, <1>9

\* Writing the sub of a section changes that section's sub only.
LEMMA SetSub ==
  ASSUME NEW m, NEW b, NEW N, NEW S, NEW R, Body(m, b, N, S, R), NEW x \in S, NEW v \in Nat,
         NEW N0, N0 = N \ {x},
         NEW m2, DOMAIN m2 = DOMAIN m, m2[m[x].detail] = [Detail(m, x) EXCEPT !.sub = v],
         \A y \in DOMAIN m \ {m[x].detail} : m2[y] = m[y]
  PROVE  /\ Body(m2, b, N, S, R) /\ Same(m, m2, N0)
         /\ m2[x] = m[x] /\ NodeBlocks(m2, x) = NodeBlocks(m, x) /\ Type(m2, x) = Type(m, x)
         /\ Detail(m2, x).sub = v /\ Detail(m2, x).name = Detail(m, x).name
         /\ DOMAIN m2 = DOMAIN m /\ \A r \in R : m2[r] = m[r]
<1>0. x \in N /\ Type(m, x) = "section"
  BY DEF Body, Sorts
<1>1. /\ NodeBlocks(m, x) \cap (R \cup Covered(m, N0)) = {}
      /\ \A y : y \in DOMAIN m <=> y \in R \cup Covered(m, N0) \cup NodeBlocks(m, x)
      /\ Shape(m, x) /\ x \in Nat /\ (x \in S <=> Type(m, x) = "section") /\ S \subseteq N
      /\ b \in Nat /\ DOMAIN m \subseteq 1..b /\ NodeBlocks(m, x) \subseteq DOMAIN m /\ x \in NodeBlocks(m, x)
  <2>1. Own(m, b, N, N0, S, R, x)
    BY <1>0, OwnBlocks
  <2>. QED  BY <2>1 DEF Own
<1>. DEFINE d == m[x].detail
<1>2. d \in NodeBlocks(m, x)
  BY <1>0 DEF NodeBlocks
<1>. HIDE DEF d
<1>3. /\ DOMAIN m2 = DOMAIN m /\ m2[d] = [m[d] EXCEPT !.sub = v]
      /\ \A y \in DOMAIN m \ {d} : m2[y] = m[y]
  BY DEF d, Detail
<1>4. \A y \in NodeBlocks(m, x) \ {d} : y \in DOMAIN m2 /\ m2[y] = m[y]
  BY <1>1, <1>3
<1>5. /\ Shape(m2, x) /\ NodeBlocks(m2, x) = NodeBlocks(m, x) /\ m2[x] = m[x] /\ Type(m2, x) = "section"
      /\ Detail(m2, x).sub = v /\ Detail(m2, x).name = Detail(m, x).name
  <2>1. m[x].detail \in DOMAIN m2 /\ m2[m[x].detail] = [Detail(m, x) EXCEPT !.sub = v]
    BY <1>1, <1>2, <1>3 DEF d, Detail
  <2>2. \A y \in NodeBlocks(m, x) \ {m[x].detail} : y \in DOMAIN m2 /\ m2[y] = m[y]
    BY <1>4 DEF d
  <2>. QED  BY <1>0, <1>1, <2>1, <2>2, NodeSub
<1>6. \A y \in Covered(m, N0) : y \in DOMAIN m2 /\ m2[y] = m[y]
  BY <1>1, <1>2, <1>3
<1>7. \A r \in R : m2[r] = m[r]
  BY <1>1, <1>2, <1>3
<1>8. N = N0 \cup {x}
  BY <1>0
<1>9. Body(m2, b, N, S, R)
  <2>1. N0 \subseteq N /\ x \in Nat /\ x \notin N0 /\ N = N0 \cup {x} /\ S \subseteq N
    BY <1>1, <1>8
  <2>2. /\ NodeBlocks(m2, x) \cap (R \cup Covered(m, N0)) = {}
        /\ \A y : y \in DOMAIN m2 <=> y \in R \cup Covered(m, N0) \cup NodeBlocks(m2, x)
        /\ DOMAIN m2 \subseteq 1..b
        /\ (x \in S <=> Type(m2, x) = "section")
    BY <1>0, <1>1, <1>3, <1>5
  <2>3. Shape(m2, x) /\ b \in Nat
    BY <1>1, <1>5
  <2>. QED  BY <1>6, <2>1, <2>2, <2>3, Replace
<1>10. Same(m, m2, N0)
  <2>. N0 \subseteq N
    OBVIOUS
  <2>. QED  BY <1>6, SameNodes
<1>. QED  BY <1>0, <1>3, <1>5, <1>7, <1>8, <1>9, <1>10

-----------------------------------------------------------------------------
\* The setters.

\* What a setter leaves alone: the lists, what is an item, and the names of sections
\* other than a.
Kept(m, m2, N, S, a) ==
  /\ \A c \in N : m2[c].next = m[c].next /\ (Type(m2, c) = "item" <=> Type(m, c) = "item")
  /\ \A s \in S : Detail(m2, s).sub = Detail(m, s).sub /\ (s # a => Detail(m2, s).name = Detail(m, s).name)

\* A new block b + 1 takes the place of an old one of node a.
LEMMA Restored ==
  ASSUME NEW m, NEW b, NEW N, NEW S, NEW R, Sound(m, b, N, S, R), NEW a \in N,
         NEW old, old \in NodeBlocks(m, a) \/ old = NULL,
         NEW m2, Shape(m2, a), a \in S <=> Type(m2, a) = "section", m2[a].next = m[a].next,
         Type(m2, a) = "item" <=> Type(m, a) = "item",
         a \in S => Detail(m2, a).sub = Detail(m, a).sub,
         \A y : y \in DOMAIN m2 <=> (y \in DOMAIN m /\ y # old) \/ y = b + 1,
         \A y : y \in NodeBlocks(m2, a) <=> (y \in NodeBlocks(m, a) /\ y # old) \/ y = b + 1,
         \A y \in DOMAIN m : y \in NodeBlocks(m, a) \/ m2[y] = m[y]
  PROVE  Sound(m2, b + 1, N, S, R) /\ Kept(m, m2, N, S, a) /\ \A x \in R : m2[x] = m[x]
<1>. DEFINE N0 == N \ {a}
            b2 == b + 1
<1>1. N0 = N \ {a} /\ N0 \subseteq N /\ a \notin N0 /\ N = N0 \cup {a}
  OBVIOUS
<1>2. Body(m, b, N, S, R) /\ Links(m, N, S)
  BY DEF Sound
<1>. HIDE DEF N0
<1>3. /\ NodeBlocks(m, a) \cap (R \cup Covered(m, N0)) = {}
      /\ \A y : y \in DOMAIN m <=> y \in R \cup Covered(m, N0) \cup NodeBlocks(m, a)
      /\ Shape(m, a) /\ a \in Nat /\ S \subseteq N /\ b \in Nat /\ DOMAIN m \subseteq 1..b
  <2>1. Own(m, b, N, N0, S, R, a)
    BY <1>1, <1>2, OwnBlocks
  <2>. QED  BY <2>1 DEF Own
<1>4. b2 \in Nat /\ b2 \notin DOMAIN m /\ DOMAIN m2 \subseteq 1..b2 /\ NULL \notin DOMAIN m
  <2>1. NULL \notin 1..b /\ b + 1 \notin 1..b /\ b + 1 \in 1..b + 1 /\ 1..b \subseteq 1..b + 1
    BY <1>3 DEF NULL
  <2>. QED  BY <2>1, <1>3
<1>. HIDE DEF b2
<1>5. /\ b2 = b + 1
      /\ \A y : y \in DOMAIN m2 <=> (y \in DOMAIN m /\ y # old) \/ y = b2
      /\ \A y : y \in NodeBlocks(m2, a) <=> (y \in NodeBlocks(m, a) /\ y # old) \/ y = b2
  BY DEF b2
<1>6. \A x \in Covered(m, N0) \cup R : x \in DOMAIN m2 /\ m2[x] = m[x]
  <2>. SUFFICES ASSUME NEW x \in Covered(m, N0) \cup R PROVE x \in DOMAIN m2 /\ m2[x] = m[x]
    OBVIOUS
  <2>1. x \in DOMAIN m /\ x \notin NodeBlocks(m, a)
    BY <1>3
  <2>2. x # old
    BY <2>1, <1>4
  <2>. QED  BY <2>1, <2>2, <1>5
<1>7. NodeBlocks(m2, a) \cap (R \cup Covered(m, N0)) = {}
  BY <1>3, <1>4, <1>5
<1>8. \A y : y \in DOMAIN m2 <=> y \in R \cup Covered(m, N0) \cup NodeBlocks(m2, a)
  <2>. SUFFICES ASSUME NEW y PROVE y \in DOMAIN m2 <=> y \in R \cup Covered(m, N0) \cup NodeBlocks(m2, a)
    OBVIOUS
  <2>1. CASE y \in R \cup Covered(m, N0)
    BY <2>1, <1>6
  <2>2. CASE y \notin R \cup Covered(m, N0)
    BY <2>2, <1>3, <1>5
  <2>. QED  BY <2>1, <2>2
<1>9. Body(m2, b2, N, S, R)
  BY <1>1, <1>2, <1>3, <1>4, <1>6, <1>7, <1>8, Replace, ZenonT(40)
<1>10. Same(m, m2, N0)
  BY <1>1, <1>2, <1>6, SameNodes
<1>11. \A c \in N : m2[c].next = m[c].next /\ (Type(m2, c) = "item" <=> Type(m, c) = "item")
  BY <1>1, <1>10 DEF Same
<1>12. Kept(m, m2, N, S, a)
  <2>1. \A s \in S : s # a => Detail(m2, s) = Detail(m, s)
    <3>. SUFFICES ASSUME NEW s \in S, s # a PROVE Detail(m2, s) = Detail(m, s)
      OBVIOUS
    <3>1. s \in N0 /\ Type(m, s) = "section"
      BY <1>1, <1>2 DEF Body, Sorts
    <3>2. Type(m, s) # "blank"
      BY <3>1
    <3>. QED  BY <3>1, <3>2, <1>10 DEF Same
  <2>. QED  BY <2>1, <1>11 DEF Kept
<1>13. Links(m2, N, S)
  BY <1>2, <1>3, <1>11 DEF Links
<1>14. Sound(m2, b2, N, S, R)
  BY <1>9, <1>13 DEF Sound
<1>. QED  BY <1>5, <1>6, <1>12, <1>14

\* One node after its comment, name, key or value was replaced by the word at p.
LEMMA NodeComment ==
  ASSUME NEW m, NEW m2, NEW a, Shape(m, a), NEW p \in Nat, p # a, a \in DOMAIN m2, p \in DOMAIN m2,
         m2[p] \in Word, m2[a] = [type |-> "comment", detail |-> p, next |-> m[a].next]
  PROVE  /\ Shape(m2, a) /\ Type(m2, a) = "comment" /\ m2[a].next = m[a].next
         /\ NodeBlocks(m2, a) = {a, p}
<1>1. /\ m2[a] \in [type : {"blank", "comment", "section", "item"}, detail : Nat, next : Nat]
      /\ m2[a].type = "comment" /\ m2[a].detail = p /\ m2[a].next = m[a].next
  BY DEF Shape
<1>. QED  BY <1>1 DEF Shape, Type, Detail, NodeBlocks, ItemBlocks

\* A section that has got another name is a section still.
LEMMA NodeName ==
  ASSUME NEW m, NEW m2, NEW a, Shape(m, a), Type(m, a) = "section", NEW p \in Nat, p # a, p # m[a].detail,
         a \in DOMAIN m2, p \in DOMAIN m2, m[a].detail \in DOMAIN m2,
         m2[p] \in Word, m2[a] = m[a], m2[m[a].detail] = [Detail(m, a) EXCEPT !.name = p]
  PROVE  /\ Shape(m2, a) /\ Type(m2, a) = "section" /\ Detail(m2, a).sub = Detail(m, a).sub
         /\ NodeBlocks(m2, a) = {a, m[a].detail, p}
<1>1. /\ Detail(m2, a) \in [name : Nat, sub : Nat] /\ Detail(m2, a).name = p /\ Detail(m2, a).sub = Detail(m, a).sub
  BY DEF Shape, Detail
<1>2. Type(m2, a) = "section" /\ m[a].detail # a /\ m[a].detail \in Nat
  BY DEF Type, Shape
<1>. QED  BY <1>1, <1>2 DEF Shape, NodeBlocks, ItemBlocks

\* An item that has got another key is an item still.
LEMMA NodeKey ==
  ASSUME NEW m, NEW m2, NEW a, Shape(m, a), Type(m, a) = "item", NEW p \in Nat, p # a, p # m[a].detail,
         p # Detail(m, a).val, a \in DOMAIN m2, p \in DOMAIN m2, m[a].detail \in DOMAIN m2,
         Detail(m, a).val \in DOMAIN m2, m2[Detail(m, a).val] = m[Detail(m, a).val],
         m2[p] \in Word, m2[a] = m[a], m2[m[a].detail] = [Detail(m, a) EXCEPT !.key = p]
  PROVE  /\ Shape(m2, a) /\ Type(m2, a) = "item" /\ NodeBlocks(m2, a) = {a, m[a].detail, p, Detail(m, a).val}
<1>1. /\ Detail(m2, a) \in [val : Nat, key : Nat] /\ Detail(m2, a).key = p /\ Detail(m2, a).val = Detail(m, a).val
  BY DEF Shape, Detail
<1>2. Type(m2, a) = "item" /\ m[a].detail # a /\ m[a].detail \in Nat
  BY DEF Type, Shape
<1>. QED  BY <1>1, <1>2 DEF Shape, NodeBlocks, ItemBlocks

\* An item that has got another value is an item still.
LEMMA NodeVal ==
  ASSUME NEW m, NEW m2, NEW a, Shape(m, a), Type(m, a) = "item", NEW p \in Nat, p # a, p # m[a].detail,
         p # Detail(m, a).key, a \in DOMAIN m2, p \in DOMAIN m2, m[a].detail \in DOMAIN m2,
         Detail(m, a).key \in DOMAIN m2, m2[Detail(m, a).key] = m[Detail(m, a).key],
         m2[p] \in Word, m2[a] = m[a], m2[m[a].detail] = [Detail(m, a) EXCEPT !.val = p]
  PROVE  /\ Shape(m2, a) /\ Type(m2, a) = "item" /\ NodeBlocks(m2, a) = {a, m[a].detail, Detail(m, a).key, p}
<1>1. /\ Detail(m2, a) \in [val : Nat, key : Nat] /\ Detail(m2, a).val = p /\ Detail(m2, a).key = Detail(m, a).key
  BY DEF Shape, Detail
<1>2. Type(m2, a) = "item" /\ m[a].detail # a /\ m[a].detail \in Nat
  BY DEF Type, Shape
<1>. QED  BY <1>1, <1>2 DEF Shape, NodeBlocks, ItemBlocks

\* The record that callbacks take and return.
IsNow(n) == n = [mem |-> n.mem, brk |-> n.brk, text |-> n.text, buf |-> n.buf, err |-> n.err]
\* What setters and the callback of a traversal return.
Errors == {"OK", "MEM_ALLOC", "NOT_SECTION_NODE", "STRING_TOO_LONG", "BAD_FORMAT", "NOT_ITEM_NODE",
           "COMMENT_NOT_ALLOWED", "REPEATED_SECTION", "REPEATED_ITEM", "IO"}
\* What a setter leaves: a heap as sound as before, with the same lists.
Edited(n, r, N, S, R, a) ==
  /\ IsNow(r) /\ r.text = n.text /\ r.buf = n.buf /\ r.err \in Errors
  /\ Sound(r.mem, r.brk, N, S, R) /\ Kept(n.mem, r.mem, N, S, a) /\ \A x \in R : r.mem[x] = n.mem[x]

\* A setter that fails, or has nothing to do, changes nothing.
LEMMA ErrorKeeps ==
  ASSUME NEW n, IsNow(n), NEW N, NEW S, NEW R, Sound(n.mem, n.brk, N, S, R), NEW a, NEW e \in Errors,
         NEW r, r \in Error(n, e)
  PROVE  Edited(n, r, N, S, R, a)
<1>1. r = [mem |-> n.mem, brk |-> n.brk, text |-> n.text, buf |-> n.buf, err |-> e]
  BY DEF IsNow, Error
<1>2. r.mem = n.mem /\ r.brk = n.brk /\ r.text = n.text /\ r.buf = n.buf /\ r.err = e
  BY <1>1
<1>3. IsNow(r)
  BY <1>1, <1>2 DEF IsNow
<1>4. Kept(n.mem, r.mem, N, S, a)
  BY <1>2 DEF Kept
<1>. QED  BY <1>2, <1>3, <1>4 DEF Edited

\* A setter that fails has changed nothing.
LEMMA NothingKeeps ==
  ASSUME NEW n, IsNow(n), NEW N, NEW S, NEW R, Sound(n.mem, n.brk, N, S, R), NEW a, n.err \in Errors
  PROVE  Edited(n, n, N, S, R, a)
<1>1. Kept(n.mem, n.mem, N, S, a)
  BY DEF Kept
<1>. QED  BY <1>1 DEF Edited

\* The heap after Stored, block by block: c is the block that points to the word.
Swapped(m, b, word, c, v, old) == Freed([Allocated(m, b, <<word>>) EXCEPT ![c] = v], {old})

\* The heap after a setter has replaced a string by another one.
LEMMA SwappedIs ==
  ASSUME NEW m, NEW b \in Nat, DOMAIN m \subseteq 1..b, NEW word, NEW c \in DOMAIN m, NEW v, NEW old,
         NEW m3, m3 = Swapped(m, b, word, c, v, old)
  PROVE  /\ \A y : y \in DOMAIN m3 <=> (y \in DOMAIN m \/ y = b + 1) /\ y # old
         /\ c # old => m3[c] = v
         /\ b + 1 # old => m3[b + 1] = word
         /\ \A y \in DOMAIN m : y # c /\ y # old => m3[y] = m[y]
<1>. DEFINE m1 == Allocated(m, b, <<word>>)
            m2 == [m1 EXCEPT ![c] = v]
<1>1. Len(<<word>>) = 1 /\ <<word>>[1] = word /\ b + 1..b + 1 = {b + 1} /\ b + 1 - b = 1
  OBVIOUS
<1>2. \A y \in DOMAIN m : y # b + 1
  <2>. TAKE y \in DOMAIN m
  <2>1. y \in 1..b
    OBVIOUS
  <2>. QED  BY <2>1
<1>3. /\ \A y : y \in DOMAIN m1 <=> y \in DOMAIN m \/ y = b + 1
      /\ m1[b + 1] = word /\ \A y \in DOMAIN m : m1[y] = m[y]
  BY <1>1, <1>2 DEF Allocated
<1>. HIDE DEF m1
<1>4. /\ DOMAIN m2 = DOMAIN m1 /\ m2[c] = v /\ \A y \in DOMAIN m1 : y # c => m2[y] = m1[y]
  BY <1>3
<1>5. DOMAIN m3 = DOMAIN m2 \ {old} /\ \A y \in DOMAIN m3 : m3[y] = m2[y]
  BY DEF Freed, Swapped, m1, m2
<1>. HIDE DEF m2
<1>. QED  BY <1>2, <1>3, <1>4, <1>5

\* A string is replaced without a loss: the new block is in the place of the old one.
LEMMA StoredKeeps ==
  ASSUME NEW n, IsNow(n), n.err \in Errors, NEW N, NEW S, NEW R, Sound(n.mem, n.brk, N, S, R), NEW a \in N, NEW field,
         \/ field = "comment" /\ Type(n.mem, a) \in {"comment", "blank"}
         \/ field = "name" /\ Type(n.mem, a) = "section"
         \/ field \in {"key", "val"} /\ Type(n.mem, a) = "item",
         NEW word \in Word, NEW r, r \in Stored(n, a, field, word)
  PROVE  Edited(n, r, N, S, R, a)
<1>. DEFINE m == n.mem
            b == n.brk
            p == b + 1
            old == IF field = "comment" THEN m[a].detail ELSE Detail(m, a)[field]
            m1 == Allocated(m, b, <<word>>)
            m2 == Put(m1, a, field, p)
            m3 == Freed(m2, {old})
<1>1. CASE r \in Error(n, "MEM_ALLOC")
  <2>. "MEM_ALLOC" \in Errors
    BY DEF Errors
  <2>. QED  BY <1>1, ErrorKeeps
<1>2. CASE r = [n EXCEPT !.mem = m3, !.brk = p]
  <2>1. r = [mem |-> m3, brk |-> p, text |-> n.text, buf |-> n.buf, err |-> n.err]
    BY <1>2 DEF IsNow
  <2>2. r.mem = m3 /\ r.brk = p /\ r.text = n.text /\ r.buf = n.buf /\ r.err = n.err
    BY <2>1
  <2>3. IsNow(r)
    BY <2>1, <2>2 DEF IsNow
  <2>4. Body(m, b, N, S, R)
    BY DEF Sound
  <2>5. /\ Shape(m, a) /\ a \in Nat /\ b \in Nat /\ DOMAIN m \subseteq 1..b
        /\ NodeBlocks(m, a) \subseteq DOMAIN m /\ a \in NodeBlocks(m, a)
        /\ (a \in S <=> Type(m, a) = "section")
    <3>. DEFINE N0 == N \ {a}
    <3>. N0 = N \ {a}
      OBVIOUS
    <3>. HIDE DEF N0
    <3>1. Own(m, b, N, N0, S, R, a)
      BY <2>4, OwnBlocks
    <3>. QED  BY <3>1 DEF Own
  <2>6. NULL \notin DOMAIN m /\ a # NULL
    BY <2>4, <2>5, RootsAreApart
  <2>7. p \in Nat /\ p \notin DOMAIN m
    <3>. b + 1 \in Nat /\ b + 1 \notin 1..b
      BY <2>5
    <3>. QED  BY <2>5
  <2>. HIDE DEF p
  <2>8. Sound(m3, p, N, S, R) /\ Kept(m, m3, N, S, a) /\ \A x \in R : m3[x] = m[x]
    <3>0. p = b + 1 /\ p # a /\ p # NULL /\ \A y \in DOMAIN m : m1[y] = m[y]
      <4>1. b + 1 # 0
        BY <2>5
      <4>. QED  BY <4>1, <2>5, <2>7 DEF p, NULL, Allocated
    <3>. DEFINE d == m[a].detail
    <3>1. CASE field = "comment"
      <4>. DEFINE v == [m[a] EXCEPT !.type = "comment", !.detail = p]
      <4>0. Type(m, a) \in {"comment", "blank"}
        BY <3>1
      <4>1. m2 = [m1 EXCEPT ![a] = v] /\ old = d
        BY <3>0, <3>1, <2>5 DEF Put
      <4>2. /\ Type(m, a) = "blank" => d = NULL /\ NodeBlocks(m, a) = {a}
            /\ Type(m, a) = "comment" => d \in DOMAIN m \ {a} /\ NodeBlocks(m, a) = {a, d}
        BY <2>5 DEF Shape, NodeBlocks, ItemBlocks
      <4>3. old # a /\ old # p /\ (old \in NodeBlocks(m, a) \/ old = NULL)
        BY <4>0, <4>1, <4>2, <3>0, <2>6, <2>7
      <4>11. m3 = Swapped(m, b, word, a, v, old)
        BY <4>1 DEF Swapped
      <4>. HIDE DEF m1, m2, m3, old, v
      <4>4. /\ \A y : y \in DOMAIN m3 <=> (y \in DOMAIN m \/ y = p) /\ y # old
            /\ m3[a] = v /\ m3[p] = word
            /\ \A y \in DOMAIN m : y # a /\ y # old => m3[y] = m[y]
        BY <2>5, <3>0, <4>1, <4>3, <4>11, SwappedIs
      <4>5. m3[a] = [type |-> "comment", detail |-> p, next |-> m[a].next] /\ a \in DOMAIN m3 /\ p \in DOMAIN m3
        BY <2>5, <4>3, <4>4 DEF v, Shape
      <4>6. Shape(m3, a) /\ Type(m3, a) = "comment" /\ m3[a].next = m[a].next /\ NodeBlocks(m3, a) = {a, p}
        BY <2>5, <2>7, <3>0, <4>4, <4>5, NodeComment
      <4>7. a \notin S /\ Type(m3, a) # "section" /\ (Type(m3, a) = "item" <=> Type(m, a) = "item")
        BY <4>0, <4>6, <2>5
      <4>8. \A y : y \in DOMAIN m3 <=> (y \in DOMAIN m /\ y # old) \/ y = b + 1
        BY <4>3, <4>4, <3>0
      <4>9. \A y : y \in NodeBlocks(m3, a) <=> (y \in NodeBlocks(m, a) /\ y # old) \/ y = b + 1
        BY <4>0, <4>1, <4>2, <4>3, <4>6, <3>0, <2>6
      <4>10. \A y \in DOMAIN m : y \in NodeBlocks(m, a) \/ m3[y] = m[y]
        BY <4>3, <4>4, <2>5, <2>6
      <4>. QED  BY <3>0, <4>3, <4>6, <4>7, <4>8, <4>9, <4>10, Restored
    <3>2. CASE field = "name"
      <4>. DEFINE v == [m[d] EXCEPT !.name = p]
      <4>0. Type(m, a) = "section"
        BY <3>2
      <4>1. d \in DOMAIN m \ {a} /\ NodeBlocks(m, a) = {a, d, Detail(m, a).name}
            /\ Detail(m, a).name \in DOMAIN m \ {a, d}
        BY <2>5, <4>0 DEF Shape, NodeBlocks, ItemBlocks
      <4>2. m2 = [m1 EXCEPT ![d] = v] /\ old = Detail(m, a).name
        BY <3>0, <3>2, <2>5, <4>1 DEF Put
      <4>3. old # a /\ old # p /\ old # d /\ p # d /\ old \in NodeBlocks(m, a)
        BY <4>1, <4>2, <2>7
      <4>11. m3 = Swapped(m, b, word, d, v, old)
        BY <4>2 DEF Swapped
      <4>. HIDE DEF m1, m2, m3, old, v
      <4>4. /\ \A y : y \in DOMAIN m3 <=> (y \in DOMAIN m \/ y = p) /\ y # old
            /\ m3[d] = v /\ m3[p] = word
            /\ \A y \in DOMAIN m : y # d /\ y # old => m3[y] = m[y]
        <5>1. b \in Nat /\ DOMAIN m \subseteq 1..b /\ d \in DOMAIN m
          BY <2>5, <4>1
        <5>2. /\ \A y : y \in DOMAIN m3 <=> (y \in DOMAIN m \/ y = b + 1) /\ y # old
              /\ d # old => m3[d] = v
              /\ b + 1 # old => m3[b + 1] = word
              /\ \A y \in DOMAIN m : y # d /\ y # old => m3[y] = m[y]
          BY <5>1, <4>11, SwappedIs
        <5>. QED  BY <5>2, <3>0, <4>3
      <4>5. /\ m3[d] = [Detail(m, a) EXCEPT !.name = p] /\ m3[a] = m[a]
            /\ a \in DOMAIN m3 /\ p \in DOMAIN m3 /\ d \in DOMAIN m3
        BY <2>5, <4>1, <4>3, <4>4 DEF v, Detail
      <4>6. /\ Shape(m3, a) /\ Type(m3, a) = "section" /\ Detail(m3, a).sub = Detail(m, a).sub
            /\ NodeBlocks(m3, a) = {a, d, p} /\ m3[a].next = m[a].next
        BY <2>5, <2>7, <3>0, <4>0, <4>3, <4>4, <4>5, NodeName
      <4>7. a \in S /\ Type(m3, a) = "section" /\ (Type(m3, a) = "item" <=> Type(m, a) = "item")
        BY <4>0, <4>6, <2>5
      <4>8. \A y : y \in DOMAIN m3 <=> (y \in DOMAIN m /\ y # old) \/ y = b + 1
        BY <4>3, <4>4, <3>0
      <4>9. \A y : y \in NodeBlocks(m3, a) <=> (y \in NodeBlocks(m, a) /\ y # old) \/ y = b + 1
        BY <4>1, <4>2, <4>3, <4>6, <3>0
      <4>10. \A y \in DOMAIN m : y \in NodeBlocks(m, a) \/ m3[y] = m[y]
        BY <4>1, <4>2, <4>4
      <4>. QED  BY <3>0, <4>3, <4>6, <4>7, <4>8, <4>9, <4>10, Restored
    <3>3. CASE field = "key"
      <4>. DEFINE v == [m[d] EXCEPT !.key = p]
                  e == Detail(m, a).val
      <4>0. Type(m, a) = "item"
        BY <3>3
      <4>1. d \in DOMAIN m \ {a} /\ NodeBlocks(m, a) = {a, d, Detail(m, a).key, e}
            /\ Detail(m, a).key \in DOMAIN m \ {a, d, e} /\ e \in DOMAIN m \ {a, d}
        BY <2>5, <4>0 DEF Shape, NodeBlocks, ItemBlocks
      <4>2. m2 = [m1 EXCEPT ![d] = v] /\ old = Detail(m, a).key
        BY <3>0, <3>3, <2>5, <4>1 DEF Put
      <4>. HIDE DEF e
      <4>3. old # a /\ old # p /\ old # d /\ p # d /\ old # e /\ p # e /\ old \in NodeBlocks(m, a)
        BY <4>1, <4>2, <2>7
      <4>11. m3 = Swapped(m, b, word, d, v, old)
        BY <4>2 DEF Swapped
      <4>. HIDE DEF m1, m2, m3, old, v
      <4>4. /\ \A y : y \in DOMAIN m3 <=> (y \in DOMAIN m \/ y = p) /\ y # old
            /\ m3[d] = v /\ m3[p] = word
            /\ \A y \in DOMAIN m : y # d /\ y # old => m3[y] = m[y]
        BY <2>5, <3>0, <4>1, <4>2, <4>3, <4>11, SwappedIs
      <4>5. /\ m3[d] = [Detail(m, a) EXCEPT !.key = p] /\ m3[a] = m[a] /\ m3[e] = m[e]
            /\ a \in DOMAIN m3 /\ p \in DOMAIN m3 /\ d \in DOMAIN m3 /\ e \in DOMAIN m3
        BY <2>5, <4>1, <4>3, <4>4 DEF v, Detail
      <4>6. Shape(m3, a) /\ Type(m3, a) = "item" /\ NodeBlocks(m3, a) = {a, d, p, e} /\ m3[a].next = m[a].next
        BY <2>5, <2>7, <3>0, <4>0, <4>3, <4>4, <4>5, NodeKey DEF e
      <4>7. a \notin S /\ Type(m3, a) # "section" /\ (Type(m3, a) = "item" <=> Type(m, a) = "item")
        BY <4>0, <4>6, <2>5
      <4>8. \A y : y \in DOMAIN m3 <=> (y \in DOMAIN m /\ y # old) \/ y = b + 1
        BY <4>3, <4>4, <3>0
      <4>9. \A y : y \in NodeBlocks(m3, a) <=> (y \in NodeBlocks(m, a) /\ y # old) \/ y = b + 1
        BY <4>1, <4>2, <4>3, <4>6, <3>0
      <4>10. \A y \in DOMAIN m : y \in NodeBlocks(m, a) \/ m3[y] = m[y]
        BY <4>1, <4>2, <4>4
      <4>. QED  BY <3>0, <4>3, <4>6, <4>7, <4>8, <4>9, <4>10, Restored
    <3>4. CASE field = "val"
      <4>. DEFINE v == [m[d] EXCEPT !.val = p]
                  e == Detail(m, a).key
      <4>0. Type(m, a) = "item"
        BY <3>4
      <4>1. d \in DOMAIN m \ {a} /\ NodeBlocks(m, a) = {a, d, e, Detail(m, a).val}
            /\ Detail(m, a).val \in DOMAIN m \ {a, d, e} /\ e \in DOMAIN m \ {a, d}
        BY <2>5, <4>0 DEF Shape, NodeBlocks, ItemBlocks
      <4>2. m2 = [m1 EXCEPT ![d] = v] /\ old = Detail(m, a).val
        BY <3>0, <3>4, <2>5, <4>1 DEF Put
      <4>. HIDE DEF e
      <4>3. old # a /\ old # p /\ old # d /\ p # d /\ old # e /\ p # e /\ old \in NodeBlocks(m, a)
        BY <4>1, <4>2, <2>7
      <4>11. m3 = Swapped(m, b, word, d, v, old)
        BY <4>2 DEF Swapped
      <4>. HIDE DEF m1, m2, m3, old, v
      <4>4. /\ \A y : y \in DOMAIN m3 <=> (y \in DOMAIN m \/ y = p) /\ y # old
            /\ m3[d] = v /\ m3[p] = word
            /\ \A y \in DOMAIN m : y # d /\ y # old => m3[y] = m[y]
        BY <2>5, <3>0, <4>1, <4>2, <4>3, <4>11, SwappedIs
      <4>5. /\ m3[d] = [Detail(m, a) EXCEPT !.val = p] /\ m3[a] = m[a] /\ m3[e] = m[e]
            /\ a \in DOMAIN m3 /\ p \in DOMAIN m3 /\ d \in DOMAIN m3 /\ e \in DOMAIN m3
        BY <2>5, <4>1, <4>3, <4>4 DEF v, Detail
      <4>6. Shape(m3, a) /\ Type(m3, a) = "item" /\ NodeBlocks(m3, a) = {a, d, e, p} /\ m3[a].next = m[a].next
        BY <2>5, <2>7, <3>0, <4>0, <4>3, <4>4, <4>5, NodeVal DEF e
      <4>7. a \notin S /\ Type(m3, a) # "section" /\ (Type(m3, a) = "item" <=> Type(m, a) = "item")
        BY <4>0, <4>6, <2>5
      <4>8. \A y : y \in DOMAIN m3 <=> (y \in DOMAIN m /\ y # old) \/ y = b + 1
        BY <4>3, <4>4, <3>0
      <4>9. \A y : y \in NodeBlocks(m3, a) <=> (y \in NodeBlocks(m, a) /\ y # old) \/ y = b + 1
        BY <4>1, <4>2, <4>3, <4>6, <3>0
      <4>10. \A y \in DOMAIN m : y \in NodeBlocks(m, a) \/ m3[y] = m[y]
        BY <4>1, <4>2, <4>4
      <4>. QED  BY <3>0, <4>3, <4>6, <4>7, <4>8, <4>9, <4>10, Restored
    <3>. QED  BY <3>1, <3>2, <3>3, <3>4
  <2>. QED  BY <2>2, <2>3, <2>8 DEF Edited
<1>. QED  BY <1>1, <1>2 DEF Stored

-----------------------------------------------------------------------------
\* Words.

\* The least of a set is in it.
LEMMA MinIs ==
  ASSUME NEW T \in SUBSET Nat, T # {}
  PROVE  Min(T) \in T /\ \A k \in T : Min(T) <= k
<1>1. \E n \in T : \A k \in T : n <= k
  BY Least
<1>. QED  BY <1>1 DEF Min

\* So is the greatest, if there is a bound.
LEMMA MaxIs ==
  ASSUME NEW T \in SUBSET Nat, T # {}, NEW b \in Nat, \A k \in T : k <= b
  PROVE  Max(T) \in T /\ \A k \in T : k <= Max(T)
<1>1. \E n \in T : \A k \in T : k <= n
  BY Greatest
<1>2. \E n \in T : \A k \in T : n >= k
  <2>1. PICK n \in T : \A k \in T : k <= n
    BY <1>1
  <2>2. \A k \in T : n >= k
    BY <2>1
  <2>. QED  BY <2>2
<1>3. Max(T) \in T /\ \A k \in T : Max(T) >= k
  BY <1>2 DEF Max
<1>. QED  BY <1>3

\* A part of a word is a word, and no longer.
LEMMA SubWord ==
  ASSUME NEW s \in Word, NEW k \in Nat, k # 0, NEW n \in Int, n <= Len(s)
  PROVE  SubSeq(s, k, n) \in Word /\ Len(SubSeq(s, k, n)) <= Len(s)
<1>1. Len(s) \in Nat /\ \A i \in 1..Len(s) : s[i] \in Chars
  BY LenProperties, ElementOfSeq DEF Word
<1>2. \A i \in k..n : s[i] \in Chars
  BY <1>1
<1>3. SubSeq(s, k, n) \in Seq(Chars) /\ Len(SubSeq(s, k, n)) = IF k <= n THEN n - k + 1 ELSE 0
  BY <1>2, SubSeqProperties
<1>. QED  BY <1>1, <1>3 DEF Word

\* The empty string.
LEMMA EmptyWord == <<>> \in Word /\ Len(<<>>) = 0
BY DEF Word

\* Strings can be joined.
LEMMA ConcatWords ==
  ASSUME NEW s \in Word, NEW t \in Word
  PROVE  s \o t \in Word
BY ConcatProperties DEF Word

\* A string is a sequence.
LEMMA WordLength ==
  ASSUME NEW s \in Word
  PROVE  Len(s) \in Nat /\ DOMAIN s = 1..Len(s)
BY LenProperties DEF Word

\* What is left after dropping characters at the head is no longer string.
LEMMA DropHeadWord ==
  ASSUME NEW s \in Word, NEW chars
  PROVE  DropHead(s, chars) \in Word /\ Len(DropHead(s, chars)) <= Len(s)
<1>. DEFINE kept == {i \in DOMAIN s : s[i] \notin chars}
<1>1. Len(s) \in Nat /\ kept \subseteq 1..Len(s)
  BY WordLength
<1>2. CASE kept = {}
  BY <1>1, <1>2, EmptyWord DEF DropHead
<1>3. CASE kept # {}
  <2>1. Min(kept) \in kept
    <3>. kept \in SUBSET Nat
      BY <1>1
    <3>. QED  BY <1>3, MinIs
  <2>2. Min(kept) \in Nat /\ Min(kept) # 0 /\ Len(s) \in Int
    BY <2>1, <1>1
  <2>. HIDE DEF kept
  <2>3. SubSeq(s, Min(kept), Len(s)) \in Word /\ Len(SubSeq(s, Min(kept), Len(s))) <= Len(s)
    BY <2>2, <1>1, SubWord
  <2>. QED  BY <2>3, <1>3 DEF DropHead, kept
<1>. QED  BY <1>2, <1>3

\* Nor at the tail.
LEMMA DropTailWord ==
  ASSUME NEW s \in Word, NEW chars
  PROVE  DropTail(s, chars) \in Word /\ Len(DropTail(s, chars)) <= Len(s)
<1>. DEFINE kept == {i \in DOMAIN s : s[i] \notin chars}
<1>1. Len(s) \in Nat /\ kept \subseteq 1..Len(s)
  BY WordLength
<1>2. CASE kept = {}
  BY <1>1, <1>2, EmptyWord DEF DropTail
<1>3. CASE kept # {}
  <2>1. Max(kept) \in kept
    <3>. kept \in SUBSET Nat /\ \A k \in kept : k <= Len(s)
      BY <1>1
    <3>. QED  BY <1>1, <1>3, MaxIs
  <2>2. Max(kept) \in Int /\ Max(kept) <= Len(s) /\ 1 \in Nat /\ 1 # 0
    BY <2>1, <1>1
  <2>. HIDE DEF kept
  <2>3. SubSeq(s, 1, Max(kept)) \in Word /\ Len(SubSeq(s, 1, Max(kept))) <= Len(s)
    BY <2>2, <1>1, SubWord
  <2>. QED  BY <2>3, <1>3 DEF DropTail, kept
<1>. QED  BY <1>2, <1>3

\* Nor at both.
LEMMA TrimWord ==
  ASSUME NEW s \in Word, NEW chars
  PROVE  Trim(s, chars) \in Word /\ Len(Trim(s, chars)) <= Len(s)
<1>1. DropHead(s, chars) \in Word /\ Len(DropHead(s, chars)) <= Len(s)
  BY DropHeadWord
<1>2. Trim(s, chars) \in Word /\ Len(Trim(s, chars)) <= Len(DropHead(s, chars))
  BY <1>1, DropTailWord DEF Trim
<1>3. Len(s) \in Nat /\ Len(DropHead(s, chars)) \in Nat /\ Len(Trim(s, chars)) \in Nat
  BY <1>1, <1>2, WordLength
<1>. QED  BY <1>1, <1>2, <1>3

\* The texts of the constants are strings.
LEMMA TextWords ==
  ASSUME NEW t \in Texts \cup EditTexts \cup {Suffix}
  PROVE  t \in Word
<1>1. t \in Seq(STRING) /\ STRING \subseteq Chars
  BY IniAssumption DEF IniAssumption, Chars
<1>. QED  BY <1>1, SeqMonotonic DEF Word

-----------------------------------------------------------------------------
\* Each setter.

\* ini_section_rename keeps the document sound.
LEMMA RenameKeeps ==
  ASSUME NEW n, IsNow(n), n.err \in Errors, NEW N, NEW S, NEW R, Sound(n.mem, n.brk, N, S, R), NEW a \in N,
         NEW name \in Word, NEW r, r \in ini_section_rename(n, a, name)
  PROVE  Edited(n, r, N, S, R, a)
<1>. DEFINE word == Trim(name, Space)
<1>1. CASE \E e \in {"NOT_SECTION_NODE", "STRING_TOO_LONG", "BAD_FORMAT"} : r \in Error(n, e)
  <2>. {"NOT_SECTION_NODE", "STRING_TOO_LONG", "BAD_FORMAT"} \subseteq Errors
    BY DEF Errors
  <2>. QED  BY <1>1, ErrorKeeps
<1>2. CASE r = n
  BY <1>2, NothingKeeps
<1>3. CASE Type(n.mem, a) = "section" /\ r \in Stored(n, a, "name", SubSeq(name, 1, Len(word)))
  <2>1. Len(word) \in Nat /\ Len(word) <= Len(name)
    BY TrimWord, WordLength
  <2>2. SubSeq(name, 1, Len(word)) \in Word
    <3>. Len(word) \in Int /\ 1 \in Nat /\ 1 # 0
      BY <2>1
    <3>. HIDE DEF word
    <3>. QED  BY <2>1, SubWord
  <2>. QED  BY <1>3, <2>2, StoredKeeps
<1>. QED  BY <1>1, <1>2, <1>3 DEF ini_section_rename

\* ini_item_set_key keeps the document sound.
LEMMA SetKeyKeeps ==
  ASSUME NEW n, IsNow(n), n.err \in Errors, NEW N, NEW S, NEW R, Sound(n.mem, n.brk, N, S, R), NEW a \in N,
         NEW key \in Word, NEW r, r \in ini_item_set_key(n, a, key)
  PROVE  Edited(n, r, N, S, R, a)
<1>. DEFINE word == Trim(key, Space)
<1>1. CASE \E e \in {"NOT_ITEM_NODE", "STRING_TOO_LONG", "BAD_FORMAT"} : r \in Error(n, e)
  <2>. {"NOT_ITEM_NODE", "STRING_TOO_LONG", "BAD_FORMAT"} \subseteq Errors
    BY DEF Errors
  <2>. QED  BY <1>1, ErrorKeeps
<1>2. CASE r = n
  BY <1>2, NothingKeeps
<1>3. CASE Type(n.mem, a) = "item" /\ r \in Stored(n, a, "key", word)
  <2>1. word \in Word
    BY TrimWord
  <2>. QED  BY <1>3, <2>1, StoredKeeps
<1>. QED  BY <1>1, <1>2, <1>3 DEF ini_item_set_key

\* ini_item_set_value keeps the document sound.
LEMMA SetValueKeeps ==
  ASSUME NEW n, IsNow(n), n.err \in Errors, NEW N, NEW S, NEW R, Sound(n.mem, n.brk, N, S, R), NEW a \in N,
         NEW val \in Word, NEW r, r \in ini_item_set_value(n, a, val)
  PROVE  Edited(n, r, N, S, R, a)
<1>1. CASE \E e \in {"NOT_ITEM_NODE", "STRING_TOO_LONG", "BAD_FORMAT"} : r \in Error(n, e)
  <2>. {"NOT_ITEM_NODE", "STRING_TOO_LONG", "BAD_FORMAT"} \subseteq Errors
    BY DEF Errors
  <2>. QED  BY <1>1, ErrorKeeps
<1>2. CASE r = n
  BY <1>2, NothingKeeps
<1>3. CASE Type(n.mem, a) = "item" /\ r \in Stored(n, a, "val", val)
  BY <1>3, StoredKeeps
<1>. QED  BY <1>1, <1>2, <1>3 DEF ini_item_set_value

\* ini_comment_set keeps the document sound.
LEMMA SetCommentKeeps ==
  ASSUME NEW n, IsNow(n), n.err \in Errors, NEW N, NEW S, NEW R, Sound(n.mem, n.brk, N, S, R), NEW a \in N,
         NEW comment \in Word, NEW r, r \in ini_comment_set(n, a, comment)
  PROVE  Edited(n, r, N, S, R, a)
<1>. DEFINE word == Trim(comment, Space)
<1>1. CASE \E e \in {"COMMENT_NOT_ALLOWED", "STRING_TOO_LONG", "BAD_FORMAT"} : r \in Error(n, e)
  <2>. {"COMMENT_NOT_ALLOWED", "STRING_TOO_LONG", "BAD_FORMAT"} \subseteq Errors
    BY DEF Errors
  <2>. QED  BY <1>1, ErrorKeeps
<1>2. CASE r = n
  BY <1>2, NothingKeeps
<1>3. CASE Type(n.mem, a) \in {"comment", "blank"} /\ r \in Stored(n, a, "comment", word)
  <2>1. word \in Word
    BY TrimWord
  <2>. QED  BY <1>3, <2>1, StoredKeeps
<1>. QED  BY <1>1, <1>2, <1>3 DEF ini_comment_set

\* The callback that tries the setters.
LEMMA NowIs == IsNow(Now) /\ Now.err \in Errors /\ Now.mem = mem /\ Now.brk = brk /\ Now.text = text /\ Now.buf = buf
BY DEF Now, IsNow, Errors

\* The callback of the test, with all the setters that it calls, keeps the document sound.
LEMMA GettersKeep ==
  ASSUME NEW N, NEW S, NEW R, Sound(mem, brk, N, S, R), NEW a \in N,
         NEW name, Type(mem, a) = "section" => name = Detail(mem, a).name,
         NEW r, r \in test_getters_and_setters(name, a)
  PROVE  Edited(Now, r, N, S, R, a)
<1>1. Shape(mem, a) /\ Suffix \in Word /\ Sound(Now.mem, Now.brk, N, S, R)
  <2>1. Suffix \in Word
    BY TextWords
  <2>. QED  BY <2>1, NowIs DEF Sound, Body
<1>2. CASE r = Now
  BY <1>1, <1>2, NowIs, NothingKeeps
<1>3. CASE \E e \in {"REPEATED_SECTION", "REPEATED_ITEM"} : r \in Error(Now, e)
  <2>. {"REPEATED_SECTION", "REPEATED_ITEM"} \subseteq Errors
    BY DEF Errors
  <2>. QED  BY <1>1, <1>3, NowIs, ErrorKeeps
<1>4. CASE Type(mem, a) = "comment" /\ r \in ini_comment_set(Now, a, Detail(mem, a) \o Suffix)
  <2>1. Detail(mem, a) \o Suffix \in Word
    BY <1>1, <1>4, ConcatWords DEF Shape
  <2>. QED  BY <1>1, <1>4, <2>1, NowIs, SetCommentKeeps
<1>5. CASE Type(mem, a) = "section" /\ r \in ini_section_rename(Now, a, mem[name] \o Suffix)
  <2>1. mem[name] \o Suffix \in Word
    BY <1>1, <1>5, ConcatWords DEF Shape
  <2>. QED  BY <1>1, <1>5, <2>1, NowIs, RenameKeeps
<1>6. CASE /\ Type(mem, a) = "item"
           /\ r \in UNION {ini_item_set_key([n EXCEPT !.err = "OK"], a, mem[Detail(mem, a).key] \o Suffix)
                             : n \in ini_item_set_value(Now, a, mem[Detail(mem, a).val] \o Suffix)}
  <2>1. mem[Detail(mem, a).key] \o Suffix \in Word /\ mem[Detail(mem, a).val] \o Suffix \in Word
    BY <1>1, <1>6, ConcatWords DEF Shape
  <2>2. PICK n \in ini_item_set_value(Now, a, mem[Detail(mem, a).val] \o Suffix) :
               r \in ini_item_set_key([n EXCEPT !.err = "OK"], a, mem[Detail(mem, a).key] \o Suffix)
    BY <1>6
  <2>3. Edited(Now, n, N, S, R, a)
    BY <1>1, <2>1, <2>2, NowIs, SetValueKeeps
  <2>. DEFINE n2 == [n EXCEPT !.err = "OK"]
  <2>4. /\ IsNow(n2) /\ n2.err \in Errors
        /\ n2.mem = n.mem /\ n2.brk = n.brk /\ n2.text = n.text /\ n2.buf = n.buf
    <3>1. n2 = [mem |-> n.mem, brk |-> n.brk, text |-> n.text, buf |-> n.buf, err |-> "OK"]
      BY <2>3 DEF Edited, IsNow
    <3>2. /\ n2.mem = n.mem /\ n2.brk = n.brk /\ n2.text = n.text /\ n2.buf = n.buf /\ n2.err = "OK"
      BY <3>1
    <3>. QED  BY <3>1, <3>2 DEF IsNow, Errors
  <2>5. Edited(n2, r, N, S, R, a)
    <3>1. r \in ini_item_set_key(n2, a, mem[Detail(mem, a).key] \o Suffix)
      BY <2>2
    <3>2. Sound(n2.mem, n2.brk, N, S, R)
      BY <2>3, <2>4 DEF Edited
    <3>. HIDE DEF n2
    <3>. QED  BY <2>1, <2>4, <3>1, <3>2, SetKeyKeeps
  <2>. HIDE DEF n2
  <2>6. S \subseteq N
    BY <2>3 DEF Edited, Sound, Body, Sorts
  <2>7. Kept(Now.mem, r.mem, N, S, a)
    BY <2>3, <2>4, <2>5 DEF Edited, Kept
  <2>8. \A x \in R : r.mem[x] = Now.mem[x]
    BY <2>3, <2>4, <2>5 DEF Edited
  <2>. QED  BY <2>3, <2>4, <2>5, <2>7, <2>8 DEF Edited
<1>7. Type(mem, a) \in {"blank", "comment", "section", "item"}
  BY <1>1 DEF Shape, Type
<1>. QED  BY <1>2, <1>3, <1>4, <1>5, <1>6, <1>7 DEF test_getters_and_setters

-----------------------------------------------------------------------------
\* The parser: what a line is, and the blocks it is stored in.

\* The first of some characters is in the string or behind its end.
LEMMA FirstOfIs ==
  ASSUME NEW s \in Word, NEW chars
  PROVE  FirstOf(s, chars) \in 1..Len(s) + 1
<1>. DEFINE T == {i \in DOMAIN s : s[i] \in chars} \cup {Len(s) + 1}
<1>1. Len(s) \in Nat /\ DOMAIN s = 1..Len(s)
  BY WordLength
<1>2. T \in SUBSET Nat /\ T # {} /\ T \subseteq 1..Len(s) + 1
  BY <1>1
<1>3. Min(T) \in T
  <2>. HIDE DEF T
  <2>. QED  BY <1>2, MinIs
<1>. QED  BY <1>2, <1>3 DEF FirstOf

\* What is read from a word is a word, and so is what is left.
LEMMA LineOfText ==
  ASSUME NEW s \in Word
  PROVE  /\ LineFromString(s).line \in Word /\ LineFromString(s).rest \in Word
         /\ LineFromStream(s).line \in Word /\ LineFromStream(s).rest \in Word
<1>1. Len(s) \in Nat /\ LineMax \in Nat
  BY WordLength, IniAssumption
<1>2. FirstOf(s, Newline) - 1 \in 0..Len(s) /\ FirstOf(s, {"\n"}) \in Nat
  BY <1>1, FirstOfIs
<1>. DEFINE n == Min({FirstOf(s, Newline) - 1, LineMax})
            k == Min({FirstOf(s, {"\n"}), LineMax, Len(s)})
<1>3. n \in 0..Len(s)
  <2>. DEFINE T == {FirstOf(s, Newline) - 1, LineMax}
  <2>1. T \in SUBSET Nat /\ T # {} /\ FirstOf(s, Newline) - 1 \in T
    BY <1>1, <1>2
  <2>2. Min(T) \in T /\ \A i \in T : Min(T) <= i
    <3>. HIDE DEF T
    <3>. QED  BY <2>1, MinIs
  <2>. QED  BY <1>1, <1>2, <2>1, <2>2
<1>4. k \in 0..Len(s)
  <2>. DEFINE T == {FirstOf(s, {"\n"}), LineMax, Len(s)}
  <2>1. T \in SUBSET Nat /\ T # {} /\ Len(s) \in T
    BY <1>1, <1>2
  <2>2. Min(T) \in T /\ \A i \in T : Min(T) <= i
    <3>. HIDE DEF T
    <3>. QED  BY <2>1, MinIs
  <2>. QED  BY <1>1, <1>2, <2>1, <2>2
<1>5. LineFromString(s) = [line |-> SubSeq(s, 1, n), rest |-> SubSeq(s, n + 2, Len(s))]
  BY DEF LineFromString
<1>6. LineFromStream(s) = [line |-> SubSeq(s, 1, k), rest |-> SubSeq(s, k + 1, Len(s))]
  BY DEF LineFromStream
<1>. HIDE DEF n, k
<1>7. SubSeq(s, 1, n) \in Word /\ SubSeq(s, n + 2, Len(s)) \in Word
  BY <1>1, <1>3, SubWord
<1>8. SubSeq(s, 1, k) \in Word /\ SubSeq(s, k + 1, Len(s)) \in Word
  BY <1>1, <1>4, SubWord
<1>. QED  BY <1>5, <1>6, <1>7, <1>8

\* What may come of a line: an error, or a type with its words.
Parsed(p, orphan) ==
  \/ p.err # "OK" /\ p.type = "none" /\ p.words = <<>>
  \/ p.err = "OK" /\ p.type = "blank" /\ p.words = <<>>
  \/ p.err = "OK" /\ p.type \in {"comment", "section"} /\ \E w \in Word : p.words = <<w>>
  \/ p.err = "OK" /\ p.type = "item" /\ ~orphan /\ \E w, k \in Word : p.words = <<w, k>>

\* A line with a bracket is parsed as a section or refused.
LEMMA SectionLineIs ==
  ASSUME NEW body \in Word, NEW orphan
  PROVE  Parsed(SectionLine(body), orphan)
<1>. DEFINE name == Trim(SubSeq(body, 2, Len(body) - 1), Blank)
<1>1. name \in Word
  <2>1. SubSeq(body, 2, Len(body) - 1) \in Word
    BY SubWord, WordLength
  <2>. QED  BY <2>1, TrimWord
<1>2. SectionLine(body) \in {Bad("NULL_SECTION_NAME"), Bad("BAD_FORMAT"), Is("section", <<name>>)}
  BY DEF SectionLine
<1>. HIDE DEF name
<1>. QED  BY <1>1, <1>2 DEF Parsed, Bad, Is

\* A line with text is parsed as an item or refused.
LEMMA ItemLineIs ==
  ASSUME NEW body \in Word, NEW orphan, NEW strip
  PROVE  Parsed(ItemLine(body, orphan, strip), orphan)
<1>. DEFINE equal_sign == FirstOf(body, {"="})
            val == SubSeq(body, equal_sign + 1, Len(body))
            key == DropTail(SubSeq(body, 1, equal_sign - 1), Blank)
            kept == IF strip THEN DropHead(val, Blank) ELSE val
<1>1. equal_sign \in 1..Len(body) + 1 /\ Len(body) \in Nat
  BY FirstOfIs, WordLength
<1>2. val \in Word /\ SubSeq(body, 1, equal_sign - 1) \in Word
  <2>. HIDE DEF equal_sign
  <2>. QED  BY <1>1, SubWord
<1>3. kept \in Word /\ key \in Word
  BY <1>2, DropHeadWord, DropTailWord
<1>4. \/ ItemLine(body, orphan, strip) \in {Bad("ORPHAN_ITEM"), Bad("BAD_FORMAT"), Bad("NULL_KEY")}
      \/ ~orphan /\ ItemLine(body, orphan, strip) = Is("item", <<kept, key>>)
  BY DEF ItemLine
<1>. HIDE DEF kept, key, val, equal_sign
<1>. QED  BY <1>3, <1>4 DEF Parsed, Bad, Is

\* Any line is parsed as a node of one of the types or refused.
LEMMA ParsedLineIs ==
  ASSUME NEW line \in Word, NEW orphan, NEW strip
  PROVE  Parsed(ParsedLine(line, orphan, strip), orphan)
<1>. DEFINE head == DropHead(line, Space)
            body == DropTail(head, Newline)
            trimmed == DropTail(body, Blank)
<1>1. head \in Word /\ body \in Word /\ trimmed \in Word
  BY DropHeadWord, DropTailWord
<1>2. Parsed(Is("blank", <<>>), orphan) /\ Parsed(Is("comment", <<trimmed>>), orphan)
  <2>. HIDE DEF trimmed
  <2>. QED  BY <1>1 DEF Parsed, Is
<1>3. Parsed(SectionLine(trimmed), orphan)
  BY <1>1, SectionLineIs
<1>4. Parsed(ItemLine(IF strip THEN trimmed ELSE body, orphan, strip), orphan)
  BY <1>1, ItemLineIs
<1>5. ParsedLine(line, orphan, strip) \in
        {Is("blank", <<>>), Is("comment", <<trimmed>>), SectionLine(trimmed),
         ItemLine(IF strip THEN trimmed ELSE body, orphan, strip)}
  BY DEF ParsedLine
<1>. HIDE DEF trimmed
<1>. QED  BY <1>2, <1>3, <1>4, <1>5

\* The blocks of a node with two.
LEMMA TwoParts ==
  ASSUME NEW x, NEW w
  PROVE  /\ (<<x>> \o <<w>>) \in Seq({x, w})
         /\ Len(<<x>> \o <<w>>) = 2 /\ DOMAIN (<<x>> \o <<w>>) = 1..2
         /\ (<<x>> \o <<w>>)[1] = x /\ (<<x>> \o <<w>>)[2] = w
<1>. DEFINE D == {x, w}
<1>1. <<x>> \in Seq(D) /\ <<w>> \in Seq(D) /\ Len(<<x>>) = 1 /\ Len(<<w>>) = 1
  OBVIOUS
<1>2. (<<x>> \o <<w>>) \in Seq(D)
  BY <1>1, ConcatProperties
<1>3. Len(<<x>> \o <<w>>) = 2 /\ (<<x>> \o <<w>>)[1] = x /\ (<<x>> \o <<w>>)[2] = w
  <2>. HIDE DEF D
  <2>. QED  BY <1>1, ConcatProperties
<1>. QED  BY <1>2, <1>3, LenProperties

\* The blocks of a node with three.
LEMMA ThreeParts ==
  ASSUME NEW x, NEW y, NEW w
  PROVE  /\ (<<x, y>> \o <<w>>) \in Seq({x, y, w})
         /\ Len(<<x, y>> \o <<w>>) = 3 /\ DOMAIN (<<x, y>> \o <<w>>) = 1..3
         /\ (<<x, y>> \o <<w>>)[1] = x /\ (<<x, y>> \o <<w>>)[2] = y /\ (<<x, y>> \o <<w>>)[3] = w
<1>. DEFINE D == {x, y, w}
<1>1. <<x, y>> \in Seq(D) /\ <<w>> \in Seq(D) /\ Len(<<x, y>>) = 2 /\ Len(<<w>>) = 1
  OBVIOUS
<1>2. (<<x, y>> \o <<w>>) \in Seq(D)
  BY <1>1, ConcatProperties
<1>3. /\ Len(<<x, y>> \o <<w>>) = 3
      /\ (<<x, y>> \o <<w>>)[1] = x /\ (<<x, y>> \o <<w>>)[2] = y /\ (<<x, y>> \o <<w>>)[3] = w
  <2>. HIDE DEF D
  <2>. QED  BY <1>1, ConcatProperties
<1>. QED  BY <1>2, <1>3, LenProperties

\* The blocks of a node with four.
LEMMA FourParts ==
  ASSUME NEW x, NEW y, NEW w, NEW k
  PROVE  /\ (<<x, y>> \o <<w, k>>) \in Seq({x, y, w, k})
         /\ Len(<<x, y>> \o <<w, k>>) = 4 /\ DOMAIN (<<x, y>> \o <<w, k>>) = 1..4
         /\ (<<x, y>> \o <<w, k>>)[1] = x /\ (<<x, y>> \o <<w, k>>)[2] = y
         /\ (<<x, y>> \o <<w, k>>)[3] = w /\ (<<x, y>> \o <<w, k>>)[4] = k
<1>. DEFINE D == {x, y, w, k}
<1>1. <<x, y>> \in Seq(D) /\ <<w, k>> \in Seq(D) /\ Len(<<x, y>>) = 2 /\ Len(<<w, k>>) = 2
  OBVIOUS
<1>2. (<<x, y>> \o <<w, k>>) \in Seq(D)
  BY <1>1, ConcatProperties
<1>3. /\ Len(<<x, y>> \o <<w, k>>) = 4
      /\ (<<x, y>> \o <<w, k>>)[1] = x /\ (<<x, y>> \o <<w, k>>)[2] = y
      /\ (<<x, y>> \o <<w, k>>)[3] = w /\ (<<x, y>> \o <<w, k>>)[4] = k
  <2>. HIDE DEF D
  <2>. QED  BY <1>1, ConcatProperties
<1>. QED  BY <1>2, <1>3, LenProperties

\* The blocks of a line: how many, and what they are.
BlocksOf(bl, p, b) ==
  /\ DOMAIN bl = 1..Len(bl) /\ Len(bl) \in 1..4 /\ \E D : bl \in Seq(D)
  /\ p.type \notin {"comment", "section", "item"} => Len(bl) = 1 /\ bl[1] = Node("blank", NULL)
  /\ p.type = "comment" => Len(bl) = 2 /\ bl[1] = Node("comment", b + 2) /\ bl[2] \in Word
  /\ p.type = "section" =>
       Len(bl) = 3 /\ bl[1] = Node("section", b + 2) /\ bl[2] = [name |-> b + 3, sub |-> NULL] /\ bl[3] \in Word
  /\ p.type = "item" =>
       /\ Len(bl) = 4 /\ bl[1] = Node("item", b + 2) /\ bl[2] = [val |-> b + 3, key |-> b + 4]
       /\ bl[3] \in Word /\ bl[4] \in Word

\* The blocks that the parser makes for a line are those of its type, each pointing to the next.
LEMMA BlocksAre ==
  ASSUME NEW p, NEW orphan, Parsed(p, orphan), NEW b \in Nat
  PROVE  BlocksOf(Blocks(p, b), p, b)
<1>. SUFFICES ASSUME NEW bl, bl = Blocks(p, b)
              PROVE  BlocksOf(bl, p, b)
  OBVIOUS
<1>1. CASE p.type \notin {"comment", "section", "item"}
  <2>1. bl = <<Node("blank", NULL)>>
    BY <1>1 DEF Blocks
  <2>2. Len(bl) = 1 /\ DOMAIN bl = 1..1 /\ bl[1] = Node("blank", NULL)
    BY <2>1
  <2>3. bl \in Seq({Node("blank", NULL)})
    BY <2>1
  <2>. QED  BY <1>1, <2>2, <2>3 DEF BlocksOf
<1>2. CASE p.type = "comment"
  <2>1. PICK w \in Word : p.words = <<w>>
    BY <1>2 DEF Parsed
  <2>2. bl = <<Node("comment", b + 2)>> \o <<w>>
    BY <1>2, <2>1 DEF Blocks
  <2>3. Len(bl) = 2 /\ DOMAIN bl = 1..2 /\ bl[1] = Node("comment", b + 2) /\ bl[2] = w
    BY <2>2, TwoParts
  <2>4. bl \in Seq({Node("comment", b + 2), w})
    BY <2>2, TwoParts
  <2>. QED  BY <1>2, <2>3, <2>4 DEF BlocksOf
<1>3. CASE p.type = "section"
  <2>1. PICK w \in Word : p.words = <<w>>
    BY <1>3 DEF Parsed
  <2>2. bl = <<Node("section", b + 2), [name |-> b + 3, sub |-> NULL]>> \o <<w>>
    BY <1>3, <2>1 DEF Blocks
  <2>3. Len(bl) = 3 /\ DOMAIN bl = 1..3 /\ bl[1] = Node("section", b + 2) /\ bl[2] = [name |-> b + 3, sub |-> NULL] /\ bl[3] = w
    BY <2>2, ThreeParts
  <2>4. bl \in Seq({Node("section", b + 2), [name |-> b + 3, sub |-> NULL], w})
    BY <2>2, ThreeParts
  <2>. QED  BY <1>3, <2>3, <2>4 DEF BlocksOf
<1>4. CASE p.type = "item"
  <2>1. PICK w, k \in Word : p.words = <<w, k>>
    BY <1>4 DEF Parsed
  <2>2. bl = <<Node("item", b + 2), [val |-> b + 3, key |-> b + 4]>> \o <<w, k>>
    BY <1>4, <2>1 DEF Blocks
  <2>3. Len(bl) = 4 /\ DOMAIN bl = 1..4 /\ bl[1] = Node("item", b + 2) /\ bl[2] = [val |-> b + 3, key |-> b + 4] /\ bl[3] = w /\ bl[4] = k
    BY <2>2, FourParts
  <2>4. bl \in Seq({Node("item", b + 2), [val |-> b + 3, key |-> b + 4], w, k})
    BY <2>2, FourParts
  <2>. QED  BY <1>4, <2>3, <2>4 DEF BlocksOf
<1>. QED  BY <1>1, <1>2, <1>3, <1>4

\* The new node has the shape of its type, and all the blocks.
LEMMA NewShape ==
  ASSUME NEW p, NEW orphan, Parsed(p, orphan), p.err = "OK", NEW b \in Nat, NEW bl, BlocksOf(bl, p, b),
         NEW m, b + 1..b + Len(bl) \subseteq DOMAIN m, \A i \in 1..Len(bl) : m[b + i] = bl[i]
  PROVE  /\ Shape(m, b + 1) /\ Type(m, b + 1) = p.type /\ m[b + 1].next = NULL
         /\ p.type = "section" => Detail(m, b + 1).sub = NULL
         /\ NodeBlocks(m, b + 1) = b + 1..b + Len(bl)
<1>. DEFINE a == b + 1
<1>1. a \in Nat /\ a \in DOMAIN m
  BY DEF BlocksOf
<1>2. CASE p.type = "blank"
  <2>1. Len(bl) = 1 /\ m[a] = Node("blank", NULL)
    BY <1>2 DEF BlocksOf
  <2>2. m[a] = [type |-> "blank", detail |-> 0, next |-> 0]
    BY <2>1 DEF Node, NULL
  <2>3. m[a] \in [type : {"blank", "comment", "section", "item"}, detail : Nat, next : Nat] /\ m[a].type = "blank" /\ m[a].detail = 0 /\ m[a].next = 0
    BY <2>2
  <2>4. b + 1..b + Len(bl) = {a}
    BY <2>1
  <2>. QED  BY <1>1, <1>2, <2>3, <2>4 DEF Shape, Type, NodeBlocks, ItemBlocks, NULL
<1>3. CASE p.type = "comment"
  <2>1. Len(bl) = 2 /\ m[a] = Node("comment", b + 2) /\ m[b + 2] \in Word
    BY <1>3 DEF BlocksOf
  <2>2. m[a] = [type |-> "comment", detail |-> b + 2, next |-> 0]
    BY <2>1 DEF Node, NULL
  <2>3. m[a] \in [type : {"blank", "comment", "section", "item"}, detail : Nat, next : Nat] /\ m[a].type = "comment" /\ m[a].detail = b + 2 /\ m[a].next = 0
    BY <2>2
  <2>4. b + 1..b + Len(bl) = {a, b + 2} /\ b + 2 \in DOMAIN m /\ b + 2 # a
    BY <2>1
  <2>. QED  BY <1>1, <1>3, <2>1, <2>3, <2>4 DEF Shape, Type, Detail, NodeBlocks, ItemBlocks, NULL
<1>4. CASE p.type = "section"
  <2>1. Len(bl) = 3 /\ m[a] = Node("section", b + 2) /\ m[b + 2] = [name |-> b + 3, sub |-> NULL] /\ m[b + 3] \in Word
    BY <1>4 DEF BlocksOf
  <2>2. m[a] = [type |-> "section", detail |-> b + 2, next |-> 0] /\ m[b + 2] = [name |-> b + 3, sub |-> 0]
    BY <2>1 DEF Node, NULL
  <2>3. m[a] \in [type : {"blank", "comment", "section", "item"}, detail : Nat, next : Nat] /\ m[a].type = "section" /\ m[a].detail = b + 2 /\ m[a].next = 0
    BY <2>2
  <2>4. m[b + 2] \in [name : Nat, sub : Nat] /\ m[b + 2].name = b + 3 /\ m[b + 2].sub = 0
    BY <2>2
  <2>5. b + 1..b + Len(bl) = {a, b + 2, b + 3} /\ b + 2 \in DOMAIN m /\ b + 3 \in DOMAIN m /\ b + 2 # a /\ b + 3 # a /\ b + 2 # b + 3
    BY <2>1
  <2>. QED  BY <1>1, <1>4, <2>1, <2>3, <2>4, <2>5 DEF Shape, Type, Detail, NodeBlocks, ItemBlocks, NULL
<1>5. CASE p.type = "item"
  <2>1. /\ Len(bl) = 4 /\ m[a] = Node("item", b + 2) /\ m[b + 2] = [val |-> b + 3, key |-> b + 4]
        /\ m[b + 3] \in Word /\ m[b + 4] \in Word
    BY <1>5 DEF BlocksOf
  <2>2. m[a] = [type |-> "item", detail |-> b + 2, next |-> 0]
    BY <2>1 DEF Node, NULL
  <2>3. m[a] \in [type : {"blank", "comment", "section", "item"}, detail : Nat, next : Nat] /\ m[a].type = "item" /\ m[a].detail = b + 2 /\ m[a].next = 0
    BY <2>2
  <2>4. m[b + 2] \in [val : Nat, key : Nat] /\ m[b + 2].val = b + 3 /\ m[b + 2].key = b + 4
    BY <2>1
  <2>5. /\ b + 1..b + Len(bl) = {a, b + 2, b + 3, b + 4} /\ b + 2 \in DOMAIN m /\ b + 3 \in DOMAIN m /\ b + 4 \in DOMAIN m
        /\ b + 2 # a /\ b + 3 # a /\ b + 4 # a /\ b + 2 # b + 3 /\ b + 2 # b + 4 /\ b + 3 # b + 4
    BY <2>1
  <2>. QED  BY <1>1, <1>5, <2>1, <2>3, <2>4, <2>5 DEF Shape, Type, Detail, NodeBlocks, ItemBlocks, NULL
<1>. QED  BY <1>2, <1>3, <1>4, <1>5 DEF Parsed

\* The heap m1 has the blocks bl above the break of m, and is m below it.
Extended(m, b, bl, m1) ==
  /\ \A y : y \in DOMAIN m1 <=> y \in DOMAIN m \/ y \in b + 1..b + Len(bl)
  /\ DOMAIN m \cap (b + 1..b + Len(bl)) = {}
  /\ DOMAIN m1 \subseteq 1..b + Len(bl) /\ b + Len(bl) \in Nat
  /\ \A x \in DOMAIN m : m1[x] = m[x]
  /\ \A i \in 1..Len(bl) : m1[b + i] = bl[i]

\* calloc() gives blocks above the break.
LEMMA AllocatedAre ==
  ASSUME NEW m, NEW b \in Nat, DOMAIN m \subseteq 1..b, NEW bl, Len(bl) \in Nat
  PROVE  Extended(m, b, bl, Allocated(m, b, bl))
<1>. SUFFICES ASSUME NEW m1, m1 = Allocated(m, b, bl)
              PROVE  Extended(m, b, bl, m1)
  OBVIOUS
<1>1. m1 = [x \in DOMAIN m \cup (b + 1..b + Len(bl)) |-> IF x \in DOMAIN m THEN m[x] ELSE bl[x - b]]
  BY DEF Allocated
<1>2. \A x \in DOMAIN m : x \in Nat /\ x <= b
  OBVIOUS
<1>3. DOMAIN m \cap (b + 1..b + Len(bl)) = {}
  BY <1>2
<1>4. \A i \in 1..Len(bl) : b + i \in b + 1..b + Len(bl) /\ b + i - b = i
  OBVIOUS
<1>5. \A x \in DOMAIN m : m1[x] = m[x]
  BY <1>1
<1>6. \A i \in 1..Len(bl) : m1[b + i] = bl[i]
  BY <1>1, <1>3, <1>4
<1>7. \A y : y \in DOMAIN m1 <=> y \in DOMAIN m \/ y \in b + 1..b + Len(bl)
  BY <1>1
<1>8. DOMAIN m1 \subseteq 1..b + Len(bl)
  BY <1>2, <1>7
<1>. QED  BY <1>3, <1>5, <1>6, <1>7, <1>8 DEF Extended

\* A new node, and a heap that it is in but not yet linked.
Fresh(m, b, N, S, R, p, m1, b2, a, N2, S2) ==
  /\ a \in Nat /\ a # NULL /\ Comes(N, S, a, N2, S2) /\ (a \in S2 <=> p.type = "section")
  /\ Body(m1, b2, N2, S2, R) /\ Same(m, m1, N) /\ \A x \in R : m1[x] = m[x]
  /\ Type(m1, a) = p.type /\ m1[a].next = NULL
  /\ p.type = "section" => Detail(m1, a).sub = NULL

\* The new node is in the heap, linked to nothing.
LEMMA LineStored ==
  ASSUME NEW m, NEW b, NEW N, NEW S, NEW R, Sound(m, b, N, S, R), N \subseteq Nat,
         NEW p, NEW orphan, Parsed(p, orphan), p.err = "OK", NEW bl, BlocksOf(bl, p, b),
         NEW m1, m1 = Allocated(m, b, bl), NEW a, a = b + 1, NEW N2, N2 = N \cup {a},
         NEW S2, S2 = IF p.type = "section" THEN S \cup {a} ELSE S
  PROVE  Fresh(m, b, N, S, R, p, m1, b + Len(bl), a, N2, S2)
<1>1. b \in Nat /\ Len(bl) \in Nat /\ DOMAIN m \subseteq 1..b /\ Body(m, b, N, S, R) /\ S \subseteq N
  BY DEF Sound, Body, Extent, BlocksOf, Sorts
<1>2. /\ \A y : y \in DOMAIN m1 <=> y \in DOMAIN m \/ y \in b + 1..b + Len(bl)
      /\ DOMAIN m \cap (b + 1..b + Len(bl)) = {}
      /\ DOMAIN m1 \subseteq 1..b + Len(bl) /\ b + Len(bl) \in Nat
      /\ \A x \in DOMAIN m : m1[x] = m[x]
      /\ \A i \in 1..Len(bl) : m1[b + i] = bl[i]
  <2>1. b \in Nat /\ DOMAIN m \subseteq 1..b /\ Len(bl) \in Nat /\ m1 = Allocated(m, b, bl)
    BY <1>1
  <2>2. Extended(m, b, bl, m1)
    BY ONLY <2>1, AllocatedAre
  <2>. QED  BY <2>2 DEF Extended
<1>3. /\ R \cap Covered(m, N) = {} /\ Covered(m, N) \subseteq DOMAIN m /\ R \subseteq DOMAIN m
      /\ N \subseteq Covered(m, N) /\ DOMAIN m = R \cup Covered(m, N)
  BY <1>1, RootsAreApart DEF Body, Extent
<1>4. a \in Nat /\ \A c \in N : c < a
  BY <1>1, <1>3
<1>5. /\ Shape(m1, a) /\ Type(m1, a) = p.type /\ m1[a].next = NULL
      /\ p.type = "section" => Detail(m1, a).sub = NULL
      /\ NodeBlocks(m1, a) = b + 1..b + Len(bl)
  <2>1. b + 1..b + Len(bl) \subseteq DOMAIN m1 /\ \A i \in 1..Len(bl) : m1[b + i] = bl[i]
    BY <1>2
  <2>2. /\ Shape(m1, b + 1) /\ Type(m1, b + 1) = p.type /\ m1[b + 1].next = NULL
        /\ p.type = "section" => Detail(m1, b + 1).sub = NULL
        /\ NodeBlocks(m1, b + 1) = b + 1..b + Len(bl)
    <3>1. Parsed(p, orphan) /\ p.err = "OK" /\ BlocksOf(bl, p, b)
      OBVIOUS
    <3>. QED  BY ONLY <1>1, <2>1, <3>1, NewShape
  <2>. QED  BY <2>2
<1>6. \A x \in Covered(m, N) : x \in DOMAIN m1 /\ m1[x] = m[x]
  BY <1>2, <1>3
<1>7. Same(m, m1, N)
  BY <1>1, <1>6, SameNodes
<1>8. Body(m1, b + Len(bl), N2, S2, R)
  <2>1. a \notin N
    BY <1>4
  <2>2. S2 \subseteq N2 /\ (\A c \in N : c \in S2 <=> c \in S) /\ (a \in S2 <=> Type(m1, a) = "section")
    BY <1>1, <1>5, <2>1
  <2>3. NodeBlocks(m1, a) \cap (R \cup Covered(m, N)) = {}
    BY <1>2, <1>3, <1>5
  <2>4. \A y : y \in DOMAIN m1 <=> y \in R \cup Covered(m, N) \cup NodeBlocks(m1, a)
    BY <1>2, <1>3, <1>5
  <2>5. N \subseteq N
    OBVIOUS
  <2>6. b + Len(bl) \in Nat /\ DOMAIN m1 \subseteq 1..b + Len(bl)
    BY <1>2
  <2>7. ASSUME NEW b2 \in Nat, b2 = b + Len(bl) PROVE Body(m1, b2, N2, S2, R)
    <3>1. /\ Body(m, b, N, S, R) /\ N \subseteq N /\ a \in Nat /\ a \notin N /\ N2 = N \cup {a} /\ S2 \subseteq N2
          /\ (\A c \in N : c \in S2 <=> c \in S) /\ b2 \in Nat /\ Shape(m1, a) /\ (a \in S2 <=> Type(m1, a) = "section")
          /\ (\A x \in Covered(m, N) : x \in DOMAIN m1 /\ m1[x] = m[x])
          /\ NodeBlocks(m1, a) \cap (R \cup Covered(m, N)) = {}
          /\ (\A y : y \in DOMAIN m1 <=> y \in R \cup Covered(m, N) \cup NodeBlocks(m1, a)) /\ DOMAIN m1 \subseteq 1..b2
      BY <1>1, <1>4, <1>5, <1>6, <2>1, <2>2, <2>3, <2>4, <2>5, <2>6, <2>7
    <3>. QED  BY ONLY <3>1, Replace
  <2>. QED  BY <2>6, <2>7
<1>9. Comes(N, S, a, N2, S2) /\ (a \in S2 <=> p.type = "section") /\ a # NULL
  <2>1. a \notin N /\ a # NULL
    BY <1>1, <1>4 DEF NULL
  <2>. QED  BY <1>1, <1>4, <2>1 DEF Comes
<1>. QED  BY <1>2, <1>3, <1>4, <1>5, <1>7, <1>8, <1>9 DEF Fresh

\* A section comes behind all the others, and begins a list.
LEMMA SectionAdded ==
  ASSUME NEW N, NEW S, NEW a, NEW N2, NEW S2, Comes(N, S, a, N2, S2), a \in S2, NULL \notin N, a # NULL,
         NEW m, NEW m2, NEW d, Links(m, N, S), Heads(m, d, N, S), Subs(m, N, S, NULL), NoOrphans(m, N, S),
         NEW sec, Latest(S, sec), sec # NULL => sec \in Nat,
         \A c \in N : c # sec => m2[c].next = m[c].next,
         sec # NULL => m2[sec].next = a, m2[a].next = NULL,
         \A s \in S : Detail(m2, s).sub = Detail(m, s).sub, Detail(m2, a).sub = NULL,
         m2[d] \in [preamble : Nat, section : Nat],
         m2[d].preamble = m[d].preamble, m2[d].section = IF sec = NULL THEN a ELSE m[d].section,
         \A c \in N : Type(m2, c) = "item" <=> Type(m, c) = "item", Type(m2, a) # "item"
  PROVE  /\ Links(m2, N2, S2) /\ Heads(m2, d, N2, S2) /\ Subs(m2, N2, S2, NULL) /\ NoOrphans(m2, N2, S2)
         /\ Latest(S2, a) /\ Latest(Trailing(S2, N2), NULL)
<1>0. /\ N \in SUBSET Nat /\ S \in SUBSET N /\ a \in Nat /\ (\A c \in N : c < a) /\ N2 = N \cup {a} /\ S2 = S \cup {a}
  BY DEF Comes
<1>1. /\ \A c \in N : Behind(N2, c) = Behind(N, c) \cup {a} /\ Behind(S2, c) = Behind(S, c) \cup {a}
      /\ Behind(N2, a) = {} /\ Behind(S2, a) = {} /\ Leading(S2, N2) = Leading(S, N)
      /\ \A c \in N : Leading(S2, Behind(N2, c)) = Leading(S, Behind(N, c))
  <2>1. Comes(N, S, a, N2, S2) /\ a \in S2
    BY DEF Comes
  <2>. QED  BY ONLY <2>1, NewSection
<1>2. \A c \in N : Leading(S2, Behind(N2, c)) = Leading(S, Behind(N, c))
  BY <1>0, <1>1
<1>3. Leading(S2, N2) = Leading(S, N)
  BY <1>0, <1>1
<1>4. Leading(S2, Behind(N2, a)) = {}
  BY <1>0, <1>1 DEF Leading
<1>5. S \subseteq Nat /\ a \notin N
  <2>1. \A c \in N : c \in Nat /\ c < a
    BY <1>0
  <2>2. a \notin N
    BY <1>0, <2>1
  <2>. QED  BY <1>0, <2>2
<1>14. NULL \notin N
  BY <1>0
<1>13. \A c \in N : sec # c \/ m2[c].next = a
  BY <1>0, <1>14
<1>12. First(Behind(S2, a), m2[a].next)
  BY <1>0, <1>1 DEF First
<1>6. ASSUME NEW s \in S PROVE First(Behind(S2, s), m2[s].next)
  <2>1. Behind(S2, s) = Behind(S, s) \cup {a} /\ s \in Nat
    BY <1>0, <1>1
  <2>2. CASE s = sec
    <3>1. \A c \in S : c <= s
      BY <1>0, <2>2 DEF Latest
    <3>4. \A c \in S : ~(c > s)
      BY <1>0, <1>5, <2>1, <3>1
    <3>2. Behind(S, s) = {}
      BY <1>0, <3>4 DEF Behind
    <3>3. m2[s].next = a
      BY <1>0, <1>13, <2>2
    <3>5. Behind(S2, s) = {a}
      BY <2>1, <3>2
    <3>6. First({a}, a)
      BY <1>0 DEF First
    <3>. QED  BY <3>3, <3>5, <3>6
  <2>3. CASE s # sec
    <3>1. sec # NULL /\ sec \in S /\ s <= sec /\ sec \in Nat
      BY <1>0, <2>3 DEF Latest
    <3>2. sec \in Behind(S, s)
      BY <1>0, <2>1, <2>3, <3>1 DEF Behind
    <3>3. First(Behind(S, s), m[s].next) /\ m[s].next # NULL
      BY <1>0, <3>2 DEF Links, First
    <3>4. m2[s].next = m[s].next
      BY <1>0, <2>3
    <3>5. m[s].next \in S /\ m[s].next < a /\ m[s].next \in Behind(S, s) /\ m[s].next \in Nat
      BY <1>0, <3>3 DEF First, Behind
    <3>6. \A c \in Behind(S, s) \cup {a} : m[s].next <= c
      BY <1>0, <3>3, <3>5 DEF First
    <3>. QED  BY <1>0, <2>1, <3>3, <3>4, <3>5, <3>6 DEF First
  <2>. QED  BY <1>0, <2>2, <2>3
<1>7. \A c \in N2 \ S2 : First(Leading(S2, Behind(N2, c)), m2[c].next)
  <2>1. SUFFICES ASSUME NEW c \in N \ S
                 PROVE  First(Leading(S, Behind(N, c)), m2[c].next)
    BY <1>0, <1>2
  <2>2. c # sec
    BY <1>0, <1>5, <1>14 DEF Latest
  <2>. QED  BY <1>0, <2>2 DEF Links
<1>8. Heads(m2, d, N2, S2)
  <2>1. First(Leading(S2, N2), m2[d].preamble)
    BY <1>0, <1>3 DEF Heads
  <2>2. First(S2, m2[d].section)
    <3>1. CASE sec = NULL
      BY <1>0, <1>5, <3>1 DEF Latest, First
    <3>2. CASE sec # NULL
      <4>1. First(S, m[d].section) /\ m[d].section # NULL
        BY <1>0, <3>2 DEF Heads, First, Latest
      <4>2. m[d].section \in S /\ m[d].section < a
        BY <1>0, <4>1 DEF First
      <4>. QED  BY <1>0, <1>5, <3>2, <4>1, <4>2 DEF First
    <3>. QED  BY <1>0, <3>1, <3>2
  <2>. QED  BY <1>0, <2>1, <2>2 DEF Heads
<1>9. Subs(m2, N2, S2, NULL)
  <2>1. SUFFICES ASSUME NEW s \in S2 \ {NULL}
                 PROVE  First(Leading(S2, Behind(N2, s)), Detail(m2, s).sub)
    BY <1>0 DEF Subs
  <2>2. CASE s = a
    BY <1>0, <1>4, <2>2 DEF First
  <2>3. CASE s # a
    BY <1>0, <1>2, <2>3 DEF Subs
  <2>. QED  BY <1>0, <2>2, <2>3
<1>10. NoOrphans(m2, N2, S2)
  BY <1>0 DEF NoOrphans
<1>11. Latest(S2, a) /\ Latest(Trailing(S2, N2), NULL)
  <2>1. \A c \in N2 : ~(a < c)
    BY <1>0
  <2>2. Trailing(S2, N2) = {}
    BY <1>0, <2>1 DEF Trailing
  <2>3. \A c \in S2 : c <= a
    BY <1>0
  <2>. QED  BY <1>0, <2>2, <2>3 DEF Latest
<1>. QED  BY <1>0, <1>6, <1>7, <1>8, <1>9, <1>10, <1>11, <1>12 DEF Links

\* What comes last is not the first, unless there was nothing before.
LEMMA FirstGrows ==
  ASSUME NEW Q, NEW p, First(Q, p), p # NULL, Q \subseteq Nat, NEW a \in Nat, \A c \in Q : c < a,
         NEW Q2, Q2 = Q \cup {a}
  PROVE  First(Q2, p)
<1>1. p \in Q /\ p \in Nat /\ p < a
  BY DEF First
<1>. QED  BY <1>1 DEF First

\* A node that is no section comes behind the last one of its list, or begins the list.
LEMMA NodeAdded ==
  ASSUME NEW N, NEW S, NEW a, NEW N2, NEW S2, Comes(N, S, a, N2, S2), a \notin S2, NULL \notin N, a # NULL,
         NEW m, NEW m2, NEW d, Links(m, N, S), Heads(m, d, N, S), Subs(m, N, S, NULL), NoOrphans(m, N, S),
         NEW sec, Latest(S, sec), NEW prev, Latest(Trailing(S, N), prev),
         \A c \in N : c # prev => m2[c].next = m[c].next,
         prev # NULL => m2[prev].next = a, m2[a].next = NULL,
         \A s \in S : Detail(m2, s).sub = IF prev = NULL /\ s = sec THEN a ELSE Detail(m, s).sub,
         m2[d] \in [preamble : Nat, section : Nat], m2[d].section = m[d].section,
         m2[d].preamble = IF prev = NULL /\ sec = NULL THEN a ELSE m[d].preamble,
         \A c \in N : Type(m2, c) = "item" <=> Type(m, c) = "item", Type(m2, a) = "item" => sec # NULL
  PROVE  /\ Links(m2, N2, S2) /\ Heads(m2, d, N2, S2) /\ Subs(m2, N2, S2, NULL) /\ NoOrphans(m2, N2, S2)
         /\ Latest(S2, sec) /\ Latest(Trailing(S2, N2), a)
<1>. DEFINE T == Trailing(S, N)
<1>0. /\ N \in SUBSET Nat /\ S \in SUBSET N /\ a \in Nat /\ (\A c \in N : c < a) /\ N2 = N \cup {a} /\ S2 = S
      /\ S \subseteq Nat
  BY DEF Comes
<1>1. /\ \A c \in N : Behind(N2, c) = Behind(N, c) \cup {a}
      /\ Behind(N2, a) = {} /\ a \notin S
      /\ \A B \in SUBSET N : S \cap B = {} => Leading(S, B) = B
      /\ \A B \in SUBSET N : \A B2 : B2 = B \cup {a} =>
           /\ S \cap B # {} => Leading(S, B2) = Leading(S, B)
           /\ S \cap B = {} => Leading(S, B2) = B2
  <2>1. Comes(N, S, a, N2, S2) /\ a \notin S2
    OBVIOUS
  <2>. QED  BY ONLY <2>1, NewNode
<1>2. ASSUME NEW c \in N, S \cap Behind(N, c) # {}
      PROVE  Leading(S, Behind(N2, c)) = Leading(S, Behind(N, c))
  <2>1. Behind(N, c) \in SUBSET N
    BY DEF Behind
  <2>. QED  BY <1>1, <1>2, <2>1
<1>3. ASSUME NEW c \in N, S \cap Behind(N, c) = {}
      PROVE  Leading(S, Behind(N2, c)) = Behind(N, c) \cup {a} /\ Leading(S, Behind(N, c)) = Behind(N, c)
  <2>1. Behind(N, c) \in SUBSET N /\ Behind(N2, c) = Behind(N, c) \cup {a}
    BY <1>1 DEF Behind
  <2>. QED  BY <1>1, <1>3, <2>1
<1>4. T \subseteq N \ S /\ \A c \in N : c \in T <=> \A s \in S : s < c
  <2>1. \A c \in S : c \in Nat /\ ~(c < c)
    BY <1>0
  <2>. QED  BY <1>0, <2>1 DEF Trailing
<1>5. \A c \in N \ S : S \cap Behind(N, c) = {} => c \in T
  <2>1. ASSUME NEW c \in N \ S, S \cap Behind(N, c) = {}, NEW s \in S PROVE s < c
    <3>1. s \in Nat /\ c \in Nat /\ s # c /\ s \in N
      BY <1>0
    <3>2. ~(s > c)
      BY <2>1, <3>1 DEF Behind
    <3>. QED  BY <3>1, <3>2
  <2>. QED  BY <1>4, <2>1
<1>6. prev # NULL => prev \in T /\ prev \in N \ S /\ prev \in Nat /\ \A c \in T : c <= prev
  BY <1>0, <1>4 DEF Latest
<1>7. prev = NULL => T = {}
  BY DEF Latest
<1>. HIDE DEF T
<1>8. prev # NULL => Behind(N, prev) = {}
  <2>1. SUFFICES ASSUME prev # NULL, NEW c \in N, c > prev PROVE FALSE
    BY DEF Behind
  <2>2. c \in Nat /\ \A s \in S : s \in Nat
    BY <1>0
  <2>3. \A s \in S : s < prev
    BY <1>4, <1>6, <2>1
  <2>4. \A s \in S : s < c
    BY <1>6, <2>1, <2>2, <2>3
  <2>5. c \in T
    BY <1>4, <2>4
  <2>. QED  BY <1>6, <2>1, <2>2, <2>5
<1>9. \A c \in T : c \in Nat /\ c < a
  BY <1>0, <1>4
<1>10. \A s \in S2 : First(Behind(S2, s), m2[s].next)
  <2>1. ASSUME NEW s \in S PROVE s \in N /\ s # prev
    <3>1. s \in N
      BY <1>0
    <3>2. s # NULL
      BY <3>1
    <3>. QED  BY <1>6, <3>1, <3>2
  <2>. QED  BY <1>0, <2>1 DEF Links
<1>11. ASSUME NEW c \in N \ S PROVE First(Leading(S, Behind(N2, c)), m2[c].next)
  <2>0. c \in N /\ c \in Nat /\ First(Leading(S, Behind(N, c)), m[c].next)
    BY <1>0 DEF Links
  <2>1. CASE c = prev
    <3>1. S \cap Behind(N, c) = {} /\ prev # NULL /\ Behind(N, c) = {}
      BY <1>8, <2>0, <2>1
    <3>2. Leading(S, Behind(N2, c)) = {a} /\ m2[c].next = a
      BY <1>3, <2>0, <2>1, <3>1
    <3>. QED  BY <1>0, <3>2 DEF First
  <2>2. CASE c # prev /\ S \cap Behind(N, c) # {}
    BY <1>2, <2>0, <2>2
  <2>3. CASE c # prev /\ S \cap Behind(N, c) = {}
    <3>1. c \in T
      BY <1>5, <2>3
    <3>2. prev # NULL /\ prev \in N /\ prev > c
      BY <1>6, <1>7, <2>0, <2>3, <3>1
    <3>3. prev \in Behind(N, c)
      BY <3>2 DEF Behind
    <3>4. First(Behind(N, c), m[c].next) /\ m[c].next # NULL
      BY <1>3, <2>0, <2>3, <3>3 DEF First
    <3>5. Behind(N, c) \subseteq Nat /\ \A x \in Behind(N, c) : x < a
      BY <1>0 DEF Behind
    <3>6. First(Behind(N, c) \cup {a}, m[c].next)
      BY <1>0, <3>4, <3>5, FirstGrows
    <3>7. m2[c].next = m[c].next
      BY <2>0, <2>3
    <3>. QED  BY <1>3, <2>0, <2>3, <3>6, <3>7
  <2>. QED  BY <2>1, <2>2, <2>3
<1>12. First(Leading(S, Behind(N2, a)), m2[a].next)
  BY <1>1 DEF Leading, First
<1>13. Heads(m2, d, N2, S2)
  <2>1. First(S, m2[d].section) /\ First(Leading(S, N), m[d].preamble)
    BY DEF Heads
  <2>2. CASE sec # NULL
    <3>1. S \cap N # {}
      BY <1>0, <2>2 DEF Latest
    <3>2. Leading(S, N2) = Leading(S, N)
      BY <1>0, <1>1, <3>1
    <3>. QED  BY <1>0, <2>1, <2>2, <3>2 DEF Heads
  <2>3. CASE sec = NULL /\ prev = NULL
    <3>1. S = {} /\ N = {}
      BY <1>4, <1>7, <2>3 DEF Latest
    <3>2. N2 = {a}
      BY <1>0, <3>1
    <3>3. Leading(S, N2) = {a}
      BY <3>1, <3>2 DEF Leading
    <3>4. First(Leading(S, N2), a)
      BY <1>0, <3>3 DEF First
    <3>5. m2[d].preamble = a
      BY <2>3
    <3>. QED  BY <1>0, <2>1, <3>4, <3>5 DEF Heads
  <2>4. CASE sec = NULL /\ prev # NULL
    <3>1. S = {} /\ N # {}
      BY <1>6, <2>4 DEF Latest
    <3>2. Leading(S, N2) = N2 /\ Leading(S, N) = N
      BY <1>0, <1>1, <3>1
    <3>3. First(N, m[d].preamble) /\ m[d].preamble # NULL
      BY <2>1, <3>1, <3>2 DEF First
    <3>4. First(N2, m[d].preamble)
      BY <1>0, <3>3, FirstGrows
    <3>. QED  BY <1>0, <2>1, <2>4, <3>2, <3>4 DEF Heads
  <2>. QED  BY <2>2, <2>3, <2>4
<1>14. Subs(m2, N2, S2, NULL)
  <2>1. SUFFICES ASSUME NEW s \in S, s # NULL
                 PROVE  First(Leading(S, Behind(N2, s)), Detail(m2, s).sub)
    BY <1>0 DEF Subs
  <2>2. First(Leading(S, Behind(N, s)), Detail(m, s).sub) /\ s \in N /\ s \in Nat
    BY <1>0, <2>1 DEF Subs
  <2>3. sec # NULL /\ sec \in S /\ s <= sec /\ sec \in Nat /\ \A c \in S : c <= sec
    BY <1>0 DEF Latest
  <2>4. CASE S \cap Behind(N, s) # {}
    <3>1. s # sec
      <4>1. PICK c \in S : c > s
        BY <2>4 DEF Behind
      <4>2. c \in Nat /\ c <= sec
        BY <1>0, <2>3
      <4>. QED  BY <2>2, <2>3, <4>1, <4>2
    <3>. QED  BY <1>2, <2>2, <2>4, <3>1
  <2>5. CASE S \cap Behind(N, s) = {}
    <3>1. s = sec
      BY <1>0, <2>2, <2>3, <2>5 DEF Behind
    <3>2. ASSUME NEW c \in N PROVE c \in Behind(N, s) <=> c \in T
      <4>1. c \in Nat
        BY <1>0
      <4>2. c > s => \A x \in S : x < c
        <5>1. \A x \in S : x \in Nat /\ x <= s
          BY <1>0, <2>3, <3>1
        <5>. QED  BY <2>2, <4>1, <5>1
      <4>. QED  BY <1>4, <2>2, <4>1, <4>2 DEF Behind
    <3>3. Behind(N, s) = T
      BY <1>4, <3>2 DEF Behind
    <3>4. Leading(S, Behind(N2, s)) = T \cup {a} /\ First(T, Detail(m, s).sub)
      BY <1>3, <2>2, <2>5, <3>3
    <3>5. CASE prev = NULL
      <4>1. T = {}
        BY <1>7, <3>5
      <4>2. Leading(S, Behind(N2, s)) = {a} /\ Detail(m2, s).sub = a
        BY <3>1, <3>4, <3>5, <4>1
      <4>3. First({a}, a)
        BY <1>0 DEF First
      <4>. QED  BY <4>2, <4>3
    <3>6. CASE prev # NULL
      <4>1. Detail(m, s).sub # NULL
        BY <1>6, <3>4, <3>6 DEF First
      <4>2. First(T \cup {a}, Detail(m, s).sub)
        BY <1>0, <1>9, <3>4, <4>1, FirstGrows
      <4>. QED  BY <3>4, <3>6, <4>2
    <3>. QED  BY <3>5, <3>6
  <2>. QED  BY <2>4, <2>5
<1>15. NoOrphans(m2, N2, S2)
  <2>1. Type(m2, a) = "item" => sec \in S /\ sec < a
    BY <1>0 DEF Latest
  <2>. QED  BY <1>0, <2>1 DEF NoOrphans
<1>16. Latest(S2, sec) /\ Latest(Trailing(S2, N2), a)
  <2>1. \A c \in N2 : c <= a
    BY <1>0
  <2>2. a \in Trailing(S2, N2) /\ Trailing(S2, N2) \subseteq N2
    BY <1>0 DEF Trailing
  <2>. QED  BY <1>0, <2>1, <2>2 DEF Latest
<1>. QED  BY <1>0, <1>10, <1>11, <1>12, <1>13, <1>14, <1>15, <1>16 DEF Links

\* What is known of the document of N and S between two lines, when sec is its last section
\* and prev the last node behind that.
Growing(m, b, d, N, S, R, sec, prev) ==
  /\ Sound(m, b, N, S, R) /\ N \subseteq Nat /\ d \in R /\ d # NULL
  /\ Heads(m, d, N, S) /\ Subs(m, N, S, NULL) /\ NoOrphans(m, N, S)
  /\ Latest(S, sec) /\ Latest(Trailing(S, N), prev) /\ sec \in Nat /\ prev \in Nat

\* Where the list begins that the next node comes into.
LEMMA LastList ==
  ASSUME NEW m, NEW b, NEW d, NEW N, NEW S, NEW R, NEW sec, NEW prev, Growing(m, b, d, N, S, R, sec, prev)
  PROVE  /\ prev = NULL /\ sec = NULL => m[d].preamble = NULL
         /\ prev = NULL /\ sec # NULL => Detail(m, sec).sub = NULL
         /\ prev # NULL /\ sec = NULL => m[d].preamble # NULL
         /\ prev # NULL /\ sec # NULL => Detail(m, sec).sub # NULL
         /\ prev # NULL => prev \in N \ S
         /\ sec # NULL => sec \in S /\ sec \in N
         /\ NULL \notin N /\ S \subseteq N
<1>1. /\ S \subseteq N /\ NULL \notin N /\ N \subseteq Nat /\ S \subseteq Nat
      /\ Latest(S, sec) /\ Latest(Trailing(S, N), prev) /\ sec \in Nat /\ prev \in Nat
  <2>1. Body(m, b, N, S, R) /\ N \subseteq Nat
    BY DEF Growing, Sound
  <2>2. NULL \notin N
    BY <2>1, RootsAreApart
  <2>. QED  BY <2>1, <2>2 DEF Growing, Body, Sorts
<1>2. prev # NULL => prev \in N /\ \A s \in S : s < prev
  BY <1>1 DEF Latest, Trailing
<1>3. prev # NULL => prev \in N \ S
  <2>1. \A s \in S : ~(s < s)
    BY <1>1
  <2>. QED  BY <1>2, <2>1
<1>4. sec # NULL => sec \in S /\ \A s \in S : s <= sec
  BY <1>1 DEF Latest
<1>5. CASE sec = NULL
  <2>1. S = {} /\ First(Leading(S, N), m[d].preamble)
    BY <1>1, <1>5 DEF Growing, Heads, Latest
  <2>2. Leading(S, N) = N /\ Trailing(S, N) = N
    BY <2>1 DEF Leading, Trailing
  <2>3. prev = NULL => N = {}
    BY <1>1, <2>2 DEF Latest
  <2>. QED  BY <1>1, <1>2, <1>3, <1>5, <2>1, <2>2, <2>3 DEF First
<1>6. CASE sec # NULL
  <2>1. First(Leading(S, Behind(N, sec)), Detail(m, sec).sub)
    BY <1>4, <1>6 DEF Growing, Subs
  <2>2. ASSUME NEW c \in N, c > sec PROVE c \in Trailing(S, N)
    <3>1. \A s \in S : s < c
      <4>1. \A s \in S : s \in Nat /\ s <= sec
        BY <1>1, <1>4, <1>6
      <4>2. c \in Nat
        BY <1>1
      <4>. QED  BY <1>1, <2>2, <4>1, <4>2
    <3>. QED  BY <3>1 DEF Trailing
  <2>3. CASE prev = NULL
    <3>1. Trailing(S, N) = {}
      BY <1>1, <2>3 DEF Latest
    <3>2. Leading(S, Behind(N, sec)) = {}
      BY <2>2, <3>1 DEF Leading, Behind
    <3>. QED  BY <1>1, <1>4, <1>6, <2>1, <2>3, <3>2 DEF First
  <2>4. CASE prev # NULL
    <3>1. prev \in Behind(N, sec)
      BY <1>1, <1>2, <1>4, <1>6, <2>4 DEF Behind
    <3>2. S \cap Behind(N, sec) = {}
      <4>1. \A s \in S : s \in Nat /\ ~(s > sec)
        BY <1>1, <1>4, <1>6
      <4>. QED  BY <4>1 DEF Behind
    <3>3. prev \in Leading(S, Behind(N, sec))
      BY <3>1, <3>2 DEF Leading
    <3>4. Detail(m, sec).sub # NULL
      BY <2>1, <3>3 DEF First
    <3>. QED  BY <1>1, <1>3, <1>4, <1>6, <2>4, <3>4
  <2>. QED  BY <2>3, <2>4
<1>. QED  BY <1>5, <1>6

\* The same, in a heap that the new node is linked into.
LEMMA SectionLinked ==
  ASSUME NEW m, NEW b, NEW d, NEW N, NEW S, NEW R, NEW sec, NEW prev, Growing(m, b, d, N, S, R, sec, prev),
         NEW p, NEW m1, NEW b2, NEW a, NEW N2, NEW S2, Fresh(m, b, N, S, R, p, m1, b2, a, N2, S2), p.type = "section",
         NEW m2, sec = NULL => m2 = [m1 EXCEPT ![d] = [@ EXCEPT !.section = a]],
         sec # NULL => m2 = [m1 EXCEPT ![sec] = [@ EXCEPT !.next = a]]
  PROVE  Growing(m2, b2, d, N2, S2, R, a, NULL)
<1>1. /\ NULL \notin N /\ S \subseteq N
      /\ sec # NULL => sec \in S /\ sec \in N
  BY LastList
<1>2. /\ a \in Nat /\ a # NULL /\ Comes(N, S, a, N2, S2) /\ a \in S2
      /\ Body(m1, b2, N2, S2, R) /\ Same(m, m1, N) /\ (\A x \in R : m1[x] = m[x])
      /\ Type(m1, a) = "section" /\ m1[a].next = NULL /\ Detail(m1, a).sub = NULL
  BY DEF Fresh
<1>3. /\ N \in SUBSET Nat /\ S \in SUBSET N /\ (\A c \in N : c < a) /\ N2 = N \cup {a} /\ S2 = S \cup {a} /\ a \notin N
  <2>1. \A c \in N : c < a /\ c \in Nat
    BY <1>2 DEF Comes
  <2>2. a \notin N
    BY <1>2, <2>1
  <2>. QED  BY <1>2, <2>1, <2>2 DEF Comes
<1>4. /\ Links(m, N, S) /\ Heads(m, d, N, S) /\ Subs(m, N, S, NULL) /\ NoOrphans(m, N, S) /\ Latest(S, sec)
      /\ sec \in Nat /\ d \in R /\ d # NULL /\ Sorts(m, N, S)
  BY DEF Growing, Sound, Body
<1>5. m1[d] = m[d] /\ m[d] \in [preamble : Nat, section : Nat]
  BY <1>2, <1>4 DEF Heads
<1>6. \A s \in S : Type(m, s) = "section" /\ Type(m1, s) = "section" /\ Detail(m1, s) = Detail(m, s)
  <2>1. \A s \in S : s \in N /\ Type(m, s) = "section"
    BY <1>3, <1>4 DEF Sorts
  <2>. QED  BY <1>2, <2>1 DEF Same
<1>7. \A c \in N : m1[c] = m[c] /\ Type(m1, c) = Type(m, c)
  BY <1>2 DEF Same
<1>8. /\ Body(m2, b2, N2, S2, R)
      /\ \A c \in N2 : (c # sec => m2[c].next = m1[c].next) /\ Type(m2, c) = Type(m1, c)
      /\ \A s \in S2 : Detail(m2, s).sub = Detail(m1, s).sub
      /\ sec # NULL => m2[sec].next = a
      /\ m2[d] \in [preamble : Nat, section : Nat] /\ m2[d].preamble = m[d].preamble
      /\ m2[d].section = IF sec = NULL THEN a ELSE m[d].section
  <2>1. CASE sec = NULL
    <3>. DEFINE v == [m1[d] EXCEPT !.section = a]
    <3>1. m2 = [m1 EXCEPT ![d] = v]
      BY <2>1
    <3>2. v \in [preamble : Nat, section : Nat] /\ v.preamble = m[d].preamble /\ v.section = a
      BY <1>2, <1>5
    <3>3. d \in DOMAIN m1
      BY <1>2, <1>4, RootsAreApart
    <3>. HIDE DEF v
    <3>5. m2[d] = v /\ DOMAIN m2 = DOMAIN m1 /\ \A y \in DOMAIN m1 : y # d => m2[y] = m1[y]
      BY <3>1, <3>3
    <3>4. Body(m2, b2, N2, S2, R) /\ Same(m1, m2, N2)
      <4>1. Body(m1, b2, N2, S2, R) /\ d \in R
        BY <1>2, <1>4
      <4>. QED  BY ONLY <4>1, <3>5, FrameRoot
    <3>6. \A s \in S2 : Detail(m2, s) = Detail(m1, s)
      <4>1. \A s \in S2 : s \in N2 /\ Type(m1, s) = "section"
        BY <1>2, <1>3, <1>6
      <4>. QED  BY <3>4, <4>1 DEF Same
    <3>7. \A c \in N2 : m2[c].next = m1[c].next /\ Type(m2, c) = Type(m1, c)
      BY <3>4 DEF Same
    <3>8. m2[d] \in [preamble : Nat, section : Nat] /\ m2[d].preamble = m[d].preamble /\ m2[d].section = a
      BY <3>2, <3>5
    <3>9. \A s \in S2 : Detail(m2, s).sub = Detail(m1, s).sub
      BY <3>6
    <3>. QED  BY ONLY <2>1, <3>4, <3>7, <3>8, <3>9
  <2>2. CASE sec # NULL
    <3>1. sec \in S2 /\ sec \in N2 /\ sec \in N
      BY <1>1, <1>3, <2>2
    <3>2. sec \in DOMAIN m1 /\ R \subseteq DOMAIN m1
      BY <1>2, <3>1, RootsAreApart
    <3>. DEFINE N0 == N2 \ {sec}
                v == [m1[sec] EXCEPT !.next = a]
    <3>3. m2 = [m1 EXCEPT ![sec] = v]
      BY <2>2
    <3>4. DOMAIN m2 = DOMAIN m1 /\ m2[sec] = v /\ \A y \in DOMAIN m1 \ {sec} : m2[y] = m1[y]
      <4>. HIDE DEF v
      <4>. QED  BY <3>2, <3>3
    <3>5. /\ Body(m2, b2, N2, S2, R) /\ Same(m1, m2, N0)
          /\ m2[sec].next = a /\ Type(m2, sec) = Type(m1, sec) /\ (Type(m1, sec) # "blank" => Detail(m2, sec) = Detail(m1, sec))
          /\ \A r \in R : m2[r] = m1[r]
      <4>1. ASSUME NEW X, X = N0
            PROVE  /\ Body(m2, b2, N2, S2, R) /\ Same(m1, m2, X)
                   /\ m2[sec].next = a /\ Type(m2, sec) = Type(m1, sec) /\ (Type(m1, sec) # "blank" => Detail(m2, sec) = Detail(m1, sec))
                   /\ \A r \in R : m2[r] = m1[r]
        <5>1. X = N2 \ {sec} /\ Body(m1, b2, N2, S2, R) /\ a \in Nat
          BY <1>2, <4>1
        <5>. QED  BY ONLY <5>1, <3>1, <3>4, SetNext
      <4>. QED  BY <4>1
    <3>6. \A c \in N2 : c # sec => m2[c] = m1[c] /\ Type(m2, c) = Type(m1, c) /\ (Type(m1, c) # "blank" => Detail(m2, c) = Detail(m1, c))
      BY <3>5 DEF Same
    <3>7. \A s \in S2 : s \in N2 /\ Type(m1, s) = "section"
      BY <1>2, <1>3, <1>6
    <3>8. \A s \in S2 : Detail(m2, s) = Detail(m1, s)
      BY <3>5, <3>6, <3>7
    <3>9. m2[d] = m[d]
      BY <1>4, <1>5, <3>5
    <3>10. \A c \in N2 : (c # sec => m2[c].next = m1[c].next) /\ Type(m2, c) = Type(m1, c)
      BY <3>5, <3>6
    <3>. HIDE DEF N0, v
    <3>11. m2[d] \in [preamble : Nat, section : Nat] /\ m2[d].preamble = m[d].preamble /\ m2[d].section = m[d].section
      BY <1>5, <3>9
    <3>12. \A s \in S2 : Detail(m2, s).sub = Detail(m1, s).sub
      BY <3>8
    <3>13. Body(m2, b2, N2, S2, R) /\ m2[sec].next = a
      BY <3>5
    <3>. QED  BY ONLY <2>2, <3>10, <3>11, <3>12, <3>13
  <2>. QED  BY <2>1, <2>2
<1>9. /\ \A c \in N : c # sec => m2[c].next = m[c].next
      /\ \A c \in N : Type(m2, c) = "item" <=> Type(m, c) = "item"
      /\ Type(m2, a) # "item"
      /\ \A s \in S : Detail(m2, s).sub = Detail(m, s).sub
      /\ Detail(m2, a).sub = NULL
  BY <1>2, <1>3, <1>6, <1>7, <1>8
<1>10. m2[a].next = NULL
  <2>1. a # sec
    BY <1>1, <1>2, <1>3
  <2>. QED  BY <1>2, <1>3, <1>8, <2>1
<1>11. /\ Links(m2, N2, S2) /\ Heads(m2, d, N2, S2) /\ Subs(m2, N2, S2, NULL) /\ NoOrphans(m2, N2, S2)
       /\ Latest(S2, a) /\ Latest(Trailing(S2, N2), NULL)
  <2>1. /\ NULL \notin N /\ a # NULL /\ Comes(N, S, a, N2, S2) /\ a \in S2
        /\ Links(m, N, S) /\ Heads(m, d, N, S) /\ Subs(m, N, S, NULL) /\ NoOrphans(m, N, S)
        /\ Latest(S, sec) /\ sec \in Nat
    BY <1>1, <1>2, <1>4
  <2>2. /\ sec # NULL => m2[sec].next = a
        /\ m2[d] \in [preamble : Nat, section : Nat] /\ m2[d].preamble = m[d].preamble
        /\ m2[d].section = IF sec = NULL THEN a ELSE m[d].section
    BY <1>8
  <2>. QED  BY ONLY <2>1, <2>2, <1>9, <1>10, SectionAdded
<1>12. N2 \subseteq Nat /\ NULL \in Nat
  BY <1>2, <1>3 DEF NULL
<1>. QED  BY <1>2, <1>4, <1>8, <1>11, <1>12 DEF Growing, Sound

\* Linking a node at the end of its list keeps the lists in order.
LEMMA NodeLinked ==
  ASSUME NEW m, NEW b, NEW d, NEW N, NEW S, NEW R, NEW sec, NEW prev, Growing(m, b, d, N, S, R, sec, prev),
         NEW p, NEW m1, NEW b2, NEW a, NEW N2, NEW S2, Fresh(m, b, N, S, R, p, m1, b2, a, N2, S2), p.type # "section",
         p.type = "item" => sec # NULL,
         NEW m2, prev # NULL => m2 = [m1 EXCEPT ![prev] = [@ EXCEPT !.next = a]],
         prev = NULL /\ sec # NULL => m2 = [m1 EXCEPT ![m1[sec].detail] = [@ EXCEPT !.sub = a]],
         prev = NULL /\ sec = NULL => m2 = [m1 EXCEPT ![d] = [@ EXCEPT !.preamble = a]]
  PROVE  Growing(m2, b2, d, N2, S2, R, sec, a)
<1>1. /\ NULL \notin N /\ S \subseteq N
      /\ sec # NULL => sec \in S /\ sec \in N
      /\ prev # NULL => prev \in N \ S
  BY LastList
<1>2. /\ a \in Nat /\ a # NULL /\ Comes(N, S, a, N2, S2) /\ a \notin S2
      /\ Body(m1, b2, N2, S2, R) /\ Same(m, m1, N) /\ (\A x \in R : m1[x] = m[x])
      /\ Type(m1, a) = p.type /\ m1[a].next = NULL
  BY DEF Fresh
<1>3. /\ N \in SUBSET Nat /\ S \in SUBSET N /\ (\A c \in N : c < a) /\ N2 = N \cup {a} /\ S2 = S /\ a \notin N
  <2>1. \A c \in N : c < a /\ c \in Nat
    BY <1>2 DEF Comes
  <2>2. a \notin N
    BY <1>2, <2>1
  <2>. QED  BY <1>2, <2>1, <2>2 DEF Comes
<1>4. /\ Links(m, N, S) /\ Heads(m, d, N, S) /\ Subs(m, N, S, NULL) /\ NoOrphans(m, N, S) /\ Latest(S, sec)
      /\ Latest(Trailing(S, N), prev) /\ sec \in Nat /\ d \in R /\ d # NULL /\ Sorts(m, N, S)
  BY DEF Growing, Sound, Body
<1>5. m1[d] = m[d] /\ m[d] \in [preamble : Nat, section : Nat] /\ m1[d] \in [preamble : Nat, section : Nat]
  BY <1>2, <1>4 DEF Heads
<1>6. \A s \in S : Type(m, s) = "section" /\ Type(m1, s) = "section" /\ Detail(m1, s) = Detail(m, s)
  <2>1. \A s \in S : s \in N /\ Type(m, s) = "section"
    BY <1>3, <1>4 DEF Sorts
  <2>. QED  BY <1>2, <2>1 DEF Same
<1>7. \A c \in N : m1[c] = m[c] /\ Type(m1, c) = Type(m, c)
  BY <1>2 DEF Same
<1>8. /\ Body(m2, b2, N2, S2, R)
      /\ \A c \in N2 : (c # prev => m2[c].next = m1[c].next) /\ Type(m2, c) = Type(m1, c)
      /\ prev # NULL => m2[prev].next = a
      /\ \A s \in S : Detail(m2, s).sub = IF prev = NULL /\ s = sec THEN a ELSE Detail(m1, s).sub
      /\ m2[d] \in [preamble : Nat, section : Nat] /\ m2[d].section = m[d].section
      /\ m2[d].preamble = IF prev = NULL /\ sec = NULL THEN a ELSE m[d].preamble
  <2>1. CASE prev = NULL /\ sec = NULL
    <3>. DEFINE v == [m1[d] EXCEPT !.preamble = a]
    <3>1. m2 = [m1 EXCEPT ![d] = v]
      BY <2>1
    <3>2. v \in [preamble : Nat, section : Nat] /\ v.section = m[d].section /\ v.preamble = a
      BY <1>2, <1>5
    <3>3. d \in DOMAIN m1
      BY <1>2, <1>4, RootsAreApart
    <3>. HIDE DEF v
    <3>5. m2[d] = v /\ DOMAIN m2 = DOMAIN m1 /\ \A y \in DOMAIN m1 : y # d => m2[y] = m1[y]
      BY <3>1, <3>3
    <3>4. Body(m2, b2, N2, S2, R) /\ Same(m1, m2, N2)
      <4>1. Body(m1, b2, N2, S2, R) /\ d \in R
        BY <1>2, <1>4
      <4>. QED  BY ONLY <4>1, <3>5, FrameRoot
    <3>6. \A s \in S : Detail(m2, s) = Detail(m1, s)
      <4>1. \A s \in S : s \in N2 /\ Type(m1, s) = "section"
        BY <1>3, <1>6
      <4>. QED  BY <3>4, <4>1 DEF Same
    <3>7. \A c \in N2 : m2[c].next = m1[c].next /\ Type(m2, c) = Type(m1, c)
      BY <3>4 DEF Same
    <3>8. m2[d] \in [preamble : Nat, section : Nat] /\ m2[d].section = m[d].section /\ m2[d].preamble = a
      BY <3>2, <3>5
    <3>9. \A s \in S : s # sec /\ Detail(m2, s).sub = Detail(m1, s).sub
      BY <1>1, <1>3, <2>1, <3>6
    <3>. QED  BY ONLY <2>1, <3>4, <3>7, <3>8, <3>9
  <2>2. CASE prev = NULL /\ sec # NULL
    <3>1. sec \in S2 /\ sec \in N2 /\ sec \in S /\ Type(m1, sec) = "section"
      BY <1>1, <1>3, <1>6, <2>2
    <3>2. Shape(m1, sec) /\ m1[sec].detail \in DOMAIN m1 /\ Detail(m1, sec) \in [name : Nat, sub : Nat]
      <4>1. Shape(m1, sec)
        BY <1>2, <3>1 DEF Body
      <4>. QED  BY <3>1, <4>1 DEF Shape
    <3>. DEFINE N0 == N2 \ {sec}
                v == [Detail(m1, sec) EXCEPT !.sub = a]
    <3>3. m2 = [m1 EXCEPT ![m1[sec].detail] = v]
      BY <2>2 DEF Detail
    <3>4. /\ DOMAIN m2 = DOMAIN m1 /\ m2[m1[sec].detail] = v
          /\ \A y \in DOMAIN m1 \ {m1[sec].detail} : m2[y] = m1[y]
      <4>. HIDE DEF v
      <4>. QED  BY <3>2, <3>3
    <3>5. /\ Body(m2, b2, N2, S2, R) /\ Same(m1, m2, N0)
          /\ m2[sec] = m1[sec] /\ Type(m2, sec) = Type(m1, sec) /\ Detail(m2, sec).sub = a
          /\ \A r \in R : m2[r] = m1[r]
      <4>1. ASSUME NEW X, X = N0
            PROVE  /\ Body(m2, b2, N2, S2, R) /\ Same(m1, m2, X)
                   /\ m2[sec] = m1[sec] /\ Type(m2, sec) = Type(m1, sec) /\ Detail(m2, sec).sub = a
                   /\ \A r \in R : m2[r] = m1[r]
        <5>1. X = N2 \ {sec} /\ Body(m1, b2, N2, S2, R) /\ a \in Nat
          BY <1>2, <4>1
        <5>. QED  BY ONLY <5>1, <3>1, <3>4, SetSub
      <4>. QED  BY <4>1
    <3>6. \A c \in N2 : c # sec => m2[c] = m1[c] /\ Type(m2, c) = Type(m1, c) /\ (Type(m1, c) # "blank" => Detail(m2, c) = Detail(m1, c))
      BY <3>5 DEF Same
    <3>7. \A s \in S : s \in N2 /\ Type(m1, s) = "section"
      BY <1>3, <1>6
    <3>8. \A s \in S : s # sec => Detail(m2, s).sub = Detail(m1, s).sub
      BY <3>6, <3>7
    <3>9. m2[d] = m[d]
      BY <1>4, <1>5, <3>5
    <3>10. \A c \in N2 : m2[c].next = m1[c].next /\ Type(m2, c) = Type(m1, c)
      BY <3>5, <3>6
    <3>. HIDE DEF N0, v
    <3>11. m2[d] \in [preamble : Nat, section : Nat] /\ m2[d].section = m[d].section /\ m2[d].preamble = m[d].preamble
      BY <1>5, <3>9
    <3>13. Body(m2, b2, N2, S2, R) /\ Detail(m2, sec).sub = a
      BY <3>5
    <3>. QED  BY ONLY <2>2, <3>8, <3>10, <3>11, <3>13
  <2>3. CASE prev # NULL
    <3>1. prev \in N2 /\ prev \in N
      BY <1>1, <1>3, <2>3
    <3>2. prev \in DOMAIN m1 /\ R \subseteq DOMAIN m1
      BY <1>2, <3>1, RootsAreApart
    <3>. DEFINE N0 == N2 \ {prev}
                v == [m1[prev] EXCEPT !.next = a]
    <3>3. m2 = [m1 EXCEPT ![prev] = v]
      BY <2>3
    <3>4. DOMAIN m2 = DOMAIN m1 /\ m2[prev] = v /\ \A y \in DOMAIN m1 \ {prev} : m2[y] = m1[y]
      <4>. HIDE DEF v
      <4>. QED  BY <3>2, <3>3
    <3>5. /\ Body(m2, b2, N2, S2, R) /\ Same(m1, m2, N0)
          /\ m2[prev].next = a /\ Type(m2, prev) = Type(m1, prev)
          /\ \A r \in R : m2[r] = m1[r]
      <4>1. ASSUME NEW X, X = N0
            PROVE  /\ Body(m2, b2, N2, S2, R) /\ Same(m1, m2, X)
                   /\ m2[prev].next = a /\ Type(m2, prev) = Type(m1, prev)
                   /\ \A r \in R : m2[r] = m1[r]
        <5>1. X = N2 \ {prev} /\ Body(m1, b2, N2, S2, R) /\ a \in Nat
          BY <1>2, <4>1
        <5>. QED  BY ONLY <5>1, <3>1, <3>4, SetNext
      <4>. QED  BY <4>1
    <3>6. \A c \in N2 : c # prev => m2[c] = m1[c] /\ Type(m2, c) = Type(m1, c) /\ (Type(m1, c) # "blank" => Detail(m2, c) = Detail(m1, c))
      BY <3>5 DEF Same
    <3>7. \A s \in S : s \in N2 /\ Type(m1, s) = "section" /\ s # prev
      BY <1>1, <1>3, <1>6, <2>3
    <3>8. \A s \in S : Detail(m2, s).sub = Detail(m1, s).sub
      BY <3>6, <3>7
    <3>9. m2[d] = m[d]
      BY <1>4, <1>5, <3>5
    <3>10. \A c \in N2 : (c # prev => m2[c].next = m1[c].next) /\ Type(m2, c) = Type(m1, c)
      BY <3>5, <3>6
    <3>. HIDE DEF N0, v
    <3>11. m2[d] \in [preamble : Nat, section : Nat] /\ m2[d].section = m[d].section /\ m2[d].preamble = m[d].preamble
      BY <1>5, <3>9
    <3>13. Body(m2, b2, N2, S2, R) /\ m2[prev].next = a
      BY <3>5
    <3>. QED  BY ONLY <2>3, <3>8, <3>10, <3>11, <3>13
  <2>. QED  BY <2>1, <2>2, <2>3
<1>9. /\ \A c \in N : c # prev => m2[c].next = m[c].next
      /\ \A c \in N : Type(m2, c) = "item" <=> Type(m, c) = "item"
      /\ Type(m2, a) = "item" => sec # NULL
      /\ \A s \in S : Detail(m2, s).sub = IF prev = NULL /\ s = sec THEN a ELSE Detail(m, s).sub
  BY <1>2, <1>3, <1>6, <1>7, <1>8
<1>10. m2[a].next = NULL
  <2>1. a # prev
    BY <1>1, <1>2, <1>3
  <2>. QED  BY <1>2, <1>3, <1>8, <2>1
<1>11. /\ Links(m2, N2, S2) /\ Heads(m2, d, N2, S2) /\ Subs(m2, N2, S2, NULL) /\ NoOrphans(m2, N2, S2)
       /\ Latest(S2, sec) /\ Latest(Trailing(S2, N2), a)
  <2>1. /\ NULL \notin N /\ a # NULL /\ Comes(N, S, a, N2, S2) /\ a \notin S2
        /\ Links(m, N, S) /\ Heads(m, d, N, S) /\ Subs(m, N, S, NULL) /\ NoOrphans(m, N, S)
        /\ Latest(S, sec) /\ Latest(Trailing(S, N), prev)
    BY <1>1, <1>2, <1>4
  <2>2. /\ prev # NULL => m2[prev].next = a
        /\ m2[d] \in [preamble : Nat, section : Nat] /\ m2[d].section = m[d].section
        /\ m2[d].preamble = IF prev = NULL /\ sec = NULL THEN a ELSE m[d].preamble
    BY <1>8
  <2>. QED  BY ONLY <2>1, <2>2, <1>9, <1>10, NodeAdded
<1>12. N2 \subseteq Nat
  BY <1>2, <1>3
<1>. QED  BY <1>2, <1>4, <1>8, <1>11, <1>12 DEF Growing, Sound

\* What the loop of __parse_from() does with a line.
LEMMA LineLinked ==
  ASSUME NEW N, NEW S, NEW R, Growing(mem, brk, doc, N, S, R, parse.section, parse.prev),
         NEW p, NEW m1, NEW b2, NEW a, NEW N2, NEW S2, Fresh(mem, brk, N, S, R, p, m1, b2, a, N2, S2),
         p.type = "item" => parse.section # NULL,
         NEW m2, m2 = AsNext(AsHead(m1, a), a)
  PROVE  Growing(m2, b2, doc, N2, S2, R, IF p.type = "section" THEN a ELSE parse.section, Prev(m1, a))
<1>. DEFINE sec == parse.section
            prev == parse.prev
<1>1. /\ prev = NULL /\ sec = NULL => mem[doc].preamble = NULL
      /\ prev = NULL /\ sec # NULL => Detail(mem, sec).sub = NULL
      /\ prev # NULL /\ sec = NULL => mem[doc].preamble # NULL
      /\ prev # NULL /\ sec # NULL => Detail(mem, sec).sub # NULL
      /\ sec # NULL => sec \in S /\ sec \in N
      /\ prev # NULL => prev \in N \ S
      /\ NULL \notin N /\ S \subseteq N
  BY LastList
<1>2. /\ Type(m1, a) = p.type /\ Same(mem, m1, N) /\ (\A x \in R : m1[x] = mem[x]) /\ a \in N2 /\ a \notin N /\ N2 = N \cup {a}
      /\ Body(m1, b2, N2, S2, R) /\ S2 \subseteq N2
  <2>1. /\ Type(m1, a) = p.type /\ Same(mem, m1, N) /\ (\A x \in R : m1[x] = mem[x]) /\ Body(m1, b2, N2, S2, R)
        /\ Comes(N, S, a, N2, S2)
    BY DEF Fresh
  <2>2. a \in Nat /\ (\A c \in N : c \in Nat /\ c < a) /\ N2 = N \cup {a}
    BY <2>1 DEF Comes
  <2>3. a \notin N
    BY <2>2
  <2>. QED  BY <2>1, <2>2, <2>3 DEF Body, Sorts
<1>3. doc \in R /\ Sorts(mem, N, S)
  BY DEF Growing, Sound, Body
<1>4. m1[doc] = mem[doc] /\ (sec # NULL => Detail(m1, sec) = Detail(mem, sec) /\ m1[sec] = mem[sec])
  <2>1. sec # NULL => sec \in N /\ Type(mem, sec) # "blank"
    BY <1>1, <1>3 DEF Sorts
  <2>. QED  BY <1>2, <1>3, <2>1 DEF Same
<1>5. CASE p.type = "section"
  <2>1. Type(m1, a) = "section"
    BY <1>2, <1>5
  <2>2. sec = NULL => AsHead(m1, a) = [m1 EXCEPT ![doc] = [@ EXCEPT !.section = a]]
    BY <2>1 DEF AsHead
  <2>3. sec # NULL => AsHead(m1, a) = [m1 EXCEPT ![sec] = [@ EXCEPT !.next = a]]
    BY <2>1 DEF AsHead
  <2>4. a # sec /\ a # doc
    <3>1. R \cap Covered(m1, N2) = {} /\ N2 \subseteq Covered(m1, N2)
      BY <1>2, RootsAreApart
    <3>2. a # NULL
      BY DEF Fresh
    <3>. QED  BY <1>1, <1>2, <1>3, <3>1, <3>2
  <2>5. AsHead(m1, a)[a] = m1[a]
    <3>1. a \in DOMAIN m1
      BY <1>2, RootsAreApart
    <3>. QED  BY <2>2, <2>3, <2>4, <3>1
  <2>6. Type(AsHead(m1, a), a) = "section"
    BY <2>1, <2>5 DEF Type
  <2>7. m2 = AsHead(m1, a)
    BY <2>6 DEF AsNext
  <2>8. Prev(m1, a) = NULL
    BY <2>1 DEF Prev
  <2>9. Growing(m2, b2, doc, N2, S2, R, a, NULL)
    BY <1>5, <2>2, <2>3, <2>7, SectionLinked
  <2>. QED  BY <1>5, <2>8, <2>9
<1>6. CASE p.type # "section"
  <2>1. Type(m1, a) # "section"
    BY <1>2, <1>6
  <2>2. prev # NULL => AsHead(m1, a) = m1
    BY <1>1, <1>4, <2>1 DEF AsHead
  <2>3. prev = NULL /\ sec # NULL => AsHead(m1, a) = [m1 EXCEPT ![m1[sec].detail] = [@ EXCEPT !.sub = a]]
    BY <1>1, <1>4, <2>1 DEF AsHead
  <2>4. prev = NULL /\ sec = NULL => AsHead(m1, a) = [m1 EXCEPT ![doc] = [@ EXCEPT !.preamble = a]]
    BY <1>1, <1>4, <2>1 DEF AsHead
  <2>5. prev # NULL => m2 = [m1 EXCEPT ![prev] = [@ EXCEPT !.next = a]]
    BY <2>1, <2>2 DEF AsNext
  <2>6. prev = NULL => m2 = AsHead(m1, a)
    BY DEF AsNext
  <2>7. Prev(m1, a) = a
    BY <2>1 DEF Prev
  <2>8. Growing(m2, b2, doc, N2, S2, R, sec, a)
    <3>1. p.type = "item" => sec # NULL
      OBVIOUS
    <3>. QED  BY <1>6, <2>3, <2>4, <2>5, <2>6, <3>1, NodeLinked
  <2>. QED  BY <1>6, <2>7, <2>8
<1>. QED  BY <1>5, <1>6

-----------------------------------------------------------------------------
\* Steps of the program, and what they leave as it is.

\* The members of an object.
Members == [alive : BOOLEAN, err : {"OK", "NOT_INITIALIZED"}, doc : Nat, path : Nat, map : Nat, synced : BOOLEAN]

\* The objects are as before, but for the ghost.
Alike ==
  /\ obj' \in [Obj -> Members] /\ building' = building
  /\ \A o \in Obj : /\ obj'[o].alive = obj[o].alive /\ obj'[o].err = obj[o].err /\ obj'[o].doc = obj[o].doc
                    /\ obj'[o].path = obj[o].path /\ obj'[o].map = obj[o].map

\* The program leaves the objects alone while it parses, edits and dumps.
LEMMA ObjectsAlike ==
  ASSUME Types, ProgramStep
  PROVE  Alike
<1>1. obj \in [Obj -> Members] /\ building' = building
  BY DEF Types, ProgramStep, Members
<1>2. CASE obj' = obj
  BY <1>1, <1>2 DEF Alike
<1>3. CASE obj' = [o \in Obj |-> [obj[o] EXCEPT !.synced = FALSE]]
  <2>1. ASSUME NEW o \in Obj
        PROVE  /\ obj'[o] \in Members
               /\ obj'[o].alive = obj[o].alive /\ obj'[o].err = obj[o].err /\ obj'[o].doc = obj[o].doc
               /\ obj'[o].path = obj[o].path /\ obj'[o].map = obj[o].map
    <3>1. obj[o] \in Members /\ obj'[o] = [obj[o] EXCEPT !.synced = FALSE]
      BY <1>1, <1>3
    <3>. QED  BY <3>1 DEF Members
  <2>2. obj' \in [Obj -> Members]
    BY <1>3, <2>1
  <2>. QED  BY <1>1, <2>1, <2>2 DEF Alike
<1>. QED  BY <1>2, <1>3 DEF ProgramStep

\* So each owns what it did.
LEMMA OwnersKept ==
  ASSUME Alike
  PROVE  \A o \in Obj : Owned(o)' = Owned(o)
BY DEF Alike, Owned

\* The roots are the same, or one less.
LEMMA RootsKept ==
  ASSUME Alike, RootsApart, doc' = doc, parse'.buf = parse.buf, lost' = lost
  PROVE  Roots' = Roots /\ RootsApart'
<1>1. \A o \in Obj : Owned(o)' = Owned(o) /\ obj'[o].path = obj[o].path /\ obj'[o].map = obj[o].map
  BY OwnersKept DEF Alike
<1>2. Held' = Held
  BY <1>1 DEF Held
<1>3. Roots' = Roots
  BY <1>2 DEF Roots
<1>4. RootsApart'
  BY <1>1 DEF RootsApart
<1>. QED  BY <1>3, <1>4

\* When the line buffer is freed, it is no root any more.
LEMMA BufferRootGone ==
  ASSUME Alike, RootsApart, doc' = doc, doc # NULL, parse'.buf = NULL, lost' = lost
  PROVE  Roots' = Roots \ {parse.buf} /\ RootsApart'
<1>1. \A o \in Obj : Owned(o)' = Owned(o) /\ obj'[o].path = obj[o].path /\ obj'[o].map = obj[o].map
  BY OwnersKept DEF Alike
<1>2. Held' = Held
  BY <1>1 DEF Held
<1>3. parse.buf \notin Held
  BY DEF RootsApart, Held
<1>4. NULL \notin Held
  BY DEF Held, Owned
<1>5. Roots' = ({doc} \ {NULL}) \cup Held \cup lost
  BY <1>2 DEF Roots
<1>6. Roots = ({doc, parse.buf} \ {NULL}) \cup Held \cup lost
  BY DEF Roots
<1>7. parse.buf \notin lost /\ doc # parse.buf /\ NULL \notin lost
  BY DEF RootsApart
<1>8. Roots' = Roots \ {parse.buf}
  <2>2. \A y : y \in Roots' <=> y \in Roots /\ y # parse.buf
    BY <1>3, <1>4, <1>5, <1>6, <1>7
  <2>6. \A y : y \in Roots \ {parse.buf} <=> y \in Roots /\ y # parse.buf
    OBVIOUS
  <2>. QED  BY <2>2, <2>6
<1>9. RootsApart'
  <2>1. {NULL, doc', parse'.buf} \cap lost' = {}
    BY DEF RootsApart
  <2>2. \A o \in Obj : Owned(o)' \cap ({doc', parse'.buf} \cup lost') = {}
    BY <1>1 DEF RootsApart, Owned
  <2>3. \A o \in Obj : obj'[o].path = obj'[o].map => obj'[o].path = NULL
    BY <1>1 DEF RootsApart
  <2>5. \A o \in Obj : \A p \in Obj \ {o} : Owned(o)' \cap Owned(p)' = {}
    BY <1>1 DEF RootsApart
  <2>4. doc' = parse'.buf => doc' = NULL
    OBVIOUS
  <2>. QED  BY ONLY <2>1, <2>2, <2>3, <2>4, <2>5 DEF RootsApart
<1>. QED  BY <1>8, <1>9

\* The rules for objects hold as long as they are alike.
LEMMA ObjectsKept ==
  ASSUME Alike, Objects, walk'.job = "map" => walk.job = "map"
  PROVE  Objects'
<1>1. ASSUME walk'.job = "map" PROVE building' \in Obj /\ obj'[building'].map # NULL /\ obj'[building'].alive
  <2>1. building \in Obj /\ obj[building].map # NULL /\ obj[building].alive /\ building' = building
    BY <1>1 DEF Alike, Objects
  <2>2. obj'[building].map = obj[building].map /\ obj'[building].alive = obj[building].alive
    BY <2>1 DEF Alike
  <2>. QED  BY <2>1, <2>2
<1>2. ASSUME NEW o \in Obj
      PROVE  /\ obj'[o].doc = NULL <=> obj'[o].map = NULL
             /\ obj'[o].err = "OK" => obj'[o].map # NULL
             /\ ~obj'[o].alive => obj'[o].map = NULL /\ obj'[o].path = NULL
  BY DEF Alike, Objects
<1>. QED  BY <1>1, <1>2 DEF Objects

\* The types of the three records.
WalkType == [job : Jobs, header : {0, 1, 2}, outer : Nat, sec : Nat, inner : Nat, name : Nat, count : Nat]
ParseType == [rest : Word, section : Nat, prev : Nat, strip : BOOLEAN, is_str : BOOLEAN, buf : Nat]
BufType == [size : Nat, first : Nat, total : Nat, used : Nat, allow_resizing : BOOLEAN]

\* The records before their use are of these types.
LEMMA NothingTypes == NoWalk \in WalkType /\ NoWalk.job = "none" /\ NoParse \in ParseType /\ NoBuf \in BufType
<1>1. NoWalk \in WalkType /\ NoWalk.job = "none"
  BY DEF NoWalk, WalkType, Jobs, NULL
<1>2. NoParse \in ParseType
  BY EmptyWord DEF NoParse, ParseType, NULL
<1>3. NoBuf \in BufType
  BY DEF NoBuf, BufType
<1>. QED  BY <1>1, <1>2, <1>3

\* A traversal begins with all nodes before it.
LEMMA WalkBegins ==
  ASSUME NEW job \in Jobs, job # "none", NEW N, N \subseteq Nat, NEW S, S \subseteq N, Begin(job),
         doc' = doc, mem'[doc] = mem[doc], Heads(mem, doc, N, S)
  PROVE  Walking(N, S, N)' /\ walk' \in WalkType /\ walk'.job = job /\ walk'.sec = NULL
<1>1. mem[doc] \in [preamble : Nat, section : Nat] /\ mem[doc].preamble \in Nat
  BY DEF Heads
<1>2. walk' = [job |-> job, header |-> 1, outer |-> mem[doc].preamble, sec |-> 0, inner |-> 0, name |-> 0, count |-> 0]
  BY DEF Begin, NoWalk, NULL
<1>3. /\ walk' \in WalkType /\ walk'.job = job /\ walk'.header = 1 /\ walk'.outer = mem[doc].preamble
      /\ walk'.sec = NULL /\ walk'.inner = NULL /\ walk'.name = NULL
  BY <1>1, <1>2 DEF WalkType, NULL
<1>4. S \cap N = S /\ First(Leading(S, N), mem[doc].preamble) /\ First(S, mem[doc].section)
  BY DEF Heads
<1>5. First(Leading(S, N), walk'.outer) /\ mem'[doc'] \in [preamble : Nat, section : Nat] /\ First(S \cap N, mem'[doc'].section)
  BY <1>1, <1>3, <1>4
<1>6. \A b \in N, c \in N : c > b => c \in N
  OBVIOUS
<1>7. N \ N = {walk'.sec} \ {NULL}
  BY <1>3
<1>. QED  BY <1>3, <1>5, <1>6, <1>7 DEF Walking, Idle

\* What is allocated for a line that fails is freed, with the line buffer.
LEMMA FailedHeap ==
  ASSUME brk \in Nat, DOMAIN mem \subseteq 1..brk, NEW bl, NEW k \in Nat, k # 0, Len(bl) = k - 1
  PROVE  Freed(Allocated(mem, brk, bl), FreeStatements(k)) = Freed(mem, {parse.buf})
<1>. SUFFICES ASSUME NEW m, m = mem, NEW b, b = brk, NEW x, x = parse.buf
              PROVE  Freed(Allocated(m, b, bl), {b + i : i \in 1..k - 1} \cup {x}) = Freed(m, {x})
  BY DEF FreeStatements
<1>1. \A y \in DOMAIN m : y \in Nat /\ y <= b
  OBVIOUS
<1>2. {b + i : i \in 1..k - 1} = b + 1..b + Len(bl)
  <2>1. \A y \in b + 1..b + Len(bl) : y - b \in 1..k - 1 /\ y = b + (y - b)
    OBVIOUS
  <2>. QED  BY <2>1
<1>. DEFINE m1 == Allocated(m, b, bl)
            X == b + 1..b + Len(bl)
<1>3. m1 = [y \in DOMAIN m \cup X |-> IF y \in DOMAIN m THEN m[y] ELSE bl[y - b]]
  BY DEF Allocated
<1>4. DOMAIN m \cap X = {}
  BY <1>1
<1>. HIDE DEF m1, X
<1>5. DOMAIN m1 \ (X \cup {x}) = DOMAIN m \ {x} /\ \A y \in DOMAIN m : m1[y] = m[y]
  BY <1>3, <1>4
<1>6. Freed(m1, X \cup {x}) = Freed(m, {x})
  BY <1>5 DEF Freed
<1>. QED  BY <1>2, <1>6 DEF m1, X

\* What a step of the parser may rely on.
Reading(N, S) ==
  /\ pc = "parsing" /\ Idle /\ doc # NULL /\ doc \in Nat /\ doc \in Roots /\ parse.buf # NULL /\ parse.buf \in Roots
  /\ Growing(mem, brk, doc, N, S, Roots, parse.section, parse.prev) /\ S \subseteq N
  /\ parse \in ParseType

\* While a text is parsed, the document can grow.
LEMMA ReadingIs ==
  ASSUME NEW N \in SUBSET Nat, NEW S, NEW B, Good(N, S, B), pc = "parsing", Idle
  PROVE  Reading(N, S)
<1>1. doc # NULL /\ parse.buf # NULL
  BY DEF Good, Phases
<1>2. doc \in Roots /\ parse.buf \in Roots
  BY <1>1 DEF Roots
<1>3. walk.job = "none"
  BY DEF Idle
<1>4. Subs(mem, N, S, NULL) /\ Heads(mem, doc, N, S) /\ NoOrphans(mem, N, S)
  BY <1>1, <1>3 DEF Good, Document
<1>5. Latest(S, parse.section) /\ Latest(Trailing(S, N), parse.prev)
  BY DEF Good, Parsing
<1>6. parse \in ParseType /\ parse.section \in Nat /\ parse.prev \in Nat /\ doc \in Nat
  BY DEF Good, Types, ParseType
<1>7. Sound(mem, brk, N, S, Roots) /\ S \subseteq N
  BY DEF Good, Sound, Body, Sorts
<1>. QED  BY <1>1, <1>2, <1>4, <1>5, <1>6, <1>7 DEF Reading, Growing

\* The parser gives up: all is destroyed.
LEMMA ParseFailsKeeps ==
  ASSUME NEW N \in SUBSET Nat, NEW S \in SUBSET Nat, NEW B, Good(N, S, B), pc = "parsing", Idle, Alike,
         mem' = Freed(mem, {parse.buf}), Begin("destroy"), parse' = NoParse,
         UNCHANGED <<brk, pc, doc, buf, settings, text, dumped, lost, parses, ops>>
  PROVE  Good(N, S, N)'
<1>1. Reading(N, S)
  BY ReadingIs
<1>2. /\ Types /\ Sound(mem, brk, N, S, Roots) /\ RootsApart /\ Objects /\ Phases(N) /\ doc # NULL
      /\ Heads(mem, doc, N, S) /\ Subs(mem, N, S, NULL) /\ S \subseteq N
  BY <1>1 DEF Good, Reading, Growing
<1>3. parse'.buf = NULL /\ parse'.section = NULL /\ parse'.prev = NULL /\ parse' \in ParseType
  BY NothingTypes DEF NoParse
<1>4. Roots' = Roots \ {parse.buf} /\ RootsApart'
  BY <1>2, <1>3, BufferRootGone
<1>5. Sound(mem', brk', N, S, Roots') /\ Same(mem, mem', N)
  <2>1. {parse.buf} \cap Covered(mem, N) = {}
    BY <1>1, RootsAreApart DEF Reading, Growing, Sound
  <2>2. Sound(Freed(mem, {parse.buf}), brk, N, S, Roots \ {parse.buf}) /\ Same(mem, Freed(mem, {parse.buf}), N)
    BY <1>2, <2>1, FrameFreed
  <2>. QED  BY <1>4, <2>2
<1>6. mem'[doc] = mem[doc]
  <2>1. doc \in DOMAIN mem /\ doc # parse.buf
    <3>1. doc \in DOMAIN mem
      BY <1>1, RootsAreApart DEF Reading, Growing, Sound
    <3>. QED  BY <1>2, <3>1 DEF RootsApart
  <2>. QED  BY <2>1 DEF Freed
<1>7. Walking(N, S, N)' /\ walk' \in WalkType /\ walk'.job = "destroy" /\ walk'.sec = NULL
  BY <1>2, <1>6, WalkBegins DEF Jobs
<1>8. Subs(mem', N, S, NULL)
  BY <1>2, <1>5, SameSubs DEF Sound, Body
<1>9. Document(N, S)'
  BY <1>7, <1>8 DEF Document
<1>10. Types'
  <2>1. obj' \in [Obj -> Members]
    BY DEF Alike
  <2>. QED  BY <1>2, <1>3, <1>7, <2>1 DEF Types, ParseType, WalkType, Members, settings
<1>11. Phases(N)'
  BY <1>2, <1>3, <1>7 DEF Phases, Idle
<1>12. Parsing(N, S)' /\ Buffered(N)' /\ Objects'
  <2>1. Objects'
    BY <1>2, <1>7, ObjectsKept
  <2>. QED  BY <1>7, <2>1 DEF Parsing, Idle, Buffered
<1>. QED  BY <1>4, <1>5, <1>7, <1>9, <1>10, <1>11, <1>12 DEF Good

\* A document that has grown is good.
LEMMA ParseAdds ==
  ASSUME NEW N \in SUBSET Nat, NEW S, NEW B, Good(N, S, B), pc = "parsing", Idle, Alike,
         UNCHANGED <<walk, err, pc, doc, buf, settings, text, dumped, lost, parses, ops>>,
         NEW N2, NEW S2, parse' \in ParseType, parse'.buf = parse.buf,
         Growing(mem', brk', doc, N2, S2, Roots, parse'.section, parse'.prev)
  PROVE  Good(N2, S2, B)'
<1>1. Reading(N, S) /\ Types /\ RootsApart /\ Objects /\ Phases(N)
  BY ReadingIs DEF Good
<1>2. Roots' = Roots /\ RootsApart'
  BY <1>1, RootsKept
<1>3. walk.job = "none" /\ walk = NoWalk /\ doc # NULL /\ parse.buf # NULL
  BY <1>1 DEF Idle, Good, Walking, Reading
<1>4. Types'
  <2>1. obj' \in [Obj -> Members]
    BY DEF Alike
  <2>. QED  BY <1>1, <2>1 DEF Types, ParseType, Members, settings
<1>5. Phases(N2)'
  BY <1>1, <1>3 DEF Phases, Idle
<1>6. /\ Heads(mem', doc', N2, S2) /\ Subs(mem', N2, S2, NULL) /\ NoOrphans(mem', N2, S2)
      /\ Latest(S2, parse'.section) /\ Latest(Trailing(S2, N2), parse'.prev)
      /\ Sound(mem', brk', N2, S2, Roots')
  BY <1>2 DEF Growing
<1>7. Document(N2, S2)'
  BY <1>3, <1>6 DEF Document
<1>8. Walking(N2, S2, B)'
  BY <1>3 DEF Walking, Idle
<1>9. Parsing(N2, S2)'
  BY <1>6 DEF Parsing
<1>10. Buffered(N2)'
  BY <1>3 DEF Buffered
<1>11. Objects'
  BY <1>1, <1>3, ObjectsKept
<1>. QED  BY <1>2, <1>4, <1>5, <1>6, <1>7, <1>8, <1>9, <1>10, <1>11 DEF Good

\* Parsing a line keeps the invariant, with the node added or not.
LEMMA ParseLineKeeps ==
  ASSUME NEW N \in SUBSET Nat, NEW S \in SUBSET Nat, NEW B \in SUBSET Nat, Good(N, S, B), ParseLine, Alike
  PROVE  IInv'
<1>. DEFINE got == IF parse.is_str THEN LineFromString(parse.rest) ELSE LineFromStream(parse.rest)
            line == ParsedLine(got.line, parse.section = NULL, parse.strip)
            blocks == Blocks(line, brk)
            a == brk + 1
            m == Allocated(mem, brk, blocks)
<1>1. pc = "parsing" /\ Idle /\ UNCHANGED <<doc, buf, settings, text, dumped, lost, parses, ops>>
  BY DEF ParseLine
<1>2. Reading(N, S) /\ Types /\ RootsApart /\ Objects /\ Phases(N) /\ Sound(mem, brk, N, S, Roots) /\ N \subseteq Nat
  BY <1>1, ReadingIs DEF Good
<1>3. brk \in Nat /\ DOMAIN mem \subseteq 1..brk
  BY <1>2 DEF Sound, Body, Extent
<1>4. got.line \in Word /\ got.rest \in Word
  BY <1>2, LineOfText DEF Reading, ParseType
<1>5. Parsed(line, parse.section = NULL)
  <2>. HIDE DEF got
  <2>. QED  BY <1>4, ParsedLineIs
<1>6. BlocksOf(blocks, line, brk)
  <2>. HIDE DEF line
  <2>. QED  BY <1>3, <1>5, BlocksAre
<1>7. \/ line.err # "OK" /\ ParseFails(line.err, m, 2)
      \/ \E k \in DOMAIN blocks : ParseFails("MEM_ALLOC", Allocated(mem, brk, SubSeq(blocks, 1, k - 1)), k)
      \/ /\ line.err = "OK" /\ mem' = AsNext(AsHead(m, a), a) /\ brk' = brk + Len(blocks)
         /\ parse' = [parse EXCEPT !.rest = got.rest, !.prev = Prev(m, a), !.section = IF Type(m, a) = "section" THEN a ELSE @]
         /\ UNCHANGED <<walk, err, pc>>
  BY DEF ParseLine
<1>. HIDE DEF got, line, blocks
<1>8. CASE line.err # "OK" /\ ParseFails(line.err, m, 2)
  <2>1. Len(blocks) = 2 - 1
    BY <1>5, <1>6, <1>8 DEF Parsed, BlocksOf
  <2>2. mem' = Freed(Allocated(mem, brk, blocks), FreeStatements(2))
    BY <1>8 DEF ParseFails
  <2>3. Freed(Allocated(mem, brk, blocks), FreeStatements(2)) = Freed(mem, {parse.buf})
    <3>1. ASSUME NEW k, k = 2
          PROVE  Freed(Allocated(mem, brk, blocks), FreeStatements(k)) = Freed(mem, {parse.buf})
      <4>1. k \in Nat /\ k # 0 /\ Len(blocks) = k - 1
        BY <2>1, <3>1
      <4>. QED  BY ONLY <1>3, <4>1, FailedHeap
    <3>. QED  BY <3>1
  <2>4. mem' = Freed(mem, {parse.buf}) /\ Begin("destroy") /\ parse' = NoParse /\ UNCHANGED <<brk, pc>>
    BY <1>8, <2>2, <2>3 DEF ParseFails
  <2>5. Good(N, S, N)'
    BY <1>1, <2>4, ParseFailsKeeps
  <2>. QED  BY <2>5 DEF IInv
<1>9. CASE \E k \in DOMAIN blocks : ParseFails("MEM_ALLOC", Allocated(mem, brk, SubSeq(blocks, 1, k - 1)), k)
  <2>1. PICK k \in DOMAIN blocks : ParseFails("MEM_ALLOC", Allocated(mem, brk, SubSeq(blocks, 1, k - 1)), k)
    BY <1>9
  <2>. DEFINE bl == SubSeq(blocks, 1, k - 1)
  <2>2. Len(bl) = k - 1 /\ k \in Nat /\ k # 0
    <3>1. PICK D : blocks \in Seq(D)
      BY <1>6 DEF BlocksOf
    <3>2. k \in 1..Len(blocks) /\ Len(blocks) \in Nat
      BY <1>6 DEF BlocksOf
    <3>3. k - 1 \in 0..Len(blocks)
      BY <3>2
    <3>4. Len(SubSeq(blocks, 1, k - 1)) = k - 1
      BY <3>1, <3>3, SubSeqType
    <3>. QED  BY <3>2, <3>4
  <2>3. mem' = Freed(Allocated(mem, brk, bl), FreeStatements(k))
    BY <2>1 DEF ParseFails
  <2>. HIDE DEF bl
  <2>4. Freed(Allocated(mem, brk, bl), FreeStatements(k)) = Freed(mem, {parse.buf})
    BY <1>3, <2>2, FailedHeap
  <2>5. mem' = Freed(mem, {parse.buf}) /\ Begin("destroy") /\ parse' = NoParse /\ UNCHANGED <<brk, pc>>
    BY <2>1, <2>3, <2>4 DEF ParseFails
  <2>6. Good(N, S, N)'
    BY <1>1, <2>5, ParseFailsKeeps
  <2>. QED  BY <2>6 DEF IInv
<1>10. CASE /\ line.err = "OK" /\ mem' = AsNext(AsHead(m, a), a) /\ brk' = brk + Len(blocks)
            /\ parse' = [parse EXCEPT !.rest = got.rest, !.prev = Prev(m, a), !.section = IF Type(m, a) = "section" THEN a ELSE @]
            /\ UNCHANGED <<walk, err, pc>>
  <2>. DEFINE N2 == N \cup {a}
              S2 == IF line.type = "section" THEN S \cup {a} ELSE S
  <2>1. Fresh(mem, brk, N, S, Roots, line, m, brk', a, N2, S2)
    <3>1. ASSUME NEW x, x = a, NEW N3, N3 = N2, NEW S3, S3 = S2, NEW m1, m1 = m
          PROVE  Fresh(mem, brk, N, S, Roots, line, m1, brk + Len(blocks), x, N3, S3)
      <4>1. N3 = N \cup {x} /\ S3 = (IF line.type = "section" THEN S \cup {x} ELSE S) /\ x = brk + 1 /\ m1 = Allocated(mem, brk, blocks)
        BY <3>1
      <4>2. line.err = "OK"
        BY <1>10
      <4>. QED  BY ONLY <1>2, <1>5, <1>6, <4>1, <4>2, LineStored
    <3>. QED  BY <1>10, <3>1
  <2>2. Growing(mem, brk, doc, N, S, Roots, parse.section, parse.prev)
    BY <1>2 DEF Reading
  <2>3. line.type = "item" => parse.section # NULL
    BY <1>5 DEF Parsed
  <2>4. Type(m, a) = line.type /\ a \in Nat /\ N2 \subseteq Nat /\ S2 \subseteq N2
    BY <1>2, <1>3, <2>1 DEF Fresh, Reading
  <2>5. Growing(mem', brk', doc, N2, S2, Roots, IF line.type = "section" THEN a ELSE parse.section, Prev(m, a))
    <3>1. mem' = AsNext(AsHead(m, a), a)
      BY <1>10
    <3>. HIDE DEF m, a, N2, S2
    <3>. QED  BY <2>1, <2>2, <2>3, <3>1, LineLinked
  <2>6. /\ parse' \in ParseType /\ parse'.section = (IF line.type = "section" THEN a ELSE parse.section)
        /\ parse'.prev = Prev(m, a) /\ parse'.buf = parse.buf
    <3>1. Prev(m, a) \in Nat
      BY <2>4 DEF Prev, NULL
    <3>2. parse' = [parse EXCEPT !.rest = got.rest, !.prev = Prev(m, a), !.section = IF line.type = "section" THEN a ELSE @]
      BY <1>10, <2>4
    <3>3. parse \in ParseType
      BY <1>2 DEF Reading
    <3>. HIDE DEF a, m
    <3>4. a \in Nat
      BY <2>4
    <3>. QED  BY <1>4, <3>1, <3>2, <3>3, <3>4 DEF ParseType
  <2>7. Growing(mem', brk', doc, N2, S2, Roots, parse'.section, parse'.prev)
    BY <2>5, <2>6
  <2>8. UNCHANGED <<walk, err, pc>>
    BY <1>10
  <2>9. PICK N3, S3 : N3 = N2 /\ S3 = S2
    OBVIOUS
  <2>10. N3 \in SUBSET Nat /\ S3 \in SUBSET Nat /\ Growing(mem', brk', doc, N3, S3, Roots, parse'.section, parse'.prev)
    BY <2>4, <2>7, <2>9
  <2>. HIDE DEF a, m, N2, S2
  <2>11. Good(N3, S3, B)'
    BY <1>1, <2>6, <2>8, <2>10, ParseAdds
  <2>. QED  BY <2>10, <2>11 DEF IInv
<1>. QED  BY <1>7, <1>8, <1>9, <1>10

\* Same nodes make the same document.
LEMMA DocumentSame ==
  ASSUME NEW m, NEW m2, NEW d, NEW N, NEW S, Same(m, m2, N), m2[d] = m[d], Sorts(m, N, S),
         Heads(m, d, N, S), NoOrphans(m, N, S)
  PROVE  Heads(m2, d, N, S) /\ NoOrphans(m2, N, S)
BY DEF Same, Heads, NoOrphans

\* So does the end of the text, where the line buffer is freed.
LEMMA ParseEndsKeeps ==
  ASSUME NEW N \in SUBSET Nat, NEW S \in SUBSET Nat, NEW B \in SUBSET Nat, Good(N, S, B), ParseEnds, Alike
  PROVE  IInv'
<1>1. /\ pc = "parsing" /\ Idle /\ pc' = "ready" /\ mem' = Freed(mem, {parse.buf})
      /\ parse' = [parse EXCEPT !.section = NULL, !.prev = NULL, !.buf = NULL]
      /\ UNCHANGED <<brk, doc, walk, buf, err, settings, text, dumped, lost, parses, ops>>
  BY DEF ParseEnds
<1>2. Reading(N, S) /\ Types /\ RootsApart /\ Objects /\ Phases(N) /\ Sound(mem, brk, N, S, Roots)
  BY <1>1, ReadingIs DEF Good
<1>3. /\ Heads(mem, doc, N, S) /\ Subs(mem, N, S, NULL) /\ NoOrphans(mem, N, S) /\ doc # NULL /\ doc \in Roots
      /\ walk = NoWalk /\ walk.job = "none"
  BY <1>1, <1>2 DEF Reading, Growing, Good, Walking, Idle
<1>4. parse'.buf = NULL /\ parse'.section = NULL /\ parse'.prev = NULL /\ parse' \in ParseType
  <2>1. parse \in ParseType
    BY <1>2 DEF Reading
  <2>. QED  BY <1>1, <2>1 DEF ParseType, NULL
<1>5. Roots' = Roots \ {parse.buf} /\ RootsApart'
  BY <1>1, <1>2, <1>3, <1>4, BufferRootGone
<1>6. Sound(mem', brk', N, S, Roots') /\ Same(mem, mem', N)
  <2>1. {parse.buf} \cap Covered(mem, N) = {}
    BY <1>2, RootsAreApart DEF Reading, Sound
  <2>2. Sound(Freed(mem, {parse.buf}), brk, N, S, Roots \ {parse.buf}) /\ Same(mem, Freed(mem, {parse.buf}), N)
    BY <1>2, <2>1, FrameFreed
  <2>. QED  BY <1>1, <1>5, <2>2
<1>7. mem'[doc] = mem[doc]
  <2>1. doc \in DOMAIN mem /\ doc # parse.buf
    <3>1. doc \in DOMAIN mem
      BY <1>2, <1>3, RootsAreApart DEF Sound
    <3>. QED  BY <1>2, <1>3, <3>1 DEF RootsApart
  <2>. QED  BY <1>1, <2>1 DEF Freed
<1>8. Sorts(mem, N, S)
  BY <1>2 DEF Sound, Body
<1>9. Heads(mem', doc, N, S) /\ NoOrphans(mem', N, S) /\ Subs(mem', N, S, NULL)
  BY <1>3, <1>6, <1>7, <1>8, DocumentSame, SameSubs
<1>10. Document(N, S)'
  BY <1>1, <1>3, <1>9 DEF Document
<1>11. Types'
  <2>1. obj' \in [Obj -> Members]
    BY DEF Alike
  <2>. QED  BY <1>1, <1>2, <1>4, <2>1 DEF Types, ParseType, Members, settings
<1>12. Phases(N)'
  BY <1>1, <1>2, <1>3, <1>4 DEF Phases, Idle
<1>13. Walking(N, S, B)' /\ Parsing(N, S)' /\ Buffered(N)'
  BY <1>1, <1>3 DEF Walking, Parsing, Buffered, Idle
<1>14. Objects'
  BY <1>1, <1>2, ObjectsKept
<1>15. Good(N, S, B)'
  BY <1>5, <1>6, <1>10, <1>11, <1>12, <1>13, <1>14 DEF Good
<1>. QED  BY <1>15 DEF IInv

\* What the settings can be.
LEMMA SettingsWords == LF \in Word /\ CRLF \in Word /\ NoIndent \in Word /\ \A width \in Widths : Spaces(width) \in Word
<1>1. LF \in Word /\ CRLF \in Word /\ NoIndent \in Word
  BY DEF Word, Chars, LF, CRLF, NoIndent
<1>2. ASSUME NEW width \in Widths PROVE Spaces(width) \in Word
  <2>1. width \in Nat
    BY IniAssumption
  <2>2. Spaces(width) \in [1..width -> Chars]
    BY DEF Spaces, Chars
  <2>. QED  BY <2>1, <2>2, SeqDef DEF Word
<1>. QED  BY <1>1, <1>2

\* Outside of a traversal, a step that changes neither the heap nor the document.
LEMMA QuietStep ==
  ASSUME NEW N \in SUBSET Nat, NEW S \in SUBSET Nat, NEW B \in SUBSET Nat, Good(N, S, B), Alike,
         pc \in {"start", "idle"}, pc' = "idle", UNCHANGED <<mem, brk, doc, parse, walk, buf, lost>>, Types'
  PROVE  IInv'
<1>1. /\ Types /\ RootsApart /\ Objects /\ Phases(N) /\ Sound(mem, brk, N, S, Roots)
      /\ doc = NULL /\ walk.job = "none" /\ walk = NoWalk
  BY DEF Good, Phases, Idle, Walking
<1>2. Roots' = Roots /\ RootsApart' /\ Objects'
  BY <1>1, RootsKept, ObjectsKept
<1>3. Sound(mem', brk', N, S, Roots')
  BY <1>1, <1>2
<1>4. Phases(N)'
  BY <1>1 DEF Phases, Idle
<1>5. Document(N, S)' /\ Walking(N, S, B)' /\ Parsing(N, S)' /\ Buffered(N)'
  BY <1>1 DEF Document, Walking, Parsing, Buffered, Idle
<1>6. Good(N, S, B)'
  BY <1>2, <1>3, <1>4, <1>5 DEF Good
<1>. QED  BY <1>6 DEF IInv

\* Configuring keeps the invariant.
LEMMA ConfigureKeeps ==
  ASSUME NEW N \in SUBSET Nat, NEW S \in SUBSET Nat, NEW B \in SUBSET Nat, Good(N, S, B), Configure, Alike
  PROVE  IInv'
<1>1. /\ pc = "start" /\ pc' = "idle" /\ UNCHANGED <<heap, doc, parse, walk, buf, err, text, dumped, lost, parses, ops>>
      /\ \E width \in Widths, newline \in {LF, CRLF, Suffix} :
           /\ s_newline' = IF newline \in {LF, CRLF} THEN newline ELSE s_newline
           /\ s_indent_spaces' \in {s_indent_spaces} \cup (IF width > IndentMax THEN {} ELSE {Spaces(width)})
  BY DEF Configure
<1>2. Types
  BY DEF Good
<1>3. s_newline' \in Word /\ s_indent_spaces' \in Word
  BY <1>1, <1>2, SettingsWords DEF Types
<1>4. Types'
  <2>1. obj' \in [Obj -> Members]
    BY DEF Alike
  <2>. QED  BY <1>1, <1>2, <1>3, <2>1 DEF Types, Members
<1>. QED  BY <1>1, <1>4, QuietStep DEF heap

\* What a parse has allocated when it begins: the document, and the line buffer or not.
WithBlocks(blocks, size, header) ==
  /\ size \in {1, 2} /\ Len(blocks) = size /\ blocks[1] = header
  /\ doc' = brk + 1 /\ brk' = brk + size /\ mem' = Allocated(mem, brk, blocks)
  /\ pc' \in {"parsing", "ready", "crashed"} /\ (pc' = "parsing" <=> size = 2)
  /\ \E strip, is_str \in BOOLEAN, rest \in {text, <<>>} :
       parse' = [rest |-> rest, section |-> 0, prev |-> 0, strip |-> strip, is_str |-> is_str,
                 buf |-> IF size = 2 THEN brk + 2 ELSE 0]

\* So does the beginning of a parse, whichever allocation fails.
LEMMA ParseBeginsKeeps ==
  ASSUME NEW N \in SUBSET Nat, NEW S \in SUBSET Nat, NEW B \in SUBSET Nat, Good(N, S, B), ParseBegins, Alike
  PROVE  IInv'
<1>. DEFINE header == [preamble |-> NULL, section |-> NULL]
<1>1. /\ pc = "idle" /\ UNCHANGED <<walk, buf, settings, text, dumped, lost, ops>>
      /\ \/ UNCHANGED <<heap, doc, pc, parse>>
         \/ \E strip, is_str \in BOOLEAN :
              /\ doc' = brk + 1 /\ brk' = brk + 2 /\ pc' = "parsing"
              /\ mem' = Allocated(mem, brk, <<header, <<>>>>)
              /\ parse' = [NoParse EXCEPT !.rest = text, !.strip = strip, !.is_str = is_str, !.buf = brk + 2]
         \/ \E strip, is_str \in BOOLEAN :
              /\ doc' = brk + 1 /\ brk' = brk + 1 /\ pc' = IF is_str \/ text # <<>> THEN "crashed" ELSE "ready"
              /\ mem' = Allocated(mem, brk, <<header>>)
              /\ parse' = [NoParse EXCEPT !.strip = strip, !.is_str = is_str]
  BY DEF ParseBegins
<1>2. /\ Types /\ RootsApart /\ Objects /\ Phases(N) /\ Sound(mem, brk, N, S, Roots)
      /\ doc = NULL /\ walk.job = "none" /\ walk = NoWalk /\ N = {} /\ parse.buf = NULL
  BY <1>1 DEF Good, Phases, Idle, Walking
<1>3. obj' \in [Obj -> Members]
  BY DEF Alike
<1>4. CASE UNCHANGED <<heap, doc, pc, parse>>
  <2>1. Types'
    BY <1>1, <1>2, <1>3, <1>4 DEF Types, Members, settings
  <2>. QED  BY <1>1, <1>4, <2>1, QuietStep DEF heap
<1>5. CASE ~UNCHANGED <<heap, doc, pc, parse>>
  <2>1. PICK blocks, size : WithBlocks(blocks, size, header)
    <3>1. CASE \E strip, is_str \in BOOLEAN :
                 /\ doc' = brk + 1 /\ brk' = brk + 2 /\ pc' = "parsing"
                 /\ mem' = Allocated(mem, brk, <<header, <<>>>>)
                 /\ parse' = [NoParse EXCEPT !.rest = text, !.strip = strip, !.is_str = is_str, !.buf = brk + 2]
      <4>1. Len(<<header, <<>>>>) = 2 /\ <<header, <<>>>>[1] = header
        OBVIOUS
      <4>2. PICK strip \in BOOLEAN, is_str \in BOOLEAN :
                 parse' = [rest |-> text, section |-> 0, prev |-> 0, strip |-> strip, is_str |-> is_str, buf |-> brk + 2]
        BY <3>1 DEF NoParse, NULL
      <4>. QED  BY <3>1, <4>1, <4>2 DEF WithBlocks
    <3>2. CASE \E strip, is_str \in BOOLEAN :
                 /\ doc' = brk + 1 /\ brk' = brk + 1 /\ pc' = IF is_str \/ text # <<>> THEN "crashed" ELSE "ready"
                 /\ mem' = Allocated(mem, brk, <<header>>)
                 /\ parse' = [NoParse EXCEPT !.strip = strip, !.is_str = is_str]
      <4>1. Len(<<header>>) = 1 /\ <<header>>[1] = header
        OBVIOUS
      <4>2. PICK strip \in BOOLEAN, is_str \in BOOLEAN :
                 parse' = [rest |-> <<>>, section |-> 0, prev |-> 0, strip |-> strip, is_str |-> is_str, buf |-> 0]
        BY <3>2 DEF NoParse, NULL
      <4>3. pc' \in {"crashed", "ready"}
        BY <3>2
      <4>4. PICK bl : bl = <<header>>
        OBVIOUS
      <4>5. \E strip2, is_str2 \in BOOLEAN, rest \in {text, <<>>} :
              parse' = [rest |-> rest, section |-> 0, prev |-> 0, strip |-> strip2, is_str |-> is_str2,
                        buf |-> IF 1 = 2 THEN brk + 2 ELSE 0]
        BY <4>2
      <4>6. WithBlocks(bl, 1, header)
        <5>1. bl[1] = header /\ Len(bl) = 1 /\ mem' = Allocated(mem, brk, bl)
          BY <3>2, <4>1, <4>4
        <5>2. pc' \in {"parsing", "ready", "crashed"} /\ (pc' = "parsing" <=> 1 = 2)
          BY <4>3
        <5>3. doc' = brk + 1 /\ brk' = brk + 1 /\ 1 \in {1, 2}
          BY <3>2
        <5>. HIDE DEF header
        <5>. QED  BY ONLY <4>5, <5>1, <5>2, <5>3 DEF WithBlocks
      <4>. QED  BY <4>6
    <3>. QED  BY <1>1, <1>5, <3>1, <3>2
  <2>2. brk \in Nat /\ DOMAIN mem \subseteq 1..brk /\ S = {} /\ Roots \subseteq DOMAIN mem
    <3>1. Body(mem, brk, N, S, Roots)
      BY <1>2 DEF Sound
    <3>2. Roots \subseteq DOMAIN mem
      BY <3>1, RootsAreApart
    <3>. QED  BY <1>2, <3>1, <3>2 DEF Body, Extent, Sorts
  <2>3. /\ parse' \in ParseType /\ parse'.section = NULL /\ parse'.prev = NULL /\ size \in {1, 2}
        /\ parse'.buf = (IF size = 2 THEN brk + 2 ELSE 0)
        /\ pc' = "parsing" <=> size = 2
        /\ pc' \in {"parsing", "ready", "crashed"}
    <3>1. text \in Word /\ <<>> \in Word
      BY <1>2, EmptyWord DEF Types
    <3>2. PICK strip \in BOOLEAN, is_str \in BOOLEAN, rest \in {text, <<>>} :
            parse' = [rest |-> rest, section |-> 0, prev |-> 0, strip |-> strip, is_str |-> is_str,
                      buf |-> IF size = 2 THEN brk + 2 ELSE 0]
      BY <2>1 DEF WithBlocks
    <3>3. /\ size \in {1, 2} /\ (pc' = "parsing" <=> size = 2) /\ pc' \in {"parsing", "ready", "crashed"}
      BY <2>1 DEF WithBlocks
    <3>4. PICK b : b = IF size = 2 THEN brk + 2 ELSE 0
      OBVIOUS
    <3>5. b \in Nat /\ rest \in Word
      BY <2>2, <3>1, <3>4
    <3>6. parse' = [rest |-> rest, section |-> 0, prev |-> 0, strip |-> strip, is_str |-> is_str, buf |-> b]
      BY <3>2, <3>4
    <3>7. parse' \in ParseType /\ parse'.section = NULL /\ parse'.prev = NULL /\ parse'.buf = b
      BY <3>5, <3>6 DEF ParseType, NULL
    <3>. QED  BY <3>3, <3>4, <3>7
  <2>4. Len(blocks) = size /\ size \in Nat /\ doc' = brk + 1 /\ brk' = brk + size /\ mem' = Allocated(mem, brk, blocks) /\ blocks[1] = header
    BY <2>1, <2>3 DEF WithBlocks
  <2>5. Extended(mem, brk, blocks, mem')
    <3>1. \A bl : Len(bl) \in Nat => Extended(mem, brk, bl, Allocated(mem, brk, bl))
      BY <2>2, AllocatedAre
    <3>. QED  BY <2>4, <3>1
  <2>6. /\ \A y : y \in DOMAIN mem' <=> y \in DOMAIN mem \/ y \in brk + 1..brk + size
        /\ DOMAIN mem' \subseteq 1..brk + size /\ \A x \in DOMAIN mem : mem'[x] = mem[x]
    BY <2>4, <2>5 DEF Extended
  <2>7. mem'[doc'] = header /\ mem'[doc'] \in [preamble : Nat, section : Nat] /\ mem'[doc'].preamble = NULL /\ mem'[doc'].section = NULL
    <3>1. mem'[brk + 1] = blocks[1]
      BY <2>3, <2>4, <2>5 DEF Extended
    <3>2. header \in [preamble : Nat, section : Nat] /\ header.preamble = NULL /\ header.section = NULL
      BY DEF NULL
    <3>. QED  BY <2>4, <3>1, <3>2
  <2>8. /\ \A o \in Obj : Owned(o)' = Owned(o) /\ obj'[o].path = obj[o].path /\ obj'[o].map = obj[o].map
        /\ Held' = Held /\ NULL \notin Held
    BY OwnersKept DEF Alike, Held, Owned
  <2>9. Roots = Held \cup lost
    BY <1>2 DEF Roots
  <2>10. doc' # NULL /\ doc' # parse'.buf /\ doc' \notin Roots /\ parse'.buf \notin Roots /\ (size = 2 <=> parse'.buf # NULL)
    <3>1. brk + 1 \notin 1..brk /\ brk + 2 \notin 1..brk /\ 0 \notin 1..brk /\ brk + 1 # 0 /\ brk + 2 # 0 /\ brk + 1 # brk + 2
      BY <2>2
    <3>. QED  BY <2>2, <2>3, <2>4, <3>1 DEF NULL
  <2>11. Roots' = Roots \cup ({doc', parse'.buf} \ {NULL})
    <3>1. Roots' = ({doc', parse'.buf} \ {NULL}) \cup Held \cup lost
      BY <1>1, <2>8 DEF Roots
    <3>. QED  BY ONLY <2>9, <3>1
  <2>12. RootsApart'
    <3>1. {NULL, doc', parse'.buf} \cap lost' = {}
      <4>1. NULL \notin lost /\ lost' = lost /\ lost \subseteq Roots
        BY <1>1, <1>2, <2>9 DEF RootsApart
      <4>. QED  BY ONLY <2>10, <4>1
    <3>2. \A o \in Obj : Owned(o)' \cap ({doc', parse'.buf} \cup lost') = {}
      <4>1. ASSUME NEW o \in Obj PROVE Owned(o) \subseteq Roots /\ Owned(o) \cap lost = {}
        BY <1>2, <2>9 DEF Held, RootsApart
      <4>2. lost' = lost /\ \A o \in Obj : Owned(o)' = Owned(o)
        BY <1>1, <2>8
      <4>. QED  BY ONLY <2>10, <4>1, <4>2
    <3>3. \A o \in Obj : obj'[o].path = obj'[o].map => obj'[o].path = NULL
      BY <1>2, <2>8 DEF RootsApart
    <3>4. \A o \in Obj : \A p \in Obj \ {o} : Owned(o)' \cap Owned(p)' = {}
      BY <1>2, <2>8 DEF RootsApart
    <3>5. doc' = parse'.buf => doc' = NULL
      BY <2>10
    <3>. QED  BY ONLY <3>1, <3>2, <3>3, <3>4, <3>5 DEF RootsApart
  <2>13. Sound(mem', brk', N, S, Roots')
    <3>1. Sound(mem, brk, N, S, Roots) /\ Covered(mem, N) = {}
      BY <1>2 DEF Covered
    <3>2. DOMAIN mem = Roots
      BY <3>1 DEF Sound, Body, Extent
    <3>3. DOMAIN mem' = Roots' \cup Covered(mem, N)
      <4>1. \A y : y \in brk + 1..brk + size <=> y \in {doc', parse'.buf} \ {NULL}
        <5>1. CASE size = 2
          BY <2>2, <2>3, <2>4, <5>1 DEF NULL
        <5>2. CASE size = 1
          BY <2>2, <2>3, <2>4, <5>2 DEF NULL
        <5>. QED  BY <2>3, <5>1, <5>2
      <4>2. \A y : y \in DOMAIN mem' <=> y \in Roots \/ y \in {doc', parse'.buf} \ {NULL}
        BY <2>6, <3>2, <4>1
      <4>. QED  BY <2>11, <3>1, <4>2
    <3>4. brk' \in Nat /\ DOMAIN mem' \subseteq 1..brk'
      <4>1. brk' = brk + size /\ brk \in Nat /\ size \in Nat
        BY <2>2, <2>4
      <4>. QED  BY <2>6, <4>1
    <3>. QED  BY <3>1, <3>3, <3>4, Frame
  <2>14. Types'
    <3>1. doc' \in Nat
      BY <2>2, <2>4
    <3>. QED  BY <1>1, <1>2, <1>3, <2>3, <3>1 DEF Types, ParseType, Members, settings
  <2>15. Phases(N)'
    BY <1>1, <1>2, <2>3, <2>10 DEF Phases, Idle
  <2>16. Document(N, S)'
    BY <1>1, <1>2, <2>2, <2>7 DEF Document, Subs, Heads, NoOrphans, Leading, First
  <2>17. Walking(N, S, B)' /\ Buffered(N)'
    BY <1>1, <1>2, <2>3 DEF Walking, Buffered, Idle
  <2>18. Parsing(N, S)'
    BY <1>2, <2>2, <2>3 DEF Parsing, Latest, Trailing
  <2>19. Objects'
    BY <1>1, <1>2, ObjectsKept
  <2>20. Good(N, S, B)'
    BY <2>12, <2>13, <2>14, <2>15, <2>16, <2>17, <2>18, <2>19 DEF Good
  <2>. QED  BY <2>20 DEF IInv
<1>. QED  BY <1>1, <1>4, <1>5

-----------------------------------------------------------------------------
\* Lists.

\* s is the nodes of Q in order.
Ordered(s, Q) ==
  /\ s \in Seq(Q) /\ Len(s) \in Nat
  /\ \A i, j \in 1..Len(s) : i < j => s[i] < s[j]
  /\ \A q \in Q : \E i \in 1..Len(s) : s[i] = q

\* The chain from a on as a function, and the place where it ends.
Nth(m, a) == CHOOSE f : f = [i \in Nat |-> IF i = 0 THEN a ELSE Following(m, f[i - 1])]
LastOf(f, b) == CHOOSE i \in 0..b : f[i] = NULL /\ (i = 0 \/ f[i - 1] # NULL)

\* What the nodes of a list are, and how many.
Chain(f, Q) ==
  /\ f \in [Nat -> Q \cup {NULL}] /\ First(Q, f[0])
  /\ \A i \in Nat : IF f[i] = NULL THEN f[i + 1] = NULL ELSE First(Behind(Q, f[i]), f[i + 1])

\* The nodes are below the break.
Within(Q, b) == b \in Nat /\ \A q \in Q : q <= b

\* The n nodes of a list, in order.
Runs(f, Q, n) ==
  /\ n \in Nat /\ f[n] = NULL
  /\ \A i \in Nat : i < n => f[i] \in Q
  /\ \A i, j \in Nat : i < j /\ j < n => f[i] < f[j]
  /\ \A q \in Q : \E i \in Nat : i < n /\ f[i] = q

\* From the first of Q, each step goes to the next of Q, and from NULL to NULL.
LEMMA NthIs ==
  ASSUME NEW m, NEW Q \in SUBSET Nat, NULL \notin Q, NEW a, First(Q, a), \A x \in Q : First(Behind(Q, x), m[x].next)
  PROVE  Chain(Nth(m, a), Q)
<1>. DEFINE D == Q \cup {NULL}
            s == [x \in Nat \X D |-> Following(m, x[2])]
            F(f) == [i \in Nat |-> IF i = 0 THEN a ELSE Following(m, f[i - 1])]
<1>1. a \in D
  BY DEF First
<1>2. \A x \in D : Following(m, x) \in D
  BY DEF Following, First, Behind
<1>3. s \in [Nat \X D -> D]
  BY <1>2
<1>4. PICK g : Recursive(g, D, a, s)
  <2>. HIDE DEF D, s
  <2>. QED  BY ONLY <1>1, <1>3, Recursion
<1>. g \in [Nat -> D] /\ g[0] = a
  BY <1>4 DEF Recursive
<1>5. \A i \in Nat : g[i + 1] = Following(m, g[i])
  BY <1>4 DEF Recursive
<1>6. \A i \in Nat : F(g)[i] = g[i]
  <2>1. \A i \in Nat : i # 0 => i - 1 \in Nat /\ (i - 1) + 1 = i
    OBVIOUS
  <2>2. \A i \in Nat : i # 0 => g[i] = Following(m, g[i - 1])
    BY <1>5, <2>1
  <2>. QED  BY <1>4, <2>2
<1>7. g = F(g)
  BY <1>4, <1>6
<1>. DEFINE f == Nth(m, a)
<1>8. f = F(f)
  BY <1>7 DEF Nth
<1>. HIDE DEF f
<1>9. f[0] = a /\ \A i \in Nat : f[i + 1] = Following(m, f[i])
  <2>1. \A i \in Nat : i + 1 \in Nat /\ i + 1 # 0 /\ (i + 1) - 1 = i
    OBVIOUS
  <2>. QED  BY <1>8, <2>1
<1>10. \A i \in Nat : f[i] \in D
  <2>. DEFINE I == {i \in Nat : f[i] \in D}
  <2>1. 0 \in I
    BY <1>1, <1>9
  <2>2. ASSUME NEW i \in Nat, i \in I PROVE i + 1 \in I
    <3>. HIDE DEF D
    <3>1. f[i] \in D /\ f[i + 1] = Following(m, f[i]) /\ i + 1 \in Nat
      BY <1>9, <2>2
    <3>. QED  BY <1>2, <3>1
  <2>3. Nat \subseteq I
    <3>. HIDE DEF I
    <3>. QED  BY <2>1, <2>2, Induct
  <2>. QED  BY <2>3
<1>11. f \in [Nat -> D]
  <2>. HIDE DEF D
  <2>1. f = [i \in Nat |-> f[i]]
    BY <1>8
  <2>. QED  BY <1>10, <2>1
<1>12. \A i \in Nat : IF f[i] = NULL THEN f[i + 1] = NULL ELSE First(Behind(Q, f[i]), f[i + 1])
  BY <1>9, <1>10 DEF Following
<1>. QED  BY <1>9, <1>11, <1>12 DEF Chain, f

\* A chain through a set of numbers with a bound ends.
LEMMA ChainIs ==
  ASSUME NEW Q \in SUBSET Nat, NULL \notin Q, NEW b, Within(Q, b), NEW f, Chain(f, Q)
  PROVE  \E n \in 0..b : Runs(f, Q, n)
<1>. b \in Nat /\ \A q \in Q : q <= b
  BY DEF Within
<1>1. \A i \in Nat : f[i] \in Q \cup {NULL}
  BY DEF Chain
<1>2. \A i \in Nat : f[i] # NULL /\ f[i + 1] # NULL => f[i] < f[i + 1]
  BY <1>1 DEF Chain, First, Behind
<1>3. \A i \in Nat : f[i] # NULL => f[i] > i
  <2>. DEFINE I == {i \in Nat : f[i] # NULL => f[i] > i}
  <2>1. 0 \in I
    <3>1. f[0] \in Q \cup {NULL} /\ 0 \in Nat
      BY <1>1
    <3>2. f[0] # NULL => f[0] \in Nat /\ f[0] # 0
      BY <3>1 DEF NULL
    <3>. QED  BY <3>1, <3>2
  <2>2. ASSUME NEW i \in Nat, i \in I PROVE i + 1 \in I
    <3>. SUFFICES ASSUME f[i + 1] # NULL PROVE f[i + 1] > i + 1
      OBVIOUS
    <3>1. f[i] # NULL
      BY DEF Chain
    <3>2. f[i] > i /\ f[i] < f[i + 1] /\ f[i] \in Nat /\ f[i + 1] \in Nat
      <4>1. i + 1 \in Nat /\ f[i] \in Q \cup {NULL} /\ f[i + 1] \in Q \cup {NULL}
        BY <1>1
      <4>2. f[i] \in Nat /\ f[i + 1] \in Nat
        BY <3>1, <4>1
      <4>3. f[i] > i /\ f[i] < f[i + 1]
        BY <1>2, <2>2, <3>1
      <4>. QED  BY <4>2, <4>3
    <3>. QED  BY <3>2
  <2>3. Nat \subseteq I
    <3>. HIDE DEF I
    <3>. QED  BY <2>1, <2>2, Induct
  <2>. QED  BY <2>3
<1>4. f[b] = NULL
  <2>. SUFFICES ASSUME f[b] # NULL PROVE FALSE
    OBVIOUS
  <2>1. f[b] \in Nat /\ f[b] <= b /\ f[b] > b
    BY <1>1, <1>3
  <2>. QED  BY <2>1
<1>5. PICK n \in {i \in Nat : f[i] = NULL} : \A k \in {i \in Nat : f[i] = NULL} : n <= k
  <2>1. {i \in Nat : f[i] = NULL} \in SUBSET Nat /\ {i \in Nat : f[i] = NULL} # {}
    BY <1>4
  <2>. QED  BY <2>1, Least
<1>6. n \in 0..b /\ f[n] = NULL
  BY <1>4, <1>5
<1>7. ASSUME NEW i \in Nat, i < n PROVE f[i] \in Q
  BY <1>1, <1>5, <1>7
<1>8. \A i, j \in Nat : i < j /\ j < n => f[i] < f[j]
  <2>. DEFINE I == {j \in Nat : j < n => \A i \in Nat : i < j => f[i] < f[j]}
  <2>1. 0 \in I
    OBVIOUS
  <2>2. ASSUME NEW j \in Nat, j \in I PROVE j + 1 \in I
    <3>. SUFFICES ASSUME j + 1 < n, NEW i \in Nat, i < j + 1 PROVE f[i] < f[j + 1]
      OBVIOUS
    <3>1. j < n /\ j + 1 \in Nat
      BY <1>6
    <3>2. f[j] \in Nat /\ f[j + 1] \in Nat /\ f[i] \in Nat /\ f[j] < f[j + 1]
      <4>1. j \in Nat /\ i < n /\ n \in Nat
        BY <1>6, <3>1
      <4>2. f[j] \in Q /\ f[j + 1] \in Q /\ f[i] \in Q
        BY <1>7, <3>1, <4>1
      <4>3. f[j] < f[j + 1]
        BY <1>2, <4>1, <4>2
      <4>. QED  BY <4>2, <4>3
    <3>3. i = j \/ f[i] < f[j]
      BY <2>2, <3>1
    <3>. QED  BY <3>2, <3>3
  <2>3. Nat \subseteq I
    <3>. HIDE DEF I
    <3>. QED  BY <2>1, <2>2, Induct
  <2>. QED  BY <2>3
<1>9. ASSUME NEW q \in Q PROVE \E i \in Nat : i < n /\ f[i] = q
  <2>1. n # 0 /\ f[0] <= q
    BY <1>6 DEF Chain, First
  <2>. DEFINE Z == {i \in Nat : i < n /\ f[i] <= q}
  <2>2. PICK i \in Z : \A k \in Z : k <= i
    <3>1. Z \in SUBSET Nat /\ Z # {} /\ \A k \in Z : k <= n
      BY <2>1, <1>6
    <3>2. n \in Nat
      BY <1>5
    <3>. HIDE DEF Z
    <3>. QED  BY <3>1, <3>2, Greatest
  <2>3. f[i] \in Nat /\ f[i] # NULL /\ i + 1 \in Nat /\ f[i] \in Q
    <3>1. i \in Nat /\ i < n
      BY <2>2
    <3>2. f[i] \in Q
      BY <1>7, <3>1
    <3>3. f[i] \in Nat /\ f[i] # NULL
      BY <3>2
    <3>. QED  BY <3>1, <3>2, <3>3
  <2>4. CASE f[i] # q
    <3>1. q \in Behind(Q, f[i]) /\ q \in Nat
      BY <2>2, <2>3, <2>4 DEF Behind
    <3>2. f[i + 1] # NULL /\ f[i + 1] <= q
      BY <2>3, <3>1 DEF Chain, First
    <3>3. i + 1 < n
      <4>1. i + 1 # n
        BY <1>6, <3>2
      <4>. QED  BY <2>2, <4>1
    <3>. QED  BY <2>2, <3>2, <3>3
  <2>. QED  BY <2>2, <2>4
<1>10. Runs(f, Q, n)
  BY <1>6, <1>7, <1>8, <1>9 DEF Runs
<1>. QED  BY <1>6, <1>10

\* List is the sequence of these nodes, in their order.
LEMMA ListIs ==
  ASSUME NEW m, NEW Q \in SUBSET Nat, NULL \notin Q, Within(Q, brk),
         NEW a, First(Q, a), \A x \in Q : First(Behind(Q, x), m[x].next)
  PROVE  Ordered(List(m, a), Q)
<1>. DEFINE f == Nth(m, a)
            len == LastOf(f, brk)
<1>1. List(m, a) = [i \in 1..len |-> f[i - 1]]
  BY DEF List, Nth, LastOf
<1>2. Chain(f, Q)
  BY NthIs
<1>. HIDE DEF f
<1>. brk \in Nat
  BY DEF Within
<1>3. PICK n \in 0..brk : Runs(f, Q, n)
  BY <1>2, ChainIs
<1>4. n = 0 \/ f[n - 1] # NULL
  <2>1. n # 0 => n - 1 \in Nat /\ n - 1 < n
    OBVIOUS
  <2>. QED  BY <1>3, <2>1 DEF Runs
<1>5. len \in 0..brk /\ f[len] = NULL /\ (len = 0 \/ f[len - 1] # NULL)
  BY <1>3, <1>4 DEF LastOf, Runs
<1>. HIDE DEF len
<1>6. \A i \in Nat : i >= n => f[i] = NULL
  <2>. DEFINE I == {i \in Nat : i >= n => f[i] = NULL}
  <2>1. 0 \in I
    BY <1>3 DEF Runs
  <2>2. ASSUME NEW i \in Nat, i \in I PROVE i + 1 \in I
    BY <1>2, <1>3, <2>2 DEF Chain, Runs
  <2>3. Nat \subseteq I
    <3>. HIDE DEF I
    <3>. QED  BY <2>1, <2>2, Induct
  <2>. QED  BY <2>3
<1>7. len = n
  <2>1. ~(len < n)
    BY <1>3, <1>5 DEF Runs
  <2>2. ~(len > n)
    <3>. SUFFICES ASSUME len > n PROVE FALSE
      OBVIOUS
    <3>1. len - 1 \in Nat /\ len - 1 >= n /\ len # 0
      BY <1>3, <1>5
    <3>. QED  BY <1>5, <1>6, <3>1
  <2>. QED  BY <1>3, <1>5, <2>1, <2>2
<1>. DEFINE s == List(m, a)
<1>8. s \in [1..n -> Q] /\ \A i \in 1..n : s[i] = f[i - 1]
  <2>1. \A i \in 1..n : i - 1 \in Nat /\ i - 1 < n
    BY <1>3
  <2>. QED  BY <1>1, <1>3, <1>7, <2>1 DEF Runs
<1>. HIDE DEF s
<1>9. s \in Seq(Q) /\ Len(s) = n /\ n \in Nat
  BY <1>3, <1>8, SeqDef, LenProperties
<1>10. \A i, j \in 1..n : i < j => s[i] < s[j]
  <2>. TAKE i, j \in 1..n
  <2>. SUFFICES ASSUME i < j PROVE s[i] < s[j]
    OBVIOUS
  <2>1. i - 1 \in Nat /\ j - 1 \in Nat /\ i - 1 < j - 1 /\ j - 1 < n
    BY <1>9
  <2>. QED  BY <1>3, <1>8, <2>1 DEF Runs
<1>11. \A q \in Q : \E i \in 1..n : s[i] = q
  <2>. TAKE q \in Q
  <2>1. PICK i \in Nat : i < n /\ f[i] = q
    BY <1>3 DEF Runs
  <2>2. i + 1 \in 1..n /\ (i + 1) - 1 = i
    BY <1>9, <2>1
  <2>. QED  BY <1>8, <2>1, <2>2
<1>. QED  BY <1>9, <1>10, <1>11 DEF Ordered, s

\* Everything in P is below everything in Q.
Before(P, Q) == \A p \in P, q \in Q : p < q

\* Lists that follow each other.
LEMMA Joined ==
  ASSUME NEW P \in SUBSET Nat, NEW Q \in SUBSET Nat, Before(P, Q), NEW s, NEW t, Ordered(s, P), Ordered(t, Q),
         NEW U, U = P \cup Q
  PROVE  Ordered(s \o t, U)
<1>. DEFINE u == s \o t
<1>1. s \in Seq(U) /\ t \in Seq(U) /\ Len(s) \in Nat /\ Len(t) \in Nat
  <2>1. s \in Seq(P) /\ t \in Seq(Q) /\ Len(s) \in Nat /\ Len(t) \in Nat
    BY DEF Ordered
  <2>. QED  BY <2>1, SeqDef, ElementOfSeq, LenProperties
<1>2. /\ u \in Seq(U) /\ Len(u) = Len(s) + Len(t)
      /\ \A i \in 1..Len(s) + Len(t) : u[i] = IF i <= Len(s) THEN s[i] ELSE t[i - Len(s)]
  BY <1>1, ConcatProperties
<1>. HIDE DEF u
<1>3. /\ \A i \in 1..Len(s) : i \in 1..Len(u) /\ u[i] = s[i] /\ s[i] \in P
      /\ \A i \in 1..Len(t) : i + Len(s) \in 1..Len(u) /\ u[i + Len(s)] = t[i] /\ t[i] \in Q
  <2>1. (\A i \in 1..Len(s) : s[i] \in P) /\ (\A i \in 1..Len(t) : t[i] \in Q)
    BY ElementOfSeq DEF Ordered
  <2>2. ASSUME NEW i \in 1..Len(s) PROVE i \in 1..Len(u) /\ u[i] = s[i]
    BY <1>1, <1>2
  <2>3. ASSUME NEW i \in 1..Len(t) PROVE i + Len(s) \in 1..Len(u) /\ u[i + Len(s)] = t[i]
    <3>1. i + Len(s) \in 1..Len(s) + Len(t) /\ ~(i + Len(s) <= Len(s)) /\ (i + Len(s)) - Len(s) = i
      BY <1>1
    <3>. QED  BY <1>2, <3>1
  <2>. QED  BY <2>1, <2>2, <2>3
<1>4. \A i \in 1..Len(u) : i \in 1..Len(s) \/ (i - Len(s) \in 1..Len(t) /\ (i - Len(s)) + Len(s) = i)
  BY <1>1, <1>2
<1>5. ASSUME NEW i \in 1..Len(u), NEW j \in 1..Len(u), i < j PROVE u[i] < u[j]
  <2>1. CASE i \in 1..Len(s) /\ j \in 1..Len(s)
    <3>1. s[i] < s[j]
      BY <1>5, <2>1 DEF Ordered
    <3>. QED  BY <1>3, <2>1, <3>1
  <2>2. CASE i \in 1..Len(s) /\ j \notin 1..Len(s)
    <3>1. u[i] \in P /\ u[j] \in Q
      BY <1>3, <1>4, <2>2
    <3>. QED  BY <3>1 DEF Before
  <2>3. CASE i \notin 1..Len(s)
    <3>1. j \notin 1..Len(s)
      BY <1>1, <1>2, <1>5, <2>3
    <3>2. /\ i - Len(s) \in 1..Len(t) /\ (i - Len(s)) + Len(s) = i
          /\ j - Len(s) \in 1..Len(t) /\ (j - Len(s)) + Len(s) = j
      BY <1>4, <2>3, <3>1
    <3>3. i - Len(s) < j - Len(s)
      BY <1>1, <1>5, <3>2
    <3>4. t[i - Len(s)] < t[j - Len(s)]
      BY <3>2, <3>3 DEF Ordered
    <3>. QED  BY <1>3, <3>2, <3>4
  <2>. QED  BY <2>1, <2>2, <2>3
<1>6. ASSUME NEW q \in U PROVE \E i \in 1..Len(u) : u[i] = q
  <2>1. CASE q \in P
    <3>1. PICK i \in 1..Len(s) : s[i] = q
      BY <2>1 DEF Ordered
    <3>. QED  BY <1>3, <3>1
  <2>2. CASE q \in Q
    <3>1. PICK i \in 1..Len(t) : t[i] = q
      BY <2>2 DEF Ordered
    <3>. QED  BY <1>3, <3>1
  <2>. QED  BY <2>1, <2>2
<1>7. Len(u) \in Nat
  BY <1>1, <1>2
<1>. QED  BY <1>2, <1>5, <1>6, <1>7 DEF Ordered, u

\* The nodes up to the next section that follow in an end of the document are a list.
End(N, B) == B \subseteq N /\ \A b \in B, c \in N : c > b => c \in B
\* In an end of the document, what is behind a leading node is led by the same section.
LEMMA LeadingBehind ==
  ASSUME NEW N \in SUBSET Nat, NEW S, S \subseteq N, NEW B, End(N, B), NEW x \in Leading(S, B)
  PROVE  x \in N \ S /\ Behind(Leading(S, B), x) = Leading(S, Behind(N, x))
<1>1. x \in B /\ x \in N /\ (\A s \in S \cap B : x < s) /\ x \in Nat /\ x \notin S
  <2>1. x \in B /\ x \in N /\ (\A s \in S \cap B : x < s) /\ x \in Nat
    BY DEF Leading, End
  <2>2. x \in S => x < x
    BY <2>1
  <2>. QED  BY <2>1, <2>2
<1>2. ASSUME NEW c \in Behind(Leading(S, B), x) PROVE c \in Leading(S, Behind(N, x))
  <2>1. c \in B /\ c > x /\ c \in N /\ (\A s \in S \cap B : c < s)
    BY <1>2 DEF Behind, Leading, End
  <2>2. \A s \in S \cap Behind(N, x) : s \in B
    BY <1>1 DEF End, Behind
  <2>. QED  BY <2>1, <2>2 DEF Behind, Leading
<1>3. ASSUME NEW c \in Leading(S, Behind(N, x)) PROVE c \in Behind(Leading(S, B), x)
  <2>1. c \in N /\ c > x /\ (\A s \in S \cap Behind(N, x) : c < s) /\ c \in B
    BY <1>1 DEF Behind, Leading, End
  <2>2. \A s \in S \cap B : s > x /\ s \in N
    BY <1>1 DEF End
  <2>3. \A s \in S \cap B : s \in S \cap Behind(N, x)
    BY <2>2 DEF Behind
  <2>. QED  BY <2>1, <2>3 DEF Behind, Leading
<1>. QED  BY <1>1, <1>2, <1>3

\* The list of nodes before a section.
LEMMA LeadingList ==
  ASSUME NEW m, NEW N \in SUBSET Nat, NULL \notin N, Within(N, brk), NEW S, S \subseteq N, Links(m, N, S),
         NEW B, End(N, B), NEW Q, Q = Leading(S, B), NEW p, First(Q, p)
  PROVE  Ordered(List(m, p), Q)
<1>1. Q \subseteq N /\ Q \in SUBSET Nat /\ NULL \notin Q /\ Within(Q, brk)
  BY DEF Leading, End, Within
<1>2. ASSUME NEW x \in Q PROVE First(Behind(Q, x), m[x].next)
  <2>1. x \in N \ S /\ Behind(Leading(S, B), x) = Leading(S, Behind(N, x))
    BY LeadingBehind
  <2>2. x \in N \ S /\ Behind(Q, x) = Leading(S, Behind(N, x))
    BY <2>1
  <2>. QED  BY <2>2 DEF Links
<1>. QED  BY <1>1, <1>2, ListIs

\* The list of sections.
LEMMA SectionList ==
  ASSUME NEW m, NEW N \in SUBSET Nat, NULL \notin N, Within(N, brk), NEW S, S \subseteq N, Links(m, N, S), NEW p, First(S, p)
  PROVE  Ordered(List(m, p), S)
<1>1. S \in SUBSET Nat /\ NULL \notin S /\ Within(S, brk)
  BY DEF Within
<1>2. \A x \in S : First(Behind(S, x), m[x].next)
  BY DEF Links
<1>. QED  BY <1>1, <1>2, ListIs

\* A section and its nodes.
Part(N, S, s) == {s} \cup Leading(S, Behind(N, s))

\* The list of a section and what belongs to it.
LEMMA PartList ==
  ASSUME NEW m, NEW N \in SUBSET Nat, NULL \notin N, Within(N, brk), NEW S, S \subseteq N, Links(m, N, S),
         NEW s \in S, NEW p, First(Leading(S, Behind(N, s)), p)
  PROVE  Ordered(<<s>> \o List(m, p), Part(N, S, s))
<1>. DEFINE Q == Leading(S, Behind(N, s))
            l == List(m, p)
<1>1. s \in Nat /\ End(N, Behind(N, s))
  BY DEF End, Behind
<1>2. Ordered(l, Q)
  BY <1>1, LeadingList
<1>3. Q \in SUBSET Nat /\ {s} \in SUBSET Nat /\ Before({s}, Q)
  BY <1>1 DEF Before, Leading, Behind
<1>4. Ordered(<<s>>, {s})
  BY <1>1 DEF Ordered
<1>5. Part(N, S, s) = {s} \cup Q
  BY DEF Part
<1>6. PICK P, t : P = {s} /\ t = <<s>>
  OBVIOUS
<1>. HIDE DEF Q, l
<1>7. Ordered(t \o l, Part(N, S, s))
  BY <1>2, <1>3, <1>4, <1>5, <1>6, Joined
<1>. QED  BY <1>6, <1>7 DEF l

\* The document is its preamble and one part for each section, one after the other.
LEMMA PartsAre ==
  ASSUME NEW N \in SUBSET Nat, NEW S, S \subseteq N
  PROVE  /\ \A s \in S : Part(N, S, s) \subseteq N /\ s \in Part(N, S, s)
         /\ \A s, t \in S : s < t => Before(Part(N, S, s), Part(N, S, t))
         /\ \A s \in S : Before(Leading(S, N), Part(N, S, s))
         /\ \A c \in N : c \in Leading(S, N) \/ \E s \in S : c \in Part(N, S, s)
<1>1. \A s \in S : Part(N, S, s) \subseteq N /\ s \in Part(N, S, s)
  BY DEF Part, Leading, Behind
<1>2. ASSUME NEW s \in S, NEW t \in S, s < t, NEW p \in Part(N, S, s), NEW q \in Part(N, S, t) PROVE p < q
  <2>1. p \in Nat /\ q \in Nat /\ t \in Nat /\ s \in Nat
    BY <1>1
  <2>2. p < t
    BY <1>2 DEF Part, Leading, Behind
  <2>3. t <= q
    BY <2>1 DEF Part, Leading, Behind
  <2>. QED  BY <2>1, <2>2, <2>3
<1>3. ASSUME NEW s \in S, NEW p \in Leading(S, N), NEW q \in Part(N, S, s) PROVE p < q
  <2>1. p \in Nat /\ q \in Nat /\ s \in Nat /\ p < s
    BY <1>1 DEF Leading
  <2>2. s <= q
    BY <2>1 DEF Part, Leading, Behind
  <2>. QED  BY <2>1, <2>2
<1>4. ASSUME NEW c \in N, c \notin Leading(S, N) PROVE \E s \in S : c \in Part(N, S, s)
  <2>. DEFINE T == {s \in S : s <= c}
  <2>1. T # {}
    <3>1. PICK s \in S : ~(c < s)
      BY <1>4 DEF Leading
    <3>2. s \in Nat /\ c \in Nat
      OBVIOUS
    <3>. QED  BY <3>1, <3>2
  <2>2. PICK s \in T : \A k \in T : k <= s
    <3>1. T \in SUBSET Nat /\ c \in Nat /\ \A k \in T : k <= c
      OBVIOUS
    <3>. HIDE DEF T
    <3>. QED  BY <2>1, <3>1, Greatest
  <2>3. CASE c = s
    BY <2>2, <2>3 DEF Part
  <2>4. CASE c # s
    <3>1. c > s /\ c \in Behind(N, s)
      BY <2>2, <2>4 DEF Behind
    <3>2. ASSUME NEW u \in S \cap Behind(N, s) PROVE c < u
      <4>1. u > s /\ u \in Nat /\ s \in Nat /\ c \in Nat /\ u \in S
        BY <2>2 DEF Behind
      <4>2. u \notin T
        BY <2>2, <4>1
      <4>. QED  BY <4>1, <4>2
    <3>. QED  BY <2>2, <3>1, <3>2 DEF Part, Leading
  <2>. QED  BY <2>3, <2>4
<1>5. (\A s, t \in S : s < t => Before(Part(N, S, s), Part(N, S, t))) /\ (\A s \in S : Before(Leading(S, N), Part(N, S, s)))
  BY <1>2, <1>3 DEF Before
<1>. QED  BY <1>1, <1>4, <1>5

\* The sequence of sequences joined up to each of its members.
Flat(t) == CHOOSE f : f = [i \in 1..Len(t) |-> IF i = 1 THEN t[i] ELSE f[i - 1] \o t[i]]
\* The equations of that function.
Flattened(f, t) ==
  f[1] = t[1] /\ \A i \in Nat : i + 2 <= Len(t) => f[i + 2] = f[i + 1] \o t[i + 2]

\* The function is what FlattenSeq of the library computes.
LEMMA FlatIs ==
  ASSUME NEW N, NEW t, Len(t) \in Nat, Len(t) # 0, \A i \in 1..Len(t) : t[i] \in Seq(N)
  PROVE  Flattened(Flat(t), t) /\ FlattenSeq(t) = Flat(t)[Len(t)]
<1>. DEFINE n == Len(t)
            D == Seq(N)
            s == [x \in Nat \X D |-> IF x[1] + 2 <= n THEN x[2] \o t[x[1] + 2] ELSE x[2]]
            F(f) == [i \in 1..n |-> IF i = 1 THEN t[i] ELSE f[i - 1] \o t[i]]
<1>1. t[1] \in D
  OBVIOUS
<1>2. s \in [Nat \X D -> D]
  <2>1. \A u, v \in D : u \o v \in D
    BY ConcatProperties
  <2>2. \A i \in Nat : i + 2 <= n => t[i + 2] \in D
    OBVIOUS
  <2>. HIDE DEF D
  <2>. QED  BY <2>1, <2>2
<1>3. PICK g : Recursive(g, D, t[1], s)
  <2>. HIDE DEF D, s
  <2>. QED  BY ONLY <1>1, <1>2, Recursion
<1>4. g[0] = t[1] /\ \A i \in Nat : i + 2 <= n => g[i + 1] = g[i] \o t[i + 2]
  <2>1. g \in [Nat -> D] /\ g[0] = t[1] /\ \A i \in Nat : g[i + 1] = s[<<i, g[i]>>]
    BY <1>3 DEF Recursive
  <2>. HIDE DEF D
  <2>2. ASSUME NEW i \in Nat, i + 2 <= n PROVE s[<<i, g[i]>>] = g[i] \o t[i + 2]
    BY <2>1, <2>2
  <2>. QED  BY <2>1, <2>2
<1>. DEFINE h == [i \in 1..n |-> g[i - 1]]
<1>5. h = F(h)
  <2>1. ASSUME NEW i \in 1..n, i # 1 PROVE h[i] = h[i - 1] \o t[i]
    <3>1. PICK k \in Nat : i = k + 2
      <4>1. i - 2 \in Nat /\ i = (i - 2) + 2
        BY <2>1
      <4>. QED  BY <4>1
    <3>2. i - 1 \in 1..n /\ i - 1 = k + 1 /\ (i - 1) - 1 = k /\ k + 2 <= n
      BY <2>1, <3>1
    <3>3. g[k + 1] = g[k] \o t[i]
      BY <1>4, <3>1, <3>2
    <3>4. h[i] = g[k + 1] /\ h[i - 1] = g[k]
      BY <3>2
    <3>. QED  BY <3>3, <3>4
  <2>2. h[1] = t[1]
    BY <1>4
  <2>3. h = [i \in 1..n |-> h[i]]
    OBVIOUS
  <2>. HIDE DEF h
  <2>4. \A i \in 1..n : F(h)[i] = h[i]
    BY <2>1, <2>2
  <2>. QED  BY <2>3, <2>4
<1>. DEFINE f == Flat(t)
<1>6. f = F(f)
  <2>. HIDE DEF h
  <2>. QED  BY <1>5 DEF Flat
<1>. HIDE DEF f
<1>7. Flattened(f, t)
  <2>1. f[1] = t[1]
    BY <1>6
  <2>2. ASSUME NEW i \in Nat, i + 2 <= n PROVE f[i + 2] = f[i + 1] \o t[i + 2]
    <3>1. i + 2 \in 1..n /\ i + 2 # 1 /\ (i + 2) - 1 = i + 1
      BY <2>2
    <3>. QED  BY <1>6, <3>1
  <2>. QED  BY <2>1, <2>2 DEF Flattened
<1>8. FlattenSeq(t) = f[n]
  BY DEF FlattenSeq, Flat, f
<1>. QED  BY <1>7, <1>8 DEF f

\* The sections with their nodes, one after the other.
LEMMA FlattenIs ==
  ASSUME NEW N \in SUBSET Nat, NEW S, S \subseteq N, NEW s, Ordered(s, S),
         NEW t, t \in Seq(Seq(N)), Len(t) = Len(s), \A i \in 1..Len(s) : Ordered(t[i], Part(N, S, s[i])),
         NEW U, U = N \ Leading(S, N)
  PROVE  Ordered(FlattenSeq(t), U)
<1>. DEFINE n == Len(s)
            P(i) == Part(N, S, s[i])
            Upto(i) == {c \in N : \E j \in 1..i : c \in P(j)}
<1>1. n \in Nat /\ (\A i \in 1..n : s[i] \in S) /\ (\A i, j \in 1..n : i < j => s[i] < s[j]) /\ (\A q \in S : \E i \in 1..n : s[i] = q)
  BY ElementOfSeq DEF Ordered
<1>2. /\ \A i \in 1..n : P(i) \subseteq N
      /\ \A i, j \in 1..n : i < j => Before(P(i), P(j))
  BY <1>1, PartsAre
<1>. \A c \in N : c \in Leading(S, N) \/ \E q \in S : c \in Part(N, S, q)
  BY PartsAre
<1>3. U = Upto(n)
  <2>1. ASSUME NEW c \in U PROVE c \in Upto(n)
    <3>1. PICK q \in S : c \in Part(N, S, q)
      BY <2>1
    <3>2. PICK i \in 1..n : s[i] = q
      BY <1>1
    <3>. QED  BY <3>1, <3>2
  <2>2. ASSUME NEW c \in Upto(n) PROVE c \in U
    <3>1. PICK i \in 1..n : c \in P(i)
      OBVIOUS
    <3>2. Before(Leading(S, N), P(i))
      BY <1>1, PartsAre
    <3>3. c \notin Leading(S, N)
      <4>1. c \in Leading(S, N) => c < c
        BY <3>1, <3>2 DEF Before
      <4>2. c \in Nat
        OBVIOUS
      <4>. QED  BY <4>1, <4>2
    <3>. QED  BY <3>3
  <2>. QED  BY <2>1, <2>2
<1>4. CASE n = 0
  <2>1. t = <<>>
    BY <1>4, EmptySeq
  <2>2. FlattenSeq(t) = t
    BY <1>4 DEF FlattenSeq
  <2>3. U = {}
    BY <1>3, <1>4
  <2>4. <<>> \in Seq({}) /\ Len(<<>>) = 0 /\ 1..0 = {}
    OBVIOUS
  <2>5. Ordered(<<>>, {})
    BY <2>4 DEF Ordered
  <2>. QED  BY <2>1, <2>2, <2>3, <2>5
<1>5. CASE n # 0
  <2>. DEFINE f == Flat(t)
  <2>1. Flattened(f, t) /\ FlattenSeq(t) = f[n]
    <3>1. Len(t) \in Nat /\ Len(t) # 0 /\ \A i \in 1..Len(t) : t[i] \in Seq(N)
      BY <1>1, <1>5, ElementOfSeq
    <3>. QED  BY <3>1, FlatIs
  <2>. HIDE DEF f
  <2>. DEFINE I == {i \in Nat : i < n => Ordered(f[i + 1], Upto(i + 1))}
  <2>2. 0 \in I
    <3>1. Upto(1) = P(1) /\ f[1] = t[1] /\ 0 + 1 = 1
      BY <1>2, <1>5, <1>1, <2>1 DEF Flattened
    <3>2. Ordered(t[1], P(1))
      BY <1>1, <1>5
    <3>. HIDE DEF Upto, P
    <3>. QED  BY <3>1, <3>2
  <2>3. ASSUME NEW i \in Nat, i \in I PROVE i + 1 \in I
    <3>. SUFFICES ASSUME i + 1 < n PROVE Ordered(f[i + 2], Upto(i + 2))
      <4>1. (i + 1) + 1 = i + 2 /\ i + 1 \in Nat
        OBVIOUS
      <4>. HIDE DEF Upto
      <4>. QED  BY <4>1
    <3>1. i < n /\ i + 2 \in 1..n /\ i + 2 <= Len(t)
      BY <1>1
    <3>2. Ordered(f[i + 1], Upto(i + 1)) /\ Ordered(t[i + 2], P(i + 2))
      <4>. HIDE DEF Upto
      <4>. QED  BY <2>3, <3>1
    <3>3. f[i + 2] = f[i + 1] \o t[i + 2]
      BY <2>1, <3>1 DEF Flattened
    <3>4. Before(Upto(i + 1), P(i + 2))
      <4>1. \A j \in 1..i + 1 : j \in 1..n /\ j < i + 2
        BY <1>1, <3>1
      <4>. HIDE DEF P
      <4>. QED  BY <1>2, <3>1, <4>1 DEF Before
    <3>5. Upto(i + 2) = Upto(i + 1) \cup P(i + 2)
      <4>1. \A j : j \in 1..i + 2 <=> j \in 1..i + 1 \/ j = i + 2
        OBVIOUS
      <4>. HIDE DEF P
      <4>. QED  BY <1>2, <3>1, <4>1
    <3>6. Upto(i + 1) \in SUBSET Nat /\ P(i + 2) \in SUBSET Nat
      BY <1>2, <3>1
    <3>7. PICK P1, P2, U2 : P1 = Upto(i + 1) /\ P2 = P(i + 2) /\ U2 = Upto(i + 2)
      OBVIOUS
    <3>. HIDE DEF Upto, P
    <3>8. /\ P1 \in SUBSET Nat /\ P2 \in SUBSET Nat /\ Before(P1, P2) /\ Ordered(f[i + 1], P1)
          /\ Ordered(t[i + 2], P2) /\ U2 = P1 \cup P2
      BY <3>2, <3>4, <3>5, <3>6, <3>7
    <3>9. Ordered(f[i + 1] \o t[i + 2], U2)
      BY ONLY <3>8, Joined
    <3>. QED  BY <3>3, <3>7, <3>9
  <2>4. Nat \subseteq I
    <3>. HIDE DEF I
    <3>. QED  BY <2>2, <2>3, Induct
  <2>5. n - 1 \in Nat /\ n - 1 < n /\ (n - 1) + 1 = n
    BY <1>1, <1>5
  <2>6. Ordered(f[n], Upto(n))
    <3>. HIDE DEF Upto, n
    <3>. QED  BY <2>4, <2>5
  <2>. QED  BY <1>3, <2>1, <2>6
<1>. QED  BY <1>4, <1>5

\* The nodes that a traversal comes to are those of the document, in order.
LEMMA NodesAre ==
  ASSUME NEW N \in SUBSET Nat, NULL \notin N, Within(N, brk), NEW S, S \subseteq N,
         Links(mem, N, S), Heads(mem, doc, N, S), Subs(mem, N, S, NULL)
  PROVE  Ordered(Sections, S) /\ Ordered(Nodes, N)
<1>. DEFINE s == Sections
            t == [i \in DOMAIN s |-> <<s[i]>> \o NodesOf(s[i])]
            L == Leading(S, N)
            U == N \ L
<1>1. First(L, mem[doc].preamble) /\ First(S, mem[doc].section)
  BY DEF Heads
<1>2. Ordered(s, S)
  BY <1>1, SectionList DEF Sections
<1>3. Ordered(List(mem, mem[doc].preamble), L)
  <2>1. End(N, N)
    BY DEF End
  <2>. HIDE DEF L
  <2>2. L = Leading(S, N)
    BY DEF L
  <2>. QED  BY <1>1, <2>1, <2>2, LeadingList
<1>. HIDE DEF s
<1>4. Len(s) \in Nat /\ DOMAIN s = 1..Len(s) /\ \A i \in 1..Len(s) : s[i] \in S
  BY <1>2, ElementOfSeq, LenProperties DEF Ordered
<1>5. ASSUME NEW i \in 1..Len(s) PROVE Ordered(<<s[i]>> \o NodesOf(s[i]), Part(N, S, s[i]))
  <2>1. s[i] \in S /\ s[i] # NULL
    BY <1>4
  <2>2. First(Leading(S, Behind(N, s[i])), Detail(mem, s[i]).sub)
    BY <2>1 DEF Subs
  <2>. QED  BY <2>1, <2>2, PartList DEF NodesOf
<1>6. t \in Seq(Seq(N)) /\ Len(t) = Len(s) /\ \A i \in 1..Len(s) : Ordered(t[i], Part(N, S, s[i]))
  <2>1. ASSUME NEW i \in 1..Len(s) PROVE <<s[i]>> \o NodesOf(s[i]) \in Seq(N)
    <3>1. <<s[i]>> \o NodesOf(s[i]) \in Seq(Part(N, S, s[i]))
      BY <1>5 DEF Ordered
    <3>2. Part(N, S, s[i]) \subseteq N
      <4>1. \A x \in S : Part(N, S, x) \subseteq N
        BY PartsAre
      <4>. QED  BY <1>4, <4>1
    <3>. QED  BY <3>1, <3>2, SeqDef, ElementOfSeq, LenProperties
  <2>2. t \in [1..Len(s) -> Seq(N)]
    BY <1>4, <2>1
  <2>3. \A i \in 1..Len(s) : t[i] = <<s[i]>> \o NodesOf(s[i])
    BY <1>4
  <2>. HIDE DEF t
  <2>4. t \in Seq(Seq(N)) /\ Len(t) = Len(s)
    BY <1>4, <2>2, SeqDef, LenProperties
  <2>. QED  BY <1>5, <2>3, <2>4
<1>. HIDE DEF t
<1>7. Ordered(FlattenSeq(t), U)
  <2>1. U = N \ Leading(S, N)
    OBVIOUS
  <2>. HIDE DEF U
  <2>. QED  BY <1>2, <1>6, <2>1, FlattenIs
<1>8. Before(L, U)
  <2>1. ASSUME NEW p \in L, NEW q \in U PROVE p < q
    <3>0. \A c \in N : c \in Leading(S, N) \/ \E x \in S : c \in Part(N, S, x)
      BY PartsAre
    <3>1. PICK x \in S : q \in Part(N, S, x)
      BY <3>0
    <3>2. Before(Leading(S, N), Part(N, S, x))
      BY PartsAre
    <3>. QED  BY <3>1, <3>2 DEF Before
  <2>. HIDE DEF L, U
  <2>. QED  BY <2>1 DEF Before
<1>9. L \in SUBSET Nat /\ U \in SUBSET Nat /\ N = L \cup U
  BY DEF Leading
<1>10. Nodes = List(mem, mem[doc].preamble) \o FlattenSeq(t)
  BY DEF Nodes, t, s
<1>. HIDE DEF L, U
<1>11. Ordered(List(mem, mem[doc].preamble) \o FlattenSeq(t), N)
  BY <1>3, <1>7, <1>8, <1>9, Joined
<1>. QED  BY <1>2, <1>10, <1>11 DEF s

-----------------------------------------------------------------------------
\* The program, when no traversal runs.

\* Same nodes have the same pointers.
LEMMA SameKept ==
  ASSUME NEW m, NEW m2, NEW N, NEW S, Sorts(m, N, S), Same(m, m2, N), NEW a
  PROVE  Kept(m, m2, N, S, a)
BY DEF Sorts, Same, Kept

\* A document with the same pointers is the same.
LEMMA DocumentKept ==
  ASSUME NEW m, NEW m2, NEW d, NEW N, NEW S, S \subseteq N, NEW a, Kept(m, m2, N, S, a), m2[d] = m[d],
         Heads(m, d, N, S), NoOrphans(m, N, S), NEW x, Subs(m, N, S, x)
  PROVE  Heads(m2, d, N, S) /\ NoOrphans(m2, N, S) /\ Subs(m2, N, S, x)
BY DEF Kept, Heads, NoOrphans, Subs

\* A step that leaves the lists and the position of the program alone.
LEMMA StepOutside ==
  ASSUME NEW N \in SUBSET Nat, NEW S \in SUBSET Nat, NEW B \in SUBSET Nat, Good(N, S, B), Idle, pc \in {"idle", "ready"},
         UNCHANGED <<doc, pc, parse, walk>>, Types', RootsApart', Objects', Sound(mem', brk', N, S, Roots'),
         NEW a, Kept(mem, mem', N, S, a), doc # NULL => mem'[doc] = mem[doc]
  PROVE  Good(N, S, B)'
<1>1. Phases(N) /\ Document(N, S) /\ walk = NoWalk /\ walk.job = "none" /\ S \subseteq N
  BY DEF Good, Walking, Idle, Sound, Body, Sorts
<1>2. Phases(N)'
  BY <1>1 DEF Phases, Idle
<1>3. Document(N, S)'
  <2>. SUFFICES ASSUME doc # NULL PROVE Heads(mem', doc, N, S) /\ NoOrphans(mem', N, S) /\ Subs(mem', N, S, NULL)
    BY <1>1 DEF Document
  <2>1. Heads(mem, doc, N, S) /\ NoOrphans(mem, N, S) /\ Subs(mem, N, S, NULL)
    BY <1>1 DEF Document
  <2>. QED  BY <1>1, <2>1, DocumentKept
<1>4. Walking(N, S, B)' /\ Parsing(N, S)' /\ Buffered(N)'
  BY <1>1 DEF Walking, Parsing, Buffered, Idle
<1>. QED  BY <1>2, <1>3, <1>4 DEF Good

\* A traversal begins with all the nodes before it.
LEMMA TraversalBegins ==
  ASSUME NEW N \in SUBSET Nat, NEW S \in SUBSET Nat, NEW B \in SUBSET Nat, Good(N, S, B), Ready,
         NEW job \in Jobs, job # "none", Begin(job), job = "buffer" => Filling',
         UNCHANGED <<doc, pc, parse>>, Types', RootsApart', Objects', Sound(mem', brk', N, S, Roots'),
         NEW a, Kept(mem, mem', N, S, a), mem'[doc] = mem[doc]
  PROVE  Good(N, S, N)'
<1>1. Phases(N) /\ Document(N, S) /\ walk = NoWalk /\ walk.job = "none" /\ S \subseteq N /\ pc = "ready"
  BY DEF Good, Walking, Idle, Sound, Body, Sorts, Ready
<1>2. doc # NULL /\ parse.section = NULL /\ parse.prev = NULL /\ parse.buf = NULL
  BY <1>1 DEF Phases
<1>3. Heads(mem, doc, N, S) /\ NoOrphans(mem, N, S) /\ Subs(mem, N, S, NULL)
  BY <1>1, <1>2 DEF Document
<1>4. Heads(mem', doc, N, S) /\ NoOrphans(mem', N, S) /\ Subs(mem', N, S, NULL)
  BY <1>1, <1>3, DocumentKept
<1>5. Walking(N, S, N)' /\ walk'.job = job /\ walk'.sec = NULL
  BY <1>1, <1>3, WalkBegins
<1>6. Phases(N)'
  BY <1>1, <1>2, <1>5 DEF Phases, Idle
<1>7. Document(N, S)'
  BY <1>4, <1>5 DEF Document
<1>8. Parsing(N, S)' /\ Buffered(N)'
  BY <1>1, <1>5 DEF Parsing, Buffered
<1>. QED  BY <1>5, <1>6, <1>7, <1>8 DEF Good

\* A traversal of the program, which leaves the heap alone.
LEMMA ProgramBegins ==
  ASSUME NEW N \in SUBSET Nat, NEW S \in SUBSET Nat, NEW B \in SUBSET Nat, Good(N, S, B), Ready, Alike,
         NEW job \in Jobs, job # "none", job # "map", Begin(job), job = "buffer" => Filling',
         UNCHANGED <<heap, doc, pc, parse, settings, lost>>, text' \in Word, buf' \in BufType
  PROVE  Good(N, S, N)'
<1>1. /\ Types /\ RootsApart /\ Objects /\ Phases(N) /\ Document(N, S) /\ Sound(mem, brk, N, S, Roots) /\ pc = "ready" /\ doc # NULL
  BY DEF Good, Ready, Phases
<1>2. Roots' = Roots /\ RootsApart'
  BY <1>1, RootsKept
<1>3. Sorts(mem, N, S) /\ Heads(mem, doc, N, S) /\ S \subseteq N
  BY <1>1 DEF Sound, Body, Sorts, Document, Ready, Idle
<1>4. Kept(mem, mem, N, S, NULL)
  BY <1>3, SameKept DEF Same
<1>5. walk' \in WalkType /\ walk'.job = job
  BY <1>3, WalkBegins DEF heap
<1>6. Types'
  <2>1. obj' \in [Obj -> Members]
    BY DEF Alike
  <2>. QED  BY <1>1, <1>5, <2>1 DEF Types, Members, settings, WalkType, BufType
<1>7. Objects'
  BY <1>1, <1>5, ObjectsKept
<1>8. Sound(mem', brk', N, S, Roots') /\ Kept(mem, mem', N, S, NULL) /\ mem'[doc] = mem[doc]
  BY <1>1, <1>2, <1>4 DEF heap
<1>9. Good(N, S, N)'
  BY <1>2, <1>6, <1>7, <1>8, TraversalBegins
<1>. QED  BY <1>9

\* Each of the traversals of the program begins like this.
LEMMA DumpsBegin ==
  ASSUME NEW N \in SUBSET Nat, NEW S \in SUBSET Nat, NEW B \in SUBSET Nat, Good(N, S, B), Alike,
         ini_dump_to_stream \/ ini_dump_to_buffer \/ ini_destroy \/ TestGettersAndSetters
  PROVE  Good(N, S, N)'
<1>1. Types /\ text \in Word /\ buf \in BufType
  BY DEF Good, Types, BufType
<1>2. CASE ini_dump_to_stream
  <2>1. /\ Ready /\ Begin("stream") /\ UNCHANGED <<heap, doc, pc, parse, settings, lost>> /\ text' \in Word /\ buf' \in BufType
    BY <1>1, <1>2, EmptyWord DEF ini_dump_to_stream, Operate
  <2>. QED  BY <2>1, ProgramBegins DEF Jobs
<1>3. CASE ini_destroy
  <2>1. /\ Ready /\ Begin("destroy") /\ UNCHANGED <<heap, doc, pc, parse, settings, lost>> /\ text' \in Word /\ buf' \in BufType
    BY <1>1, <1>3 DEF ini_destroy
  <2>. QED  BY <2>1, ProgramBegins DEF Jobs
<1>4. CASE TestGettersAndSetters
  <2>1. /\ Ready /\ Begin("edit") /\ UNCHANGED <<heap, doc, pc, parse, settings, lost>> /\ text' \in Word /\ buf' \in BufType
    BY <1>1, <1>4 DEF TestGettersAndSetters, Operate
  <2>. QED  BY <2>1, ProgramBegins DEF Jobs
<1>5. CASE ini_dump_to_buffer
  <2>1. /\ Ready /\ Begin("buffer") /\ UNCHANGED <<heap, doc, pc, parse, settings, lost>> /\ text' \in Word
    BY <1>5, EmptyWord DEF ini_dump_to_buffer, Operate
  <2>2. PICK len \in Buffers, allow_resizing \in BOOLEAN :
          LET total == IF len = 0 THEN FirstTotal ELSE len
          IN buf' = [size |-> len, first |-> total, total |-> total, used |-> 0, allow_resizing |-> allow_resizing]
    BY <1>5 DEF ini_dump_to_buffer
  <2>3. buf' \in BufType /\ Filling'
    <3>1. len \in Nat /\ FirstTotal \in Nat
      BY IniAssumption
    <3>2. CASE len = 0
      BY <2>2, <3>1, <3>2 DEF BufType, Filling
    <3>3. CASE len # 0
      BY <2>2, <3>1, <3>3 DEF BufType, Filling
    <3>. QED  BY <3>2, <3>3
  <2>. QED  BY <2>1, <2>3, ProgramBegins DEF Jobs
<1>. QED  BY <1>2, <1>3, <1>4, <1>5

\* One setter.
LEMMA SetKeeps ==
  ASSUME NEW N \in SUBSET Nat, NEW S \in SUBSET Nat, NEW B \in SUBSET Nat, Good(N, S, B), Set, Alike
  PROVE  Good(N, S, B)'
<1>1. Ready /\ UNCHANGED <<doc, pc, parse, walk, buf, err, settings, text, lost, parses>>
  BY DEF Set, Operate
<1>2. /\ Types /\ RootsApart /\ Objects /\ Phases(N) /\ Document(N, S) /\ Sound(mem, brk, N, S, Roots)
      /\ pc = "ready" /\ Idle /\ doc # NULL /\ walk.job = "none"
  BY <1>1 DEF Good, Ready, Phases, Idle
<1>3. Heads(mem, doc, N, S) /\ Subs(mem, N, S, NULL) /\ S \subseteq N /\ Links(mem, N, S) /\ NULL \notin N
  <2>1. Body(mem, brk, N, S, Roots)
    BY <1>2 DEF Sound
  <2>2. NULL \notin N
    BY <2>1, RootsAreApart
  <2>. QED  BY <1>2, <2>1, <2>2 DEF Document, Sound, Body, Sorts
<1>4. Within(N, brk)
  <2>1. Body(mem, brk, N, S, Roots)
    BY <1>2 DEF Sound
  <2>2. N \subseteq DOMAIN mem /\ DOMAIN mem \subseteq 1..brk /\ brk \in Nat
    BY <2>1, RootsAreApart DEF Body, Extent
  <2>. QED  BY <2>2 DEF Within
<1>5. Range(Nodes) \subseteq N
  <2>1. Ordered(Nodes, N)
    BY <1>3, <1>4, NodesAre
  <2>2. \A x \in Range(Nodes) : \E i \in DOMAIN Nodes : x = Nodes[i]
    BY DEF Range
  <2>3. DOMAIN Nodes = 1..Len(Nodes) /\ \A i \in 1..Len(Nodes) : Nodes[i] \in N
    BY <2>1, ElementOfSeq, LenProperties DEF Ordered
  <2>. QED  BY <2>2, <2>3
<1>20. PICK a \in N, t \in EditTexts :
          \E r \in ini_section_rename(Now, a, t) \cup ini_item_set_key(Now, a, t)
                  \cup ini_item_set_value(Now, a, t) \cup ini_comment_set(Now, a, t) :
            mem' = r.mem /\ brk' = r.brk
  BY <1>5 DEF Set
<1>6. PICK r \in ini_section_rename(Now, a, t) \cup ini_item_set_key(Now, a, t)
                \cup ini_item_set_value(Now, a, t) \cup ini_comment_set(Now, a, t) :
           mem' = r.mem /\ brk' = r.brk
  BY <1>20
<1>7. Edited(Now, r, N, S, Roots, a)
  <2>1. t \in Word
    BY TextWords
  <2>2. IsNow(Now) /\ Now.err \in Errors /\ Sound(Now.mem, Now.brk, N, S, Roots)
    BY <1>2, NowIs
  <2>. QED  BY <1>6, <2>1, <2>2, RenameKeeps, SetKeyKeeps, SetValueKeeps, SetCommentKeeps
<1>8. Roots' = Roots /\ RootsApart'
  BY <1>1, <1>2, RootsKept
<1>9. Sound(mem', brk', N, S, Roots') /\ Kept(mem, mem', N, S, a) /\ \A x \in Roots : mem'[x] = mem[x]
  BY <1>6, <1>7, <1>8, NowIs DEF Edited
<1>10. mem'[doc] = mem[doc]
  <2>1. doc \in Roots
    BY <1>2 DEF Roots
  <2>. QED  BY <1>9, <2>1
<1>11. Types'
  <2>1. obj' \in [Obj -> Members]
    BY DEF Alike
  <2>. QED  BY <1>1, <1>2, <2>1 DEF Types, Members, settings
<1>12. Objects'
  BY <1>1, <1>2, ObjectsKept
<1>13. Good(N, S, B)'
  BY <1>1, <1>2, <1>8, <1>9, <1>10, <1>11, <1>12, StepOutside
<1>. QED  BY <1>13

-----------------------------------------------------------------------------
\* Traversals.

\* There is a node to be visited.
Visiting == ~Idle /\ (walk.sec = NULL => walk.outer # NULL) /\ (walk.sec # NULL => walk.inner # NULL)

\* v is the first of the nodes B, and where it is.
Coming(N, S, B, v) ==
  /\ v \in B /\ v \in N /\ B \ {v} = Behind(N, v) /\ v # NULL /\ v \in Nat
  /\ Inside <=> walk.sec # NULL
  /\ Inside => walk.header = 2 /\ v = walk.inner /\ v # walk.sec
  /\ ~Inside => v = walk.outer
  /\ v \in S <=> ~Inside /\ walk.header = 2

\* The node that is visited is the first of those before the traversal.
LEMMA VisitedIs ==
  ASSUME NEW N \in SUBSET Nat, NEW S, S \subseteq N, NEW B, NULL \notin N, Walking(N, S, B), Visiting
  PROVE  Coming(N, S, B, Visited)
<1>1. /\ B \subseteq N /\ (\A b \in B, c \in N : c > b => c \in B) /\ walk.header \in {1, 2}
      /\ walk.sec = NULL => walk.inner = NULL /\ walk.outer # NULL
      /\ walk.header = 1 => walk.sec = NULL /\ First(Leading(S, B), walk.outer)
      /\ walk.header = 2 => First(Leading(S, B), walk.inner) /\ First(S \cap B, walk.outer)
      /\ walk.sec # NULL => walk.sec \in S \ B /\ walk.inner # NULL
  BY DEF Walking, Visiting
<1>2. B \in SUBSET Nat /\ B \in SUBSET N
  BY <1>1
<1>3. Inside <=> walk.sec # NULL
  BY <1>1 DEF Inside
<1>4. ASSUME NEW v \in B, \A c \in B : v <= c PROVE v \in N /\ B \ {v} = Behind(N, v) /\ v # NULL /\ v \in Nat
  BY <1>1, <1>2, <1>4, AfterFirst
<1>5. CASE Inside
  <2>1. walk.header = 2 /\ walk.inner # NULL /\ Visited = walk.inner
    BY <1>1, <1>3, <1>5 DEF Visited
  <2>2. walk.inner \in B \ S /\ \A c \in B : walk.inner <= c
    BY <1>1, <1>2, <2>1, FirstLeading
  <2>. QED  BY <1>1, <1>3, <1>4, <1>5, <2>1, <2>2 DEF Coming
<1>6. CASE ~Inside /\ walk.header = 1
  <2>1. walk.outer # NULL /\ Visited = walk.outer /\ First(Leading(S, B), walk.outer)
    BY <1>1, <1>3, <1>6 DEF Visited
  <2>2. walk.outer \in B \ S /\ \A c \in B : walk.outer <= c
    BY <1>2, <2>1, FirstLeading
  <2>. QED  BY <1>3, <1>4, <1>6, <2>1, <2>2 DEF Coming
<1>7. CASE ~Inside /\ walk.header = 2
  <2>1. walk.outer # NULL /\ Visited = walk.outer /\ First(Leading(S, B), NULL) /\ First(S \cap B, walk.outer)
    BY <1>1, <1>3, <1>7 DEF Visited, Inside
  <2>2. walk.outer \in S \cap B /\ \A c \in B : walk.outer <= c
    BY <1>2, <2>1, FirstSection
  <2>. QED  BY <1>3, <1>4, <1>7, <2>1, <2>2 DEF Coming
<1>. QED  BY <1>1, <1>5, <1>6, <1>7

\* What is left of the nodes after a visit: all of them, unless v is destroyed.
Leaves(N, S, v, N2) ==
  IF walk.job = "destroy" /\ v \notin S THEN N2 = N \ {v} ELSE N2 = N

\* Its locals after a visit.
GoesOn(w, w2, x) == w2 = [w EXCEPT !.inner = x, !.count = @ + 1]
PassesOn(w, w2, x) == w2 = [w EXCEPT !.outer = x, !.count = @ + 1]
GoesIn(w, w2, x, v, y, z) == w2 = [w EXCEPT !.outer = x, !.count = @ + 1, !.sec = v, !.inner = y, !.name = z]

\* Types of the locals after a visit.
LEMMA Moves ==
  ASSUME NEW w \in WalkType, NEW x \in Nat, NEW w2
  PROVE  /\ GoesOn(w, w2, x) =>
              /\ w2 \in WalkType /\ w2.job = w.job /\ w2.header = w.header /\ w2.outer = w.outer
              /\ w2.sec = w.sec /\ w2.inner = x /\ w2.name = w.name
         /\ PassesOn(w, w2, x) =>
              /\ w2 \in WalkType /\ w2.job = w.job /\ w2.header = w.header /\ w2.outer = x
              /\ w2.sec = w.sec /\ w2.inner = w.inner /\ w2.name = w.name
<1>1. PICK k \in Nat : k = w.count + 1
  BY DEF WalkType
<1>. DEFINE u == [w EXCEPT !.inner = x, !.count = k]
            v == [w EXCEPT !.outer = x, !.count = k]
<1>2. /\ u \in WalkType /\ u.job = w.job /\ u.header = w.header /\ u.outer = w.outer
      /\ u.sec = w.sec /\ u.inner = x /\ u.name = w.name
  BY DEF WalkType
<1>3. /\ v \in WalkType /\ v.job = w.job /\ v.header = w.header /\ v.outer = x
      /\ v.sec = w.sec /\ v.inner = w.inner /\ v.name = w.name
  BY DEF WalkType
<1>4. u = [w EXCEPT !.inner = x, !.count = @ + 1] /\ v = [w EXCEPT !.outer = x, !.count = @ + 1]
  BY <1>1 DEF WalkType
<1>. HIDE DEF u, v
<1>. QED  BY ONLY <1>2, <1>3, <1>4 DEF GoesOn, PassesOn

\* The same where a section is entered.
LEMMA Enters ==
  ASSUME NEW w \in WalkType, NEW x \in Nat, NEW v \in Nat, NEW y \in Nat, NEW z \in Nat,
         NEW w2, GoesIn(w, w2, x, v, y, z)
  PROVE  /\ w2 \in WalkType /\ w2.job = w.job /\ w2.header = w.header /\ w2.outer = x
         /\ w2.sec = v /\ w2.inner = y /\ w2.name = z
<1>1. PICK k \in Nat : k = w.count + 1
  BY DEF WalkType
<1>2. w2 = [w EXCEPT !.outer = x, !.count = k, !.sec = v, !.inner = y, !.name = z]
  BY <1>1 DEF WalkType, GoesIn
<1>. QED  BY <1>2 DEF WalkType

\* The section that the traversal is in, after the visit of v.
SectionAfter(w, w2, S, v) == w2.sec = IF v \in S THEN v ELSE w.sec

\* After a visit, the traversal is in front of the rest of the nodes.
LEMMA VisitMoves ==
  ASSUME NEW N \in SUBSET Nat, NEW S, S \subseteq N, NEW B, NULL \notin N, Walking(N, S, B), Visiting, walk \in WalkType,
         Sorts(mem, N, S), \A c \in N : mem[c].next \in Nat, Links(mem, N, S),
         walk.sec = NULL => Subs(mem, N, S, NULL), NEW v, v = Visited,
         NEW r, walk' = IF Inside THEN NextInner(r) ELSE NextOuter(r), mem' = r.mem,
         NEW N2, Leaves(N, S, v, N2), Kept(mem, mem', N2, S, v),
         \A s \in S : Detail(mem', s).sub \in Nat /\ Detail(mem', s).name \in Nat,
         doc' = doc, walk.header = 1 => mem'[doc] = mem[doc]
  PROVE  Walking(N2, S, B \ {v})' /\ walk' \in WalkType /\ walk'.job = walk.job /\ SectionAfter(walk, walk', S, v)
<1>1. /\ B \subseteq N /\ (\A b \in B, c \in N : c > b => c \in B) /\ walk.header \in {1, 2}
      /\ walk.sec = NULL => walk.inner = NULL /\ walk.name = NULL
      /\ walk.header = 1 =>
           /\ walk.sec = NULL /\ First(Leading(S, B), walk.outer)
           /\ mem[doc] \in [preamble : Nat, section : Nat] /\ First(S \cap B, mem[doc].section)
      /\ walk.header = 2 => First(Leading(S, B), walk.inner) /\ First(S \cap B, walk.outer)
      /\ walk.sec # NULL => walk.sec \in S \ B /\ walk.name = Detail(mem, walk.sec).name
      /\ walk.job = "destroy" => N \ B = {walk.sec} \ {NULL}
  BY DEF Walking, Visiting
<1>2. Coming(N, S, B, v)
  BY VisitedIs
<1>. DEFINE B2 == B \ {v}
<1>3. B2 = Behind(N, v) /\ v \in N /\ v \in B /\ v \in Nat
  BY <1>2 DEF Coming
<1>4. B2 \subseteq N2 /\ S \subseteq N2 /\ N2 \subseteq N /\ \A b \in B2, c \in N2 : c > b => c \in B2
  <2>1. B2 \subseteq N2 /\ S \subseteq N2 /\ N2 \subseteq N
    BY <1>1 DEF Leaves
  <2>2. ASSUME NEW b \in B2, NEW c \in N2, c > b PROVE c \in B2
    <3>1. b > v /\ b \in Nat /\ c \in Nat /\ c \in N
      BY <1>3, <2>1 DEF Behind
    <3>2. c > v
      BY <1>3, <2>2, <3>1
    <3>. QED  BY <1>3, <3>1, <3>2 DEF Behind
  <2>. QED  BY <2>1, <2>2
<1>5. \A c \in N2 : mem'[c].next = mem[c].next
  BY DEF Kept
<1>6. walk.job # "none" /\ mem[v].next \in Nat /\ (Type(mem, v) = "section" <=> v \in S)
  BY <1>3 DEF Visiting, Idle, Sorts
<1>. HIDE DEF B2
<1>7. CASE Inside
  <2>1. walk' = [walk EXCEPT !.inner = mem[walk.inner].next, !.count = @ + 1]
    BY <1>7 DEF NextInner
  <2>2. v = walk.inner /\ walk.header = 2 /\ walk.sec # NULL /\ v \notin S /\ v # walk.sec
    BY <1>2, <1>7 DEF Coming
  <2>3. /\ walk' \in WalkType /\ walk'.job = walk.job /\ walk'.header = 2 /\ walk'.outer = walk.outer
        /\ walk'.sec = walk.sec /\ walk'.inner = mem[v].next /\ walk'.name = walk.name
    <3>1. GoesOn(walk, walk', mem[v].next)
      BY <2>1, <2>2 DEF GoesOn
    <3>2. mem[v].next \in Nat /\ walk \in WalkType
      BY <1>6
    <3>3. /\ walk' \in WalkType /\ walk'.job = walk.job /\ walk'.header = walk.header /\ walk'.outer = walk.outer
          /\ walk'.sec = walk.sec /\ walk'.inner = mem[v].next /\ walk'.name = walk.name
      BY ONLY <3>1, <3>2, Moves
    <3>. QED  BY <2>2, <3>3
  <2>4. First(Leading(S, B2), walk'.inner)
    BY <1>3, <2>2, <2>3 DEF Links
  <2>5. First(S \cap B2, walk'.outer)
    <3>1. S \cap B2 = S \cap B
      BY <2>2 DEF B2
    <3>. QED  BY <1>1, <2>2, <2>3, <3>1
  <2>6. walk'.sec \in S \ B2 /\ walk'.name = Detail(mem', walk'.sec).name
    <3>1. walk.sec \in S \ B2 /\ walk.name = Detail(mem, walk.sec).name
      BY <1>1, <2>2 DEF B2
    <3>2. Detail(mem', walk.sec).name = Detail(mem, walk.sec).name
      BY <2>2, <3>1 DEF Kept
    <3>. QED  BY <2>3, <3>1, <3>2
  <2>7. walk'.job = "destroy" => N2 \ B2 = {walk'.sec} \ {NULL}
    <3>. SUFFICES ASSUME walk.job = "destroy" PROVE N2 \ B2 = {walk.sec} \ {NULL}
      BY <2>3
    <3>1. N2 = N \ {v}
      BY <2>2 DEF Leaves
    <3>2. N2 \ B2 = N \ B
      BY <1>3, <3>1 DEF B2
    <3>. QED  BY <1>1, <3>2
  <2>8. Walking(N2, S, B2)'
    <3>1. ~Idle'
      BY <1>6, <2>3 DEF Idle
    <3>2. walk'.sec # NULL
      BY <2>2, <2>3
    <3>. QED  BY <1>4, <2>3, <2>4, <2>5, <2>6, <2>7, <3>1, <3>2 DEF Walking
  <2>. QED  BY <2>2, <2>3, <2>8 DEF B2, SectionAfter
<1>8. CASE ~Inside /\ walk.header = 1
  <2>1. v = walk.outer /\ walk.sec = NULL /\ v \notin S /\ walk.inner = NULL /\ walk.name = NULL
    BY <1>1, <1>2, <1>8 DEF Coming
  <2>2. walk' = [walk EXCEPT !.outer = mem[v].next, !.count = @ + 1]
    BY <1>6, <1>8, <2>1 DEF NextOuter
  <2>3. /\ walk' \in WalkType /\ walk'.job = walk.job /\ walk'.header = 1 /\ walk'.outer = mem[v].next
        /\ walk'.sec = NULL /\ walk'.inner = NULL /\ walk'.name = NULL
    <3>1. mem[v].next \in Nat /\ walk \in WalkType
      BY <1>6
    <3>2. /\ walk' \in WalkType /\ walk'.job = walk.job /\ walk'.header = walk.header /\ walk'.outer = mem[v].next
          /\ walk'.sec = walk.sec /\ walk'.inner = walk.inner /\ walk'.name = walk.name
      <4>1. PassesOn(walk, walk', mem[v].next)
        BY <2>2 DEF PassesOn
      <4>. QED  BY ONLY <3>1, <4>1, Moves
    <3>. QED  BY <1>8, <2>1, <3>2
  <2>4. First(Leading(S, B2), walk'.outer)
    BY <1>3, <2>1, <2>3 DEF Links
  <2>5. mem'[doc'] \in [preamble : Nat, section : Nat] /\ First(S \cap B2, mem'[doc'].section)
    <3>1. S \cap B2 = S \cap B
      BY <2>1 DEF B2
    <3>. QED  BY <1>1, <1>8, <3>1
  <2>6. walk'.job = "destroy" => N2 \ B2 = {walk'.sec} \ {NULL}
    <3>. SUFFICES ASSUME walk.job = "destroy" PROVE N2 \ B2 = {}
      BY <2>3
    <3>1. N2 = N \ {v}
      BY <2>1 DEF Leaves
    <3>2. N2 \ B2 = N \ B
      BY <1>3, <3>1 DEF B2
    <3>. QED  BY <1>1, <2>1, <3>2
  <2>7. Walking(N2, S, B2)'
    <3>1. ~Idle'
      BY <1>6, <2>3 DEF Idle
    <3>. QED  BY <1>4, <2>3, <2>4, <2>5, <2>6, <3>1 DEF Walking
  <2>. QED  BY <2>1, <2>3, <2>7 DEF B2, SectionAfter
<1>9. CASE ~Inside /\ walk.header = 2
  <2>1. v = walk.outer /\ walk.sec = NULL /\ v \in S /\ v # NULL
    BY <1>1, <1>2, <1>9 DEF Coming
  <2>2. walk' = [walk EXCEPT !.outer = mem[v].next, !.count = @ + 1, !.sec = v, !.inner = Detail(mem', v).sub, !.name = Detail(mem', v).name]
    BY <1>6, <1>9, <2>1 DEF NextOuter
  <2>3. Detail(mem', v).sub \in Nat /\ Detail(mem', v).name \in Nat /\ Detail(mem', v).sub = Detail(mem, v).sub
    BY <2>1 DEF Kept
  <2>4. /\ walk' \in WalkType /\ walk'.job = walk.job /\ walk'.header = 2 /\ walk'.outer = mem[v].next
        /\ walk'.sec = v /\ walk'.inner = Detail(mem, v).sub /\ walk'.name = Detail(mem', v).name
    <3>1. /\ mem[v].next \in Nat /\ walk \in WalkType /\ v \in Nat
          /\ Detail(mem', v).sub \in Nat /\ Detail(mem', v).name \in Nat
      BY <1>3, <1>6, <2>3
    <3>2. /\ walk' \in WalkType /\ walk'.job = walk.job /\ walk'.header = walk.header /\ walk'.outer = mem[v].next
          /\ walk'.sec = v /\ walk'.inner = Detail(mem', v).sub /\ walk'.name = Detail(mem', v).name
      <4>1. GoesIn(walk, walk', mem[v].next, v, Detail(mem', v).sub, Detail(mem', v).name)
        BY <2>2 DEF GoesIn
      <4>. QED  BY ONLY <3>1, <4>1, Enters, SMTT(20)
    <3>. QED  BY <1>9, <2>3, <3>2
  <2>5. First(Leading(S, B2), walk'.inner)
    BY <1>3, <2>1, <2>4 DEF Subs
  <2>6. First(S \cap B2, walk'.outer)
    <3>1. S \cap B2 = Behind(S, v)
      BY <1>3 DEF Behind
    <3>. QED  BY <2>1, <2>4, <3>1 DEF Links
  <2>7. walk'.sec \in S \ B2
    BY <2>1, <2>4 DEF B2
  <2>8. walk'.job = "destroy" => N2 \ B2 = {walk'.sec} \ {NULL}
    <3>. SUFFICES ASSUME walk.job = "destroy" PROVE N2 \ B2 = {v}
      BY <2>1, <2>4
    <3>1. N2 = N /\ N \ B = {}
      BY <1>1, <2>1 DEF Leaves
    <3>. QED  BY <1>3, <3>1 DEF B2
  <2>9. Walking(N2, S, B2)'
    <3>1. ~Idle'
      BY <1>6, <2>4 DEF Idle
    <3>2. walk'.sec # NULL
      BY <2>1, <2>4
    <3>. QED  BY <1>4, <2>4, <2>5, <2>6, <2>7, <2>8, <3>1, <3>2 DEF Walking
  <2>. QED  BY <2>1, <2>4, <2>9 DEF B2, SectionAfter
<1>. QED  BY <1>1, <1>7, <1>8, <1>9

\* A visit that does not free its node keeps the invariant.
LEMMA VisitKeeps ==
  ASSUME NEW N \in SUBSET Nat, NEW S \in SUBSET Nat, NEW B \in SUBSET Nat, Good(N, S, B), Visiting, walk.job # "destroy", Alike,
         NEW r, mem' = r.mem, brk' = r.brk, text' = r.text, buf' = r.buf,
         walk' = IF r.err # "OK" THEN NoWalk ELSE IF Inside THEN NextInner(r) ELSE NextOuter(r),
         pc' = IF r.err = "OVERRUN" THEN "overrun" ELSE pc, UNCHANGED <<doc, parse, settings, lost>>,
         Sound(mem', brk', N, S, Roots), Kept(mem, mem', N, S, Visited), mem'[doc] = mem[doc], text' \in Word, buf' \in BufType,
         walk.job = "buffer" /\ r.err = "OK" => Filling', r.err = "OVERRUN" => Overrun(N)',
         NEW B2, B2 = IF r.err = "OK" THEN B \ {Visited} ELSE B
  PROVE  Good(N, S, B2)' /\ (r.err = "OK" => SectionAfter(walk, walk', S, Visited) /\ walk'.job = walk.job)
<1>1. /\ Types /\ Sound(mem, brk, N, S, Roots) /\ RootsApart /\ Phases(N) /\ Document(N, S) /\ Walking(N, S, B)
      /\ Buffered(N) /\ Objects /\ walk \in WalkType
  BY DEF Good, Types, WalkType
<1>2. walk.job # "none" /\ pc = "ready" /\ doc # NULL /\ parse.section = NULL /\ parse.prev = NULL /\ parse.buf = NULL
  BY <1>1 DEF Visiting, Idle, Phases
<1>3. Heads(mem, doc, N, S) /\ Subs(mem, N, S, NULL) /\ NoOrphans(mem, N, S)
  BY <1>1, <1>2 DEF Document
<1>4. /\ Body(mem, brk, N, S, Roots) /\ Links(mem, N, S) /\ Sorts(mem, N, S) /\ S \subseteq N /\ NULL \notin N
      /\ \A c \in N : mem[c].next \in Nat
  <2>1. Body(mem, brk, N, S, Roots) /\ Links(mem, N, S)
    BY <1>1 DEF Sound
  <2>2. NULL \notin N
    BY <2>1, RootsAreApart
  <2>. QED  BY <2>1, <2>2 DEF Body, Sorts, Shape
<1>5. \A s \in S : Detail(mem', s).sub \in Nat /\ Detail(mem', s).name \in Nat
  <2>1. \A s \in S : Shape(mem', s) /\ Type(mem', s) = "section"
    BY <1>4 DEF Sound, Body, Sorts
  <2>. QED  BY <2>1 DEF Shape
<1>6. Heads(mem', doc, N, S) /\ NoOrphans(mem', N, S) /\ Subs(mem', N, S, NULL)
  BY <1>3, <1>4, DocumentKept
<1>7. Roots' = Roots /\ RootsApart'
  BY <1>1, RootsKept
<1>8. Sound(mem', brk', N, S, Roots')
  BY <1>7
<1>9. obj' \in [Obj -> Members]
  BY DEF Alike
<1>10. CASE r.err # "OK"
  <2>1. walk' = NoWalk /\ walk' \in WalkType /\ walk'.job = "none" /\ pc' \in {"ready", "overrun"}
    BY <1>2, <1>10, NothingTypes
  <2>2. Types'
    BY <1>1, <1>2, <1>9, <2>1 DEF Types, Members, settings, WalkType, BufType
  <2>3. Phases(N)'
    BY <1>1, <1>2, <2>1 DEF Phases, Idle
  <2>4. Document(N, S)'
    BY <1>6, <2>1 DEF Document
  <2>5. Walking(N, S, B)' /\ Parsing(N, S)'
    BY <2>1 DEF Walking, Parsing, Idle
  <2>6. pc' = "overrun" => r.err = "OVERRUN"
    BY <1>2
  <2>7. Buffered(N)'
    BY <2>1, <2>6 DEF Buffered
  <2>8. Objects'
    BY <1>1, <2>1, ObjectsKept
  <2>9. Good(N, S, B)'
    BY <1>7, <1>8, <2>2, <2>3, <2>4, <2>5, <2>7, <2>8 DEF Good
  <2>10. B2 = B
    BY <1>10
  <2>. QED  BY <1>10, <2>9, <2>10
<1>11. CASE r.err = "OK"
  <2>1. walk' = (IF Inside THEN NextInner(r) ELSE NextOuter(r)) /\ pc' = "ready" /\ mem' = r.mem
    BY <1>2, <1>11
  <2>2. PICK v : v = Visited /\ B2 = B \ {v}
    BY <1>11
  <2>3. Leaves(N, S, v, N)
    BY DEF Leaves
  <2>4. Walking(N, S, B \ {v})' /\ walk' \in WalkType /\ walk'.job = walk.job /\ SectionAfter(walk, walk', S, v)
    <3>1. Kept(mem, mem', N, S, v)
      BY <2>2
    <3>2. walk.sec = NULL => Subs(mem, N, S, NULL)
      BY <1>3
    <3>3. doc' = doc /\ (walk.header = 1 => mem'[doc] = mem[doc])
      OBVIOUS
    <3>4. N \in SUBSET Nat /\ Visiting /\ v = Visited
      BY <2>2
    <3>. QED  BY ONLY <1>1, <1>4, <1>5, <2>1, <2>3, <3>1, <3>2, <3>3, <3>4, VisitMoves
  <2>5. Walking(N, S, B2)' /\ B2 \in SUBSET Nat
    BY <2>2, <2>4
  <2>6. Types'
    BY <1>1, <1>2, <1>9, <2>1, <2>4 DEF Types, Members, settings, WalkType, BufType
  <2>7. Phases(N)'
    BY <1>1, <1>2, <2>1, <2>4 DEF Phases, Idle
  <2>8. Document(N, S)'
    BY <1>6, <2>4 DEF Document
  <2>9. Parsing(N, S)' /\ Buffered(N)'
    BY <1>11, <2>1, <2>4 DEF Parsing, Buffered
  <2>10. Objects'
    BY <1>1, <2>4, ObjectsKept
  <2>11. Good(N, S, B2)'
    BY <1>7, <1>8, <2>5, <2>6, <2>7, <2>8, <2>9, <2>10 DEF Good
  <2>. QED  BY <2>2, <2>4, <2>11
<1>. QED  BY <1>10, <1>11

\* The lines of a dump.
LEMMA LineWord ==
  ASSUME NEW a, Shape(mem, a), s_newline \in Word, s_indent_spaces \in Word
  PROVE  Line(Type(mem, a), Words(mem, a)) \in Word
<1>. DEFINE type == Type(mem, a)
            words == Words(mem, a)
<1>1. type \in {"blank", "comment", "section", "item"}
  BY DEF Shape, Type
<1>2. <<"[">> \in Word /\ <<"]">> \in Word /\ <<"=">> \in Word /\ <<>> \in Word
  <2>1. "[" \in Chars /\ "]" \in Chars /\ "=" \in Chars
    BY DEF Chars
  <2>2. \A c \in Chars : <<c>> \in Word
    BY DEF Word
  <2>. QED  BY <2>1, <2>2, EmptyWord
<1>3. CASE type = "blank"
  BY <1>3 DEF Line
<1>4. CASE type = "comment"
  <2>1. words[1] \in Word
    BY <1>4 DEF Shape, Words
  <2>2. Line(type, words) = words[1] \o s_newline
    BY <1>4 DEF Line
  <2>. QED  BY <2>1, <2>2, ConcatWords
<1>5. CASE type = "section"
  <2>1. words[1] \in Word
    BY <1>5 DEF Shape, Words
  <2>2. Line(type, words) = <<"[">> \o words[1] \o <<"]">> \o s_newline
    BY <1>5 DEF Line
  <2>. HIDE DEF words
  <2>3. <<"[">> \o words[1] \o <<"]">> \o s_newline \in Word
    BY <1>2, <2>1, ConcatWords
  <2>. QED  BY <2>2, <2>3 DEF words
<1>6. CASE type = "item"
  <2>1. words[1] \in Word /\ words[2] \in Word
    BY <1>6 DEF Shape, Words
  <2>. DEFINE ind == IF s_indent_spaces = NoIndent THEN <<>> ELSE s_indent_spaces
  <2>2. ind \in Word
    BY <1>2
  <2>3. Line(type, words) = ind \o words[1] \o <<"=">> \o words[2] \o s_newline
    BY <1>6 DEF Line
  <2>. HIDE DEF words, ind
  <2>4. ind \o words[1] \o <<"=">> \o words[2] \o s_newline \in Word
    BY <1>2, <2>1, <2>2, ConcatWords
  <2>. QED  BY <2>3, <2>4 DEF words
<1>. QED  BY <1>1, <1>3, <1>4, <1>5, <1>6

\* What the visits of CallBack are.
LEMMA VisitIs ==
  ASSUME NEW N \in SUBSET Nat, NEW S \in SUBSET Nat, NEW B \in SUBSET Nat, Good(N, S, B), NEW job, job # "none",
         NEW results, CallBack(job, results)
  PROVE  /\ Visiting /\ walk.job = job /\ UNCHANGED <<doc, parse, settings, lost>>
         /\ Coming(N, S, B, Visited) /\ Shape(mem, Visited) /\ (Visited \in S <=> Type(mem, Visited) = "section")
         /\ S \subseteq N /\ Kept(mem, mem, N, S, Visited) /\ Sound(mem, brk, N, S, Roots) /\ (job # "destroy" => pc = "ready" /\ doc # NULL)
         /\ (Type(mem, Visited) = "section" => NameGiven = Detail(mem, Visited).name)
<1>1. Visiting /\ walk.job = job /\ UNCHANGED <<doc, parse, settings, lost>>
  BY DEF CallBack, Visiting, Idle
<1>2. Sound(mem, brk, N, S, Roots) /\ Walking(N, S, B) /\ Body(mem, brk, N, S, Roots) /\ Phases(N)
  BY DEF Good, Sound
<1>3. S \subseteq N /\ NULL \notin N /\ Sorts(mem, N, S)
  BY <1>2, RootsAreApart, ZenonT(40) DEF Body, Sorts
<1>4. Coming(N, S, B, Visited)
  BY <1>1, <1>2, <1>3, VisitedIs
<1>5. Shape(mem, Visited) /\ (Visited \in S <=> Type(mem, Visited) = "section")
  BY <1>2, <1>3, <1>4 DEF Coming, Body, Sorts
<1>6. Kept(mem, mem, N, S, Visited)
  BY <1>3, SameKept DEF Same
<1>7. job # "destroy" => pc = "ready" /\ doc # NULL
  BY <1>1, <1>2 DEF Phases
<1>8. Type(mem, Visited) = "section" => NameGiven = Detail(mem, Visited).name
  BY <1>4, <1>5 DEF NameGiven, Coming
<1>. QED  BY <1>1, <1>2, <1>3, <1>4, <1>5, <1>6, <1>7, <1>8

\* What words are joined to is a word.
LEMMA FlatWord ==
  ASSUME NEW t, t \in Seq(Word), Len(t) # 0
  PROVE  FlattenSeq(t) \in Word
<1>. DEFINE n == Len(t)
            f == Flat(t)
            I == {i \in Nat : i < n => f[i + 1] \in Word}
<1>1. n \in Nat /\ n # 0 /\ \A i \in 1..n : t[i] \in Word
  BY LenProperties, ElementOfSeq
<1>2. Flattened(f, t) /\ FlattenSeq(t) = f[n]
  BY <1>1, FlatIs DEF Word
<1>. HIDE DEF f
<1>3. 0 \in I
  <2>1. f[1] = t[1] /\ 0 + 1 = 1 /\ 1 \in 1..n
    BY <1>1, <1>2 DEF Flattened
  <2>. QED  BY <1>1, <2>1
<1>4. ASSUME NEW i \in Nat, i \in I PROVE i + 1 \in I
  <2>1. SUFFICES ASSUME i + 1 < n PROVE f[i + 2] \in Word
    <3>1. (i + 1) + 1 = i + 2 /\ i + 1 \in Nat
      OBVIOUS
    <3>. QED  BY <3>1
  <2>2. i < n /\ i + 2 \in 1..n /\ i + 2 <= Len(t)
    BY <1>1, <2>1
  <2>3. f[i + 1] \in Word /\ t[i + 2] \in Word
    BY <1>1, <1>4, <2>2
  <2>4. f[i + 2] = f[i + 1] \o t[i + 2]
    BY <1>2, <2>2 DEF Flattened
  <2>. QED  BY <2>3, <2>4, ConcatWords
<1>5. Nat \subseteq I
  <2>. HIDE DEF I
  <2>. QED  BY <1>3, <1>4, Induct
<1>6. n - 1 \in Nat /\ n - 1 < n /\ (n - 1) + 1 = n
  BY <1>1
<1>7. f[n] \in Word
  <2>. HIDE DEF n
  <2>. QED  BY <1>5, <1>6
<1>. QED  BY <1>2, <1>7

\* What is written of a line when a write fails is text.
LEMMA CutWord ==
  ASSUME NEW pieces, pieces \in Seq(Word), NEW k \in 2..Len(pieces), NEW type
  PROVE  CutShort(type, pieces, k) \in Word
<1>1. Len(pieces) \in Nat /\ pieces[1] \in Word
  BY LenProperties, ElementOfSeq
<1>2. <<pieces[1]>> \in Seq(Word) /\ Len(<<pieces[1]>>) = 1
  BY <1>1
<1>3. RemoveAt(pieces, k) \in Seq(Word) /\ Len(RemoveAt(pieces, k)) # 0
  <2>1. \A i \in 1..Len(pieces) : pieces[i] \in Word
    BY ElementOfSeq
  <2>2. /\ SubSeq(pieces, 1, k - 1) \in Seq(Word) /\ Len(SubSeq(pieces, 1, k - 1)) = IF 1 <= k - 1 THEN (k - 1) - 1 + 1 ELSE 0
    <3>1. \A i \in 1..k - 1 : pieces[i] \in Word
      BY <1>1, <2>1
    <3>2. 1 \in Int /\ k - 1 \in Int
      BY <1>1
    <3>. QED  BY <3>1, <3>2, SubSeqProperties
  <2>3. /\ SubSeq(pieces, k + 1, Len(pieces)) \in Seq(Word)
        /\ Len(SubSeq(pieces, k + 1, Len(pieces))) = IF k + 1 <= Len(pieces) THEN Len(pieces) - (k + 1) + 1 ELSE 0
    <3>1. \A i \in k + 1..Len(pieces) : pieces[i] \in Word
      BY <1>1, <2>1
    <3>2. k + 1 \in Int /\ Len(pieces) \in Int
      BY <1>1
    <3>. QED  BY <3>1, <3>2, SubSeqProperties
  <2>4. Len(SubSeq(pieces, 1, k - 1)) \in Nat \ {0} /\ Len(SubSeq(pieces, k + 1, Len(pieces))) \in Nat
    BY <1>1, <2>2, <2>3
  <2>. QED  BY <2>2, <2>3, <2>4, ConcatProperties DEF RemoveAt
<1>4. CutShort(type, pieces, k) = FlattenSeq(<<pieces[1]>>) \/ CutShort(type, pieces, k) = FlattenSeq(RemoveAt(pieces, k))
  BY DEF CutShort
<1>5. FlattenSeq(<<pieces[1]>>) \in Word /\ FlattenSeq(RemoveAt(pieces, k)) \in Word
  <2>1. PICK t, u : t = <<pieces[1]>> /\ u = RemoveAt(pieces, k)
    OBVIOUS
  <2>2. t \in Seq(Word) /\ Len(t) # 0 /\ u \in Seq(Word) /\ Len(u) # 0
    BY <1>2, <1>3, <2>1
  <2>3. FlattenSeq(t) \in Word
    BY ONLY <2>2, FlatWord
  <2>4. FlattenSeq(u) \in Word
    BY ONLY <2>2, FlatWord
  <2>. QED  BY <2>1, <2>3, <2>4
<1>. QED  BY <1>4, <1>5

\* The pieces of a line are words.
LEMMA PiecesWords ==
  ASSUME NEW a, Shape(mem, a), s_newline \in Word, s_indent_spaces \in Word
  PROVE  Pieces(Type(mem, a), Words(mem, a)) \in Seq(Word)
<1>. DEFINE type == Type(mem, a)
            words == Words(mem, a)
<1>1. type \in {"blank", "comment", "section", "item"}
  BY DEF Shape, Type
<1>2. <<"[">> \in Word /\ <<"]">> \in Word /\ <<"=">> \in Word
  <2>1. "[" \in Chars /\ "]" \in Chars /\ "=" \in Chars
    BY DEF Chars
  <2>2. \A c \in Chars : <<c>> \in Word
    BY DEF Word
  <2>. QED  BY <2>1, <2>2
<1>3. CASE type = "blank"
  BY <1>3 DEF Pieces
<1>4. CASE type = "comment"
  <2>1. words[1] \in Word
    BY <1>4 DEF Shape, Words
  <2>. HIDE DEF words
  <2>2. Pieces(type, words) = <<words[1], s_newline>>
    BY <1>4 DEF Pieces
  <2>3. <<words[1], s_newline>> \in Seq(Word)
    BY <2>1
  <2>. QED  BY <2>2, <2>3 DEF words
<1>5. CASE type = "section"
  <2>1. words[1] \in Word
    BY <1>5 DEF Shape, Words
  <2>. HIDE DEF words
  <2>2. Pieces(type, words) = <<<<"[">>, words[1], <<"]">>, s_newline>>
    BY <1>5 DEF Pieces
  <2>3. \A u, v, w, x \in Word : <<u, v, w, x>> \in Seq(Word)
    OBVIOUS
  <2>. QED  BY <1>2, <2>1, <2>2, <2>3 DEF words
<1>6. CASE type = "item"
  <2>1. words[1] \in Word /\ words[2] \in Word
    BY <1>6 DEF Shape, Words
  <2>. HIDE DEF words
  <2>. DEFINE ind == IF s_indent_spaces = NoIndent THEN <<>> ELSE <<s_indent_spaces>>
  <2>2. ind \in Seq(Word)
    OBVIOUS
  <2>3. Pieces(type, words) = ind \o <<words[1], <<"=">>, words[2], s_newline>>
    BY <1>6 DEF Pieces
  <2>4. \A u, v, w, x \in Word : <<u, v, w, x>> \in Seq(Word)
    OBVIOUS
  <2>. HIDE DEF ind
  <2>5. <<words[1], <<"=">>, words[2], s_newline>> \in Seq(Word)
    BY <1>2, <2>1, <2>4
  <2>. QED  BY <2>2, <2>3, <2>5, ConcatProperties DEF words
<1>. QED  BY <1>1, <1>3, <1>4, <1>5, <1>6

\* Dumping a line to a stream keeps the invariant, whether or not a write fails.
LEMMA StreamKeeps ==
  ASSUME NEW N \in SUBSET Nat, NEW S \in SUBSET Nat, NEW B \in SUBSET Nat, Good(N, S, B), Alike,
         Visit("stream", __dump_node_to_stream(NameGiven, Visited)) \/ WriteFails
  PROVE  mem' = mem /\ \E B2 \in SUBSET Nat : Good(N, S, B2)'
<1>1. /\ Visiting /\ walk.job = "stream" /\ UNCHANGED <<doc, parse, settings, lost>> /\ Shape(mem, Visited)
      /\ Kept(mem, mem, N, S, Visited) /\ Sound(mem, brk, N, S, Roots)
  <2>1. PICK results : CallBack("stream", results)
    BY DEF Visit, WriteFails
  <2>. QED  BY <2>1, VisitIs
<1>2. PICK r \in __dump_node_to_stream(NameGiven, Visited) \cup CutToStream(NameGiven, Visited) :
        /\ mem' = r.mem /\ brk' = r.brk /\ text' = r.text /\ buf' = r.buf
        /\ walk' = IF r.err # "OK" THEN NoWalk ELSE IF Inside THEN NextInner(r) ELSE NextOuter(r)
        /\ pc' = IF r.err = "OVERRUN" THEN "overrun" ELSE pc
  BY DEF Visit, WriteFails, CallBack
<1>. DEFINE line == Line(Type(mem, Visited), Words(mem, Visited))
            pieces == Pieces(Type(mem, Visited), Words(mem, Visited))
<1>3. Types /\ text \in Word /\ buf \in BufType /\ line \in Word /\ pieces \in Seq(Word)
  BY <1>1, LineWord, PiecesWords DEF Good, Types, BufType
<1>4. \/ \E w \in Word : r = [Now EXCEPT !.text = @ \o w]
      \/ r = [Now EXCEPT !.err = "IO"]
  <2>1. CASE r \in __dump_node_to_stream(NameGiven, Visited)
    BY <1>3, <2>1 DEF __dump_node_to_stream
  <2>2. CASE r \in CutToStream(NameGiven, Visited)
    <3>1. \A k \in 2..Len(pieces) : CutShort(Type(mem, Visited), pieces, k) \in Word
      BY <1>3, CutWord
    <3>2. r \in Error(Now, "IO") \/ \E k \in 2..Len(pieces) : r = [Now EXCEPT !.text = @ \o CutShort(Type(mem, Visited), pieces, k)]
      BY <2>2 DEF CutToStream
    <3>. HIDE DEF pieces
    <3>. QED  BY <3>1, <3>2 DEF Error
  <2>. QED  BY <1>2, <2>1, <2>2
<1>. HIDE DEF line, pieces
<1>5. r.mem = mem /\ r.brk = brk /\ r.buf = buf /\ r.err # "OVERRUN" /\ r.text \in Word
  <2>1. CASE r = [Now EXCEPT !.err = "IO"]
    BY <1>3, <2>1 DEF Now
  <2>2. CASE \E w \in Word : r = [Now EXCEPT !.text = @ \o w]
    <3>1. PICK w \in Word : r = [Now EXCEPT !.text = @ \o w]
      BY <2>2
    <3>2. r.mem = mem /\ r.brk = brk /\ r.text = text \o w /\ r.buf = buf /\ r.err = "OK"
      BY <3>1 DEF Now
    <3>. QED  BY <1>3, <3>2, ConcatWords
  <2>. QED  BY <1>4, <2>1, <2>2
<1>20. PICK B2 : B2 = IF r.err = "OK" THEN B \ {Visited} ELSE B
  OBVIOUS
<1>21. Good(N, S, B2)'
  BY <1>1, <1>2, <1>3, <1>5, <1>20, VisitKeeps
<1>22. B2 \in SUBSET Nat
  BY <1>20
<1>. QED  BY <1>2, <1>5, <1>21, <1>22

\* Dumping a line to a buffer: it is within bounds, or the line is longer than the buffer was at first.
LEMMA BufferWrites ==
  ASSUME NEW r \in __dump_node_to_buffer(NameGiven, Visited), NEW line, line = Line(Type(mem, Visited), Words(mem, Visited)),
         line \in Word, text \in Word, buf \in BufType, Filling
  PROVE  /\ r.mem = mem /\ r.brk = brk /\ r.text \in Word /\ r.buf \in BufType
         /\ r.err = "OK" => r.buf.size \in {0, r.buf.total} /\ r.buf.used <= r.buf.total /\ r.buf.first <= r.buf.total
         /\ r.err = "OVERRUN" => Len(line) > r.buf.first
<1>. DEFINE len == Len(line)
            grows == buf.size = 0 \/ NotEnough(len)
            written(b) == [Now EXCEPT !.text = @ \o line, !.buf = [b EXCEPT !.used = @ + len],
                                      !.err = IF b.used + len > b.size THEN "OVERRUN" ELSE "OK"]
            b2 == [buf EXCEPT !.size = 2 * buf.total, !.total = 2 * @]
<1>1. \/ ~grows /\ r = written(buf)
      \/ grows /\ r \in Error(Now, "MEM_ALLOC")
      \/ grows /\ r = written(b2)
  BY DEF __dump_node_to_buffer
<1>2. len \in Nat /\ buf.size \in Nat /\ buf.total \in Nat /\ buf.used \in Nat /\ buf.first \in Nat /\ text \o line \in Word
  BY WordLength, ConcatWords DEF BufType
<1>. HIDE DEF len
<1>3. buf.size \in {0, buf.total} /\ buf.used <= buf.total /\ buf.first <= buf.total
  BY DEF Filling
<1>4. ASSUME NEW b \in BufType, r = written(b)
      PROVE  /\ r.mem = mem /\ r.brk = brk /\ r.text \in Word /\ r.buf \in BufType
             /\ r.buf.size = b.size /\ r.buf.total = b.total /\ r.buf.used = b.used + len /\ r.buf.first = b.first
             /\ r.err = IF b.used + len > b.size THEN "OVERRUN" ELSE "OK"
  <2>1. b.used + len \in Nat
    BY <1>2 DEF BufType
  <2>2. PICK k \in Nat : k = b.used + len
    BY <2>1
  <2>. DEFINE w == [b EXCEPT !.used = k]
  <2>3. w \in BufType /\ w.size = b.size /\ w.total = b.total /\ w.used = k /\ w.first = b.first
    BY DEF BufType
  <2>4. w = [b EXCEPT !.used = @ + len]
    BY <2>2
  <2>. HIDE DEF w
  <2>5. r = [Now EXCEPT !.text = @ \o line, !.buf = w, !.err = IF b.used + len > b.size THEN "OVERRUN" ELSE "OK"]
    BY <1>4, <2>4
  <2>6. /\ r.mem = mem /\ r.brk = brk /\ r.text = text \o line /\ r.buf = w
        /\ r.err = IF b.used + len > b.size THEN "OVERRUN" ELSE "OK"
    BY <2>5 DEF Now
  <2>. QED  BY <1>2, <2>2, <2>3, <2>6
<1>5. CASE ~grows /\ r = written(buf)
  <2>1. buf.size = buf.total /\ buf.used + len <= buf.total
    BY <1>2, <1>3, <1>5 DEF NotEnough
  <2>2. buf \in BufType /\ r = written(buf)
    BY <1>5
  <2>3. /\ r.mem = mem /\ r.brk = brk /\ r.text \in Word /\ r.buf \in BufType
        /\ r.buf.size = buf.size /\ r.buf.total = buf.total /\ r.buf.used = buf.used + len /\ r.buf.first = buf.first
        /\ r.err = IF buf.used + len > buf.size THEN "OVERRUN" ELSE "OK"
    BY <1>4, <2>2
  <2>4. r.err = "OK"
    BY <1>2, <2>1, <2>3
  <2>. QED  BY <1>2, <1>3, <2>1, <2>3, <2>4
<1>6. CASE grows /\ r \in Error(Now, "MEM_ALLOC")
  <2>1. r = [Now EXCEPT !.err = "MEM_ALLOC"]
    BY <1>6 DEF Error
  <2>2. r.mem = mem /\ r.brk = brk /\ r.text = text /\ r.buf = buf /\ r.err = "MEM_ALLOC"
    BY <2>1 DEF Now
  <2>. QED  BY <2>2
<1>7. CASE grows /\ r = written(b2)
  <2>1. PICK k \in Nat : k = 2 * buf.total
    BY <1>2
  <2>2. b2 = [buf EXCEPT !.size = k, !.total = k]
    BY <2>1 DEF BufType
  <2>3. b2 \in BufType /\ b2.size = k /\ b2.total = k /\ b2.used = buf.used /\ b2.first = buf.first
    BY <2>2 DEF BufType
  <2>. HIDE DEF b2
  <2>4. /\ r.mem = mem /\ r.brk = brk /\ r.text \in Word /\ r.buf \in BufType
        /\ r.buf.size = k /\ r.buf.total = k /\ r.buf.used = buf.used + len /\ r.buf.first = buf.first
        /\ r.err = IF buf.used + len > k THEN "OVERRUN" ELSE "OK"
    <3>1. r = written(b2)
      BY <1>7
    <3>. HIDE DEF written
    <3>. QED  BY <1>4, <2>3, <3>1
  <2>5. r.err = "OK" => buf.used + len <= k
    BY <1>2, <2>4
  <2>6. buf.first <= k
    BY <1>2, <1>3, <2>1
  <2>7. r.err = "OVERRUN" => len > buf.first
    <3>. SUFFICES ASSUME r.err = "OVERRUN" PROVE len > buf.first
      OBVIOUS
    <3>1. buf.used + len > 2 * buf.total
      BY <1>2, <2>1, <2>4
    <3>. QED  BY <1>2, <1>3, <3>1
  <2>. QED  BY <1>2, <2>4, <2>5, <2>6, <2>7 DEF len
<1>. QED  BY <1>1, <1>5, <1>6, <1>7

\* So it keeps the invariant.
LEMMA BufferKeeps ==
  ASSUME NEW N \in SUBSET Nat, NEW S \in SUBSET Nat, NEW B \in SUBSET Nat, Good(N, S, B), Alike,
         Visit("buffer", __dump_node_to_buffer(NameGiven, Visited))
  PROVE  mem' = mem /\ \E B2 \in SUBSET Nat : Good(N, S, B2)'
<1>1. /\ Visiting /\ walk.job = "buffer" /\ UNCHANGED <<doc, parse, settings, lost>> /\ Shape(mem, Visited)
      /\ Kept(mem, mem, N, S, Visited) /\ Sound(mem, brk, N, S, Roots) /\ Coming(N, S, B, Visited)
  BY VisitIs DEF Visit
<1>2. PICK r \in __dump_node_to_buffer(NameGiven, Visited) :
        /\ mem' = r.mem /\ brk' = r.brk /\ text' = r.text /\ buf' = r.buf
        /\ walk' = IF r.err # "OK" THEN NoWalk ELSE IF Inside THEN NextInner(r) ELSE NextOuter(r)
        /\ pc' = IF r.err = "OVERRUN" THEN "overrun" ELSE pc
  BY DEF Visit, CallBack
<1>3. PICK line : line = Line(Type(mem, Visited), Words(mem, Visited))
  OBVIOUS
<1>4. text \in Word /\ buf \in BufType /\ line \in Word /\ Filling
  BY <1>1, <1>3, LineWord DEF Good, Types, BufType, Buffered
<1>5. /\ r.mem = mem /\ r.brk = brk /\ r.text \in Word /\ r.buf \in BufType
      /\ r.err = "OK" => r.buf.size \in {0, r.buf.total} /\ r.buf.used <= r.buf.total /\ r.buf.first <= r.buf.total
      /\ r.err = "OVERRUN" => Len(line) > r.buf.first
  BY <1>3, <1>4, BufferWrites
<1>6. r.err = "OK" => Filling'
  BY <1>2, <1>5 DEF Filling
<1>7. r.err = "OVERRUN" => Overrun(N)'
  <2>. SUFFICES ASSUME r.err = "OVERRUN" PROVE Overrun(N)'
    OBVIOUS
  <2>1. mem' = mem /\ buf' = r.buf /\ s_newline' = s_newline /\ s_indent_spaces' = s_indent_spaces
    BY <1>1, <1>2, <1>5 DEF settings
  <2>2. PICK a \in N : a = Visited
    BY <1>1 DEF Coming
  <2>3. Line(Type(mem, a), Words(mem, a))' = line
    BY <1>3, <2>1, <2>2 DEF Line
  <2>4. Len(Line(Type(mem, a), Words(mem, a))') > buf'.first
    BY <1>5, <2>1, <2>3
  <2>. QED  BY <2>4 DEF Overrun
<1>20. PICK B2 : B2 = IF r.err = "OK" THEN B \ {Visited} ELSE B
  OBVIOUS
<1>21. Good(N, S, B2)'
  BY <1>1, <1>2, <1>5, <1>6, <1>7, <1>20, VisitKeeps
<1>22. B2 \in SUBSET Nat
  BY <1>20
<1>. QED  BY <1>2, <1>5, <1>21, <1>22

\* The callback of the test keeps the invariant.
LEMMA EditKeeps ==
  ASSUME NEW N \in SUBSET Nat, NEW S \in SUBSET Nat, NEW B \in SUBSET Nat, Good(N, S, B), Alike,
         Visit("edit", test_getters_and_setters(NameGiven, Visited))
  PROVE  \E B2 \in SUBSET Nat : Good(N, S, B2)'
<1>1. /\ Visiting /\ walk.job = "edit" /\ UNCHANGED <<doc, parse, settings, lost>> /\ pc = "ready" /\ doc # NULL
      /\ Sound(mem, brk, N, S, Roots) /\ Coming(N, S, B, Visited)
      /\ (Type(mem, Visited) = "section" => NameGiven = Detail(mem, Visited).name)
  BY VisitIs DEF Visit
<1>2. PICK r \in test_getters_and_setters(NameGiven, Visited) :
        /\ mem' = r.mem /\ brk' = r.brk /\ text' = r.text /\ buf' = r.buf
        /\ walk' = IF r.err # "OK" THEN NoWalk ELSE IF Inside THEN NextInner(r) ELSE NextOuter(r)
        /\ pc' = IF r.err = "OVERRUN" THEN "overrun" ELSE pc
  BY DEF Visit, CallBack
<1>3. Visited \in N
  BY <1>1 DEF Coming
<1>4. Edited(Now, r, N, S, Roots, Visited)
  BY <1>1, <1>2, <1>3, GettersKeep
<1>5. /\ Sound(r.mem, r.brk, N, S, Roots) /\ Kept(mem, r.mem, N, S, Visited) /\ r.mem[doc] = mem[doc]
      /\ r.text = text /\ r.buf = buf /\ r.err \in Errors
  <2>1. doc \in Roots
    BY <1>1 DEF Roots
  <2>. QED  BY <1>4, <2>1, NowIs DEF Edited
<1>6. r.err # "OVERRUN" /\ text \in Word /\ buf \in BufType
  BY <1>5 DEF Errors, Good, Types, BufType
<1>20. PICK B2 : B2 = IF r.err = "OK" THEN B \ {Visited} ELSE B
  OBVIOUS
<1>21. Good(N, S, B2)'
  BY <1>1, <1>2, <1>5, <1>6, <1>20, VisitKeeps
<1>22. B2 \in SUBSET Nat
  BY <1>20
<1>. QED  BY <1>21, <1>22

\* Saving a node into a map keeps the invariant: only the map, a root, is changed.
LEMMA MapKeeps ==
  ASSUME NEW N \in SUBSET Nat, NEW S \in SUBSET Nat, NEW B \in SUBSET Nat, Good(N, S, B), Alike,
         Visit("map", save_node_into_map(NameGiven, Visited)),
         NEW B2, B2 = B \ {Visited}
  PROVE  Good(N, S, B2)' /\ SectionAfter(walk, walk', S, Visited) /\ walk'.job = "map"
<1>1. /\ Visiting /\ walk.job = "map" /\ UNCHANGED <<doc, parse, settings, lost>> /\ pc = "ready" /\ doc # NULL
      /\ Sound(mem, brk, N, S, Roots) /\ Kept(mem, mem, N, S, Visited)
  BY VisitIs DEF Visit
<1>2. PICK r \in save_node_into_map(NameGiven, Visited) :
        /\ mem' = r.mem /\ brk' = r.brk /\ text' = r.text /\ buf' = r.buf
        /\ walk' = IF r.err # "OK" THEN NoWalk ELSE IF Inside THEN NextInner(r) ELSE NextOuter(r)
        /\ pc' = IF r.err = "OVERRUN" THEN "overrun" ELSE pc
  BY DEF Visit, CallBack
<1>. DEFINE address == obj[building].map
<1>3. r = Now \/ \E v : r = [Now EXCEPT !.mem = [@ EXCEPT ![address] = v]]
  BY <1>2 DEF save_node_into_map
<1>4. r.brk = brk /\ r.text = text /\ r.buf = buf /\ r.err = "OK" /\ (r.mem = mem \/ \E v : r.mem = [mem EXCEPT ![address] = v])
  <2>1. CASE r = Now
    BY <2>1 DEF Now
  <2>2. CASE \E v : r = [Now EXCEPT !.mem = [@ EXCEPT ![address] = v]]
    <3>1. PICK v : r = [Now EXCEPT !.mem = [@ EXCEPT ![address] = v]]
      BY <2>2
    <3>. HIDE DEF address
    <3>. QED  BY <3>1 DEF Now
  <2>. QED  BY <1>3, <2>1, <2>2
<1>5. address \in Roots /\ address # doc
  <2>1. building \in Obj /\ address # NULL /\ RootsApart
    BY <1>1 DEF Good, Objects
  <2>2. address \in Owned(building)
    BY <2>1 DEF Owned
  <2>3. address \in Held
    BY <2>1, <2>2 DEF Held
  <2>. QED  BY <2>1, <2>2, <2>3 DEF Roots, RootsApart
<1>6. /\ DOMAIN r.mem = DOMAIN mem /\ \A y \in DOMAIN mem : y # address => r.mem[y] = mem[y]
      /\ r.mem[doc] = mem[doc]
  <2>. HIDE DEF address
  <2>1. DOMAIN r.mem = DOMAIN mem /\ \A y \in DOMAIN mem : y # address => r.mem[y] = mem[y]
    BY <1>4
  <2>2. doc \in DOMAIN mem
    <3>1. doc \in Roots
      BY <1>1 DEF Roots
    <3>. QED  BY <1>1, <3>1, RootsAreApart DEF Sound
  <2>. QED  BY <1>5, <2>1, <2>2
<1>7. Sound(r.mem, r.brk, N, S, Roots) /\ Same(mem, r.mem, N)
  <2>. HIDE DEF address
  <2>1. Body(mem, brk, N, S, Roots) /\ Links(mem, N, S)
    BY <1>1 DEF Sound
  <2>2. Same(mem, r.mem, N) /\ Sound(r.mem, brk, N, S, Roots)
    BY <1>5, <1>6, <2>1, FrameRoot
  <2>. QED  BY <1>4, <2>2
<1>8. Kept(mem, r.mem, N, S, Visited)
  BY <1>1, <1>7, SameKept DEF Sound, Body
<1>9. text \in Word /\ buf \in BufType
  BY DEF Good, Types, BufType
<1>10. B2 = IF r.err = "OK" THEN B \ {Visited} ELSE B
  BY <1>4
<1>. QED  BY <1>1, <1>2, <1>4, <1>6, <1>7, <1>8, <1>9, <1>10, VisitKeeps

\* What is destroyed are whole nodes.
LEMMA DestroyKeeps ==
  ASSUME NEW N \in SUBSET Nat, NEW S \in SUBSET Nat, NEW B \in SUBSET Nat, Good(N, S, B), Alike,
         Visit("destroy", __do_nothing_but_trigger_summary(NameGiven, Visited))
  PROVE  IInv'
<1>1. /\ Visiting /\ walk.job = "destroy" /\ UNCHANGED <<doc, parse, settings, lost>>
      /\ Sound(mem, brk, N, S, Roots) /\ Coming(N, S, B, Visited) /\ (Visited \in S <=> Type(mem, Visited) = "section") /\ S \subseteq N
      /\ Shape(mem, Visited)
  BY VisitIs DEF Visit
<1>2. PICK r \in __do_nothing_but_trigger_summary(NameGiven, Visited) :
        /\ mem' = r.mem /\ brk' = r.brk /\ text' = r.text /\ buf' = r.buf
        /\ walk' = IF r.err # "OK" THEN NoWalk ELSE IF Inside THEN NextInner(r) ELSE NextOuter(r)
        /\ pc' = IF r.err = "OVERRUN" THEN "overrun" ELSE pc
  BY DEF Visit, CallBack
<1>3. PICK v : v = Visited
  OBVIOUS
<1>4. /\ v \in N /\ v \in B /\ B \ {v} = Behind(N, v) /\ v \in Nat /\ (v \in S <=> Type(mem, v) = "section")
      /\ v \in S => walk.sec = NULL
  BY <1>1, <1>3 DEF Coming
<1>5. /\ r.brk = brk /\ r.text = text /\ r.buf = buf /\ r.err = "OK"
      /\ r.mem = IF v \in S THEN mem ELSE Freed(mem, NodeBlocks(mem, v))
  <2>1. r = IF v \in S THEN Now ELSE [Now EXCEPT !.mem = Freed(@, NodeBlocks(mem, v))]
    BY <1>2, <1>3, <1>4 DEF __do_nothing_but_trigger_summary
  <2>. QED  BY <2>1 DEF Now
<1>6. /\ Types /\ RootsApart /\ Phases(N) /\ Document(N, S) /\ Walking(N, S, B) /\ Objects /\ walk \in WalkType
      /\ Body(mem, brk, N, S, Roots) /\ Links(mem, N, S) /\ Sorts(mem, N, S) /\ NULL \notin N
      /\ \A c \in N : mem[c].next \in Nat
  <2>1. Body(mem, brk, N, S, Roots)
    BY <1>1 DEF Sound
  <2>2. NULL \notin N
    BY <2>1, RootsAreApart
  <2>. QED  BY <1>1, <2>1, <2>2 DEF Good, Types, WalkType, Sound, Body, Sorts, Shape
<1>7. doc # NULL /\ pc \in {"parsing", "ready"} /\ parse.section = NULL /\ parse.prev = NULL /\ parse.buf = NULL /\ Subs(mem, N, S, walk.sec)
  BY <1>1, <1>6 DEF Phases, Document, Idle
<1>. DEFINE x == walk.sec
<1>8. ASSUME NEW N2, N2 = IF v \in S THEN N ELSE N \ {v}
      PROVE  Sound(mem', brk', N2, S, Roots) /\ Same(mem, mem', N2) /\ Subs(mem', N2, S, walk.sec)
  <2>1. CASE v \in S
    <3>1. mem' = mem /\ brk' = brk /\ N2 = N
      BY <1>2, <1>5, <1>8, <2>1
    <3>. QED  BY <1>1, <1>7, <3>1 DEF Same
  <2>2. CASE v \notin S
    <3>1. \A c \in N \ {v} : c > v \/ (c = walk.sec /\ walk.sec \in S /\ v \notin S)
      <4>1. N \ B = {walk.sec} \ {NULL} /\ (walk.sec # NULL => walk.sec \in S)
        BY <1>1, <1>6 DEF Walking, Visiting
      <4>. QED  BY <1>4, <2>2, <4>1 DEF Behind
    <3>2. PICK y, S2 : y = walk.sec /\ S2 = S \ {v}
      OBVIOUS
    <3>3. \A c \in N \ {v} : c > v \/ (c = y /\ y \in S /\ v \notin S)
      BY <3>1, <3>2
    <3>4. Subs(mem, N, S, y)
      BY <1>7, <3>2
    <3>5. /\ Sound(Freed(mem, NodeBlocks(mem, v)), brk, N \ {v}, S \ {v}, Roots)
          /\ Same(mem, Freed(mem, NodeBlocks(mem, v)), N \ {v})
          /\ Subs(Freed(mem, NodeBlocks(mem, v)), N \ {v}, S \ {v}, y)
      BY <1>1, <1>4, <3>3, <3>4, Removal
    <3>6. S \ {v} = S /\ N2 = N \ {v} /\ mem' = Freed(mem, NodeBlocks(mem, v)) /\ brk' = brk
      BY <1>2, <1>5, <1>8, <2>2
    <3>. QED  BY <3>2, <3>5, <3>6
  <2>. QED  BY <2>1, <2>2
<1>9. PICK N2, B2 : N2 = (IF v \in S THEN N ELSE N \ {v}) /\ B2 = B \ {v}
  OBVIOUS
<1>10. Sound(mem', brk', N2, S, Roots) /\ Same(mem, mem', N2) /\ Subs(mem', N2, S, walk.sec)
  BY <1>8, <1>9
<1>11. N2 \in SUBSET Nat /\ B2 \in SUBSET Nat /\ S \subseteq N2 /\ Leaves(N, S, v, N2) /\ N2 \subseteq N
  BY <1>1, <1>9 DEF Leaves
<1>12. Kept(mem, mem', N2, S, v)
  <2>1. Sorts(mem, N2, S)
    BY <1>6, <1>11 DEF Sorts
  <2>. QED  BY <1>10, <2>1, SameKept
<1>13. \A s \in S : Detail(mem', s).sub \in Nat /\ Detail(mem', s).name \in Nat
  <2>1. \A s \in S : Shape(mem', s) /\ Type(mem', s) = "section"
    BY <1>10 DEF Sound, Body, Sorts
  <2>. QED  BY <2>1 DEF Shape
<1>14. mem'[doc] = mem[doc]
  <2>1. doc \in Roots
    BY <1>7 DEF Roots
  <2>2. Roots \subseteq DOMAIN mem
    BY <1>6 DEF Body, Extent
  <2>3. NodeBlocks(mem, v) \cap Roots = {}
    BY <1>4, <1>6 DEF Body, Apart
  <2>4. mem' = mem \/ mem' = Freed(mem, NodeBlocks(mem, v))
    BY <1>2, <1>5
  <2>. QED  BY <2>1, <2>2, <2>3, <2>4 DEF Freed
<1>15. /\ Walking(N2, S, B \ {v})' /\ walk' \in WalkType /\ walk'.job = walk.job
       /\ (v \in S => walk'.sec = v) /\ (v \notin S => walk'.sec = walk.sec)
  <2>1. walk' = (IF Inside THEN NextInner(r) ELSE NextOuter(r)) /\ mem' = r.mem
    BY <1>2, <1>5
  <2>2. walk.sec = NULL => Subs(mem, N, S, NULL)
    BY <1>7
  <2>3. doc' = doc /\ (walk.header = 1 => mem'[doc] = mem[doc])
    BY <1>1, <1>14
  <2>4. N \in SUBSET Nat /\ Visiting /\ v = Visited
    BY <1>1, <1>3
  <2>5. S \subseteq N /\ NULL \notin N /\ Walking(N, S, B) /\ walk \in WalkType /\ Sorts(mem, N, S) /\ Links(mem, N, S)
    BY <1>1, <1>6
  <2>6. \A c \in N : mem[c].next \in Nat
    BY <1>6
  <2>7. Leaves(N, S, v, N2)
    BY <1>11
  <2>8. Kept(mem, mem', N2, S, v) /\ \A s \in S : Detail(mem', s).sub \in Nat /\ Detail(mem', s).name \in Nat
    BY <1>12, <1>13
  <2>9. Walking(N2, S, B \ {v})'
    BY ONLY <2>1, <2>2, <2>3, <2>4, <2>5, <2>6, <2>7, <2>8, VisitMoves
  <2>10. walk' \in WalkType /\ walk'.job = walk.job
    BY ONLY <2>1, <2>2, <2>3, <2>4, <2>5, <2>6, <2>7, <2>8, VisitMoves
  <2>11. SectionAfter(walk, walk', S, v)
    BY ONLY <2>1, <2>2, <2>3, <2>4, <2>5, <2>6, <2>7, <2>8, VisitMoves
  <2>. QED  BY <2>9, <2>10, <2>11 DEF SectionAfter
<1>16. Subs(mem', N2, S, walk'.sec)
  <2>1. CASE v \in S
    <3>1. walk.sec = NULL /\ walk'.sec = v
      BY <1>4, <1>15, <2>1
    <3>2. Subs(mem', N2, S, NULL)
      BY <1>10, <3>1
    <3>. QED  BY <1>1, <1>6, <3>1, <3>2 DEF Subs
  <2>2. CASE v \notin S
    BY <1>10, <1>15, <2>2
  <2>. QED  BY <2>1, <2>2
<1>17. Roots' = Roots /\ RootsApart' /\ Sound(mem', brk', N2, S, Roots')
  BY <1>1, <1>6, <1>10, RootsKept
<1>18. pc' = pc /\ text' = text /\ buf' = buf
  BY <1>2, <1>5
<1>19. Types'
  <2>1. obj' \in [Obj -> Members]
    BY DEF Alike
  <2>. QED  BY <1>1, <1>6, <1>15, <1>18, <2>1 DEF Types, Members, settings, WalkType
<1>20. Phases(N2)'
  BY <1>1, <1>6, <1>7, <1>15, <1>18 DEF Phases, Idle
<1>21. Document(N2, S)'
  BY <1>1, <1>15, <1>16 DEF Document
<1>22. Walking(N2, S, B2)'
  BY <1>9, <1>15
<1>23. Parsing(N2, S)' /\ Buffered(N2)'
  BY <1>1, <1>7, <1>15, <1>18 DEF Parsing, Buffered, Idle
<1>24. Objects'
  BY <1>1, <1>6, <1>15, ObjectsKept
<1>25. Good(N2, S, B2)'
  BY <1>17, <1>19, <1>20, <1>21, <1>22, <1>23, <1>24 DEF Good
<1>. QED  BY <1>11, <1>25 DEF IInv

\* The traversal goes on and changes no node.
LEMMA WalkGoesOn ==
  ASSUME NEW N \in SUBSET Nat, NEW S \in SUBSET Nat, NEW B \in SUBSET Nat, Good(N, S, B), ~Idle, Alike,
         UNCHANGED <<mem, brk, doc, pc, parse, buf, settings, text, lost>>, walk' \in WalkType, walk'.job = walk.job,
         Walking(N, S, B)', walk.job = "destroy" => walk'.sec = walk.sec
  PROVE  Good(N, S, B)'
<1>1. Types /\ Sound(mem, brk, N, S, Roots) /\ RootsApart /\ Phases(N) /\ Document(N, S) /\ Buffered(N) /\ Objects
  BY DEF Good
<1>2. Roots' = Roots /\ RootsApart'
  BY <1>1, RootsKept
<1>3. Types'
  <2>1. obj' \in [Obj -> Members]
    BY DEF Alike
  <2>. QED  BY <1>1, <2>1 DEF Types, Members, settings, WalkType
<1>4. Phases(N)' /\ Document(N, S)' /\ Parsing(N, S)'
  BY <1>1 DEF Phases, Document, Parsing, Idle
<1>5. Buffered(N)'
  <2>1. (walk'.job = "buffer" => Filling') /\ pc # "overrun"
    BY <1>1 DEF Buffered, Filling, Phases, Idle
  <2>. QED  BY <2>1 DEF Buffered
<1>6. Objects'
  BY <1>1, ObjectsKept
<1>7. Sound(mem', brk', N, S, Roots')
  BY <1>1, <1>2
<1>8. Good(N, S, B)'
  BY <1>2, <1>3, <1>4, <1>5, <1>6, <1>7 DEF Good
<1>. QED  BY <1>8

\* After the preamble the traversal begins with the first section.
LEMMA NextHeaderKeeps ==
  ASSUME NEW N \in SUBSET Nat, NEW S \in SUBSET Nat, NEW B \in SUBSET Nat, Good(N, S, B), Alike, NextHeader
  PROVE  Good(N, S, B)'
<1>1. /\ walk.header = 1 /\ walk.outer = NULL /\ walk' = [walk EXCEPT !.header = 2, !.outer = mem[doc].section]
      /\ UNCHANGED <<mem, brk, doc, pc, parse, buf, settings, text, lost>>
  BY DEF NextHeader, heap
<1>2. walk \in WalkType /\ Walking(N, S, B)
  BY DEF Good, Types, WalkType
<1>3. ~Idle
  <2>1. NoWalk.header = 0
    BY DEF NoWalk
  <2>. QED  BY <1>1, <1>2, <2>1 DEF Walking
<1>4. /\ B \subseteq N /\ (\A b \in B, c \in N : c > b => c \in B)
      /\ walk.sec = NULL /\ walk.inner = NULL /\ walk.name = NULL /\ First(Leading(S, B), NULL)
      /\ mem[doc].section \in Nat /\ First(S \cap B, mem[doc].section)
      /\ walk.job = "destroy" => N \ B = {walk.sec} \ {NULL}
  BY <1>1, <1>2, <1>3 DEF Walking
<1>5. /\ walk' \in WalkType /\ walk'.job = walk.job /\ walk'.header = 2 /\ walk'.outer = mem[doc].section
      /\ walk'.sec = NULL /\ walk'.inner = NULL /\ walk'.name = NULL
  <2>1. ASSUME NEW x \in Nat, walk' = [walk EXCEPT !.header = 2, !.outer = x]
        PROVE  /\ walk' \in WalkType /\ walk'.job = walk.job /\ walk'.header = 2 /\ walk'.outer = x
               /\ walk'.sec = walk.sec /\ walk'.inner = walk.inner /\ walk'.name = walk.name
    BY <1>2, <2>1 DEF WalkType
  <2>. QED  BY <1>1, <1>4, <2>1
<1>6. Walking(N, S, B)'
  <2>1. ~Idle'
    BY <1>3, <1>5 DEF Idle
  <2>. QED  BY <1>1, <1>4, <1>5, <2>1 DEF Walking
<1>. QED  BY <1>1, <1>3, <1>4, <1>5, <1>6, WalkGoesOn

\* After the last node of a section the traversal goes on with the next one; ini_destroy frees the section.
LEMMA LeaveSectionKeeps ==
  ASSUME NEW N \in SUBSET Nat, NEW S \in SUBSET Nat, NEW B \in SUBSET Nat, Good(N, S, B), Alike, LeaveSection
  PROVE  IInv' /\ (walk.job # "destroy" => Good(N, S, B)')
<1>1. /\ walk.sec # NULL /\ walk.inner = NULL /\ walk' = [walk EXCEPT !.sec = NULL, !.name = NULL]
      /\ mem' = IF walk.job = "destroy" THEN Freed(mem, NodeBlocks(mem, walk.sec)) ELSE mem
      /\ UNCHANGED <<brk, doc, pc, parse, buf, settings, text, lost>>
  BY DEF LeaveSection
<1>2. walk \in WalkType /\ Walking(N, S, B)
  BY DEF Good, Types, WalkType
<1>3. ~Idle
  <2>1. NoWalk.sec = NULL
    BY DEF NoWalk
  <2>. QED  BY <1>1, <1>2, <2>1 DEF Walking
<1>4. /\ B \subseteq N /\ (\A b \in B, c \in N : c > b => c \in B)
      /\ walk.header = 2 /\ First(Leading(S, B), NULL) /\ First(S \cap B, walk.outer) /\ walk.sec \in S \ B
      /\ walk.job = "destroy" => N \ B = {walk.sec} \ {NULL}
  BY <1>1, <1>2, <1>3 DEF Walking
<1>5. /\ walk' \in WalkType /\ walk'.job = walk.job /\ walk'.header = 2 /\ walk'.outer = walk.outer
      /\ walk'.sec = NULL /\ walk'.inner = NULL /\ walk'.name = NULL /\ ~Idle'
  BY <1>1, <1>2, <1>3, <1>4 DEF WalkType, NULL, Idle
<1>6. CASE walk.job # "destroy"
  <2>1. mem' = mem
    BY <1>1, <1>6
  <2>2. Walking(N, S, B)'
    BY <1>4, <1>5, <1>6, <2>1 DEF Walking
  <2>3. Good(N, S, B)'
    BY <1>1, <1>3, <1>5, <1>6, <2>1, <2>2, WalkGoesOn
  <2>. QED  BY <2>3 DEF IInv
<1>7. CASE walk.job = "destroy"
  <2>1. /\ Types /\ RootsApart /\ Phases(N) /\ Document(N, S) /\ Objects /\ Sound(mem, brk, N, S, Roots) /\ S \subseteq N
    BY DEF Good, Sound, Body, Sorts
  <2>2. doc # NULL /\ pc \in {"parsing", "ready"} /\ parse.section = NULL /\ parse.prev = NULL /\ parse.buf = NULL /\ Subs(mem, N, S, walk.sec)
    BY <1>3, <1>7, <2>1 DEF Phases, Document
  <2>3. PICK a, N2, S2 : a = walk.sec /\ N2 = N \ {a} /\ S2 = S \ {a}
    OBVIOUS
  <2>4. a \in S /\ a \in N /\ a \notin B /\ N \ B = {a} /\ a \in Nat /\ NULL \notin S
    <3>1. NULL \notin N
      BY <2>1, RootsAreApart DEF Sound
    <3>. QED  BY <1>1, <1>4, <1>7, <2>1, <2>3, <3>1
  <2>5. \A c \in N \ {a} : c > a
    <3>1. ASSUME NEW c \in N \ {a} PROVE c > a
      <4>1. c \in B /\ c \in Nat
        BY <2>4
      <4>2. ~(a > c)
        BY <1>4, <2>4, <4>1
      <4>. QED  BY <2>4, <4>1, <4>2
    <3>. QED  BY <3>1
  <2>6. /\ Sound(Freed(mem, NodeBlocks(mem, a)), brk, N \ {a}, S \ {a}, Roots)
        /\ Subs(Freed(mem, NodeBlocks(mem, a)), N \ {a}, S \ {a}, a)
    <3>1. \A c \in N \ {a} : c > a \/ (c = a /\ a \in S /\ a \notin S)
      BY <2>5
    <3>2. Subs(mem, N, S, a)
      BY <2>2, <2>3
    <3>. QED  BY <2>1, <2>4, <3>1, <3>2, Removal
  <2>7. Sound(mem', brk', N2, S2, Roots) /\ Subs(mem', N2, S2, a)
    BY <1>1, <1>7, <2>3, <2>6
  <2>8. Subs(mem', N2, S2, NULL)
    <3>1. S2 \ {NULL} \subseteq S2 \ {a}
      BY <2>3
    <3>. QED  BY <2>7, <3>1 DEF Subs
  <2>9. Roots' = Roots /\ RootsApart' /\ Sound(mem', brk', N2, S2, Roots')
    BY <1>1, <2>1, <2>7, RootsKept
  <2>10. Types'
    <3>1. obj' \in [Obj -> Members]
      BY DEF Alike
    <3>. QED  BY <1>1, <1>5, <2>1, <3>1 DEF Types, Members, settings, WalkType
  <2>11. Phases(N2)'
    BY <1>1, <1>3, <1>5, <1>7, <2>1, <2>2 DEF Phases
  <2>12. Document(N2, S2)'
    BY <1>5, <1>7, <2>8 DEF Document
  <2>13. Walking(N2, S2, B)'
    <3>1. B \subseteq N2 /\ (\A b \in B, c \in N2 : c > b => c \in B) /\ N2 \ B = {}
      BY <1>4, <2>3, <2>4
    <3>2. S2 \cap B = S \cap B
      BY <2>3, <2>4
    <3>3. Leading(S2, B) = Leading(S, B)
      BY <3>2 DEF Leading
    <3>4. First(Leading(S2, B), walk'.inner) /\ First(S2 \cap B, walk'.outer)
      BY <1>4, <1>5, <3>2, <3>3
    <3>5. N2 \ B = {walk'.sec} \ {NULL}
      BY <1>5, <3>1
    <3>. QED  BY <1>5, <3>1, <3>4, <3>5 DEF Walking
  <2>14. Parsing(N2, S2)' /\ Buffered(N2)'
    BY <1>1, <1>5, <1>7, <2>2 DEF Parsing, Buffered
  <2>15. Objects'
    BY <1>5, <2>1, ObjectsKept
  <2>16. Good(N2, S2, B)'
    BY <2>9, <2>10, <2>11, <2>12, <2>13, <2>14, <2>15 DEF Good
  <2>17. N2 \in SUBSET Nat /\ S2 \in SUBSET Nat
    BY <2>3
  <2>. QED  BY <1>7, <2>16, <2>17 DEF IInv
<1>. QED  BY <1>6, <1>7

\* Nothing is left when a traversal ends.
LEMMA TraversedAll ==
  ASSUME NEW N \in SUBSET Nat, NEW S \in SUBSET Nat, NEW B \in SUBSET Nat, Good(N, S, B), NEW job, job # "none", Traversed(job)
  PROVE  /\ B = {} /\ ~Idle /\ walk.job = job /\ doc # NULL /\ (job = "destroy" => N = {} /\ S = {})
         /\ (job # "destroy" => pc = "ready" /\ Heads(mem, doc, N, S) /\ NoOrphans(mem, N, S) /\ Subs(mem, N, S, NULL))
<1>1. walk.job = job /\ walk.header = 2 /\ walk.outer = NULL /\ walk.sec = NULL /\ ~Idle
  BY DEF Traversed, Idle
<1>2. First(Leading(S, B), NULL) /\ First(S \cap B, NULL) /\ (walk.job = "destroy" => N \ B = {walk.sec} \ {NULL})
  BY <1>1 DEF Good, Walking
<1>3. B = {}
  BY <1>2, NoneLeft
<1>4. Phases(N) /\ Document(N, S) /\ S \subseteq N
  BY DEF Good, Sound, Body, Sorts
<1>5. doc # NULL
  BY <1>1, <1>4 DEF Phases
<1>6. job # "destroy" => pc = "ready" /\ Heads(mem, doc, N, S) /\ NoOrphans(mem, N, S) /\ Subs(mem, N, S, NULL)
  BY <1>1, <1>4, <1>5 DEF Phases, Document
<1>. QED  BY <1>1, <1>2, <1>3, <1>4, <1>5, <1>6

\* At its end the traversal has visited every node.
LEMMA EndsKeep ==
  ASSUME NEW N \in SUBSET Nat, NEW S \in SUBSET Nat, NEW B \in SUBSET Nat, Good(N, S, B), Alike, DumpEnds \/ EditEnds
  PROVE  Good(N, S, B)'
<1>1. PICK job : job # "destroy" /\ job # "none" /\ Traversed(job)
  BY DEF DumpEnds, EditEnds
<1>2. walk' = NoWalk /\ UNCHANGED <<mem, brk, doc, pc, parse, settings, text, lost>> /\ buf' \in {buf, NoBuf}
  BY DEF DumpEnds, EditEnds, heap
<1>3. doc # NULL /\ pc = "ready" /\ Heads(mem, doc, N, S) /\ NoOrphans(mem, N, S) /\ Subs(mem, N, S, NULL) /\ ~Idle
  BY <1>1, TraversedAll
<1>4. Types /\ Sound(mem, brk, N, S, Roots) /\ RootsApart /\ Phases(N) /\ Objects /\ buf \in BufType
  BY DEF Good, Types, BufType
<1>5. walk' \in WalkType /\ walk'.job = "none" /\ buf' \in BufType
  BY <1>2, <1>4, NothingTypes
<1>6. Roots' = Roots /\ RootsApart' /\ Sound(mem', brk', N, S, Roots')
  BY <1>2, <1>4, RootsKept
<1>7. Types'
  <2>1. obj' \in [Obj -> Members]
    BY DEF Alike
  <2>. QED  BY <1>2, <1>4, <1>5, <2>1 DEF Types, Members, settings, WalkType, BufType
<1>8. Phases(N)' /\ Document(N, S)' /\ Walking(N, S, B)' /\ Parsing(N, S)' /\ Buffered(N)'
  BY <1>2, <1>3, <1>4, <1>5 DEF Phases, Document, Walking, Parsing, Buffered, Idle
<1>9. Objects'
  BY <1>4, <1>5, ObjectsKept
<1>10. Good(N, S, B)'
  BY <1>6, <1>7, <1>8, <1>9 DEF Good
<1>. QED  BY <1>10

\* At the end of ini_destroy no node is left, and the document is freed.
LEMMA DestroyEndsKeeps ==
  ASSUME NEW N \in SUBSET Nat, NEW S \in SUBSET Nat, NEW B \in SUBSET Nat, Good(N, S, B), Alike, DestroyEnds
  PROVE  IInv'
<1>1. /\ Traversed("destroy") /\ walk' = NoWalk /\ pc' = "idle" /\ doc' = NULL
      /\ IF walk.count > 0 THEN mem' = Freed(mem, {doc}) /\ lost' = lost ELSE lost' = lost \cup {doc} /\ mem' = mem
      /\ UNCHANGED <<brk, parse, buf, settings, text>>
  BY DEF DestroyEnds
<1>2. doc # NULL /\ N = {} /\ S = {} /\ walk.job = "destroy" /\ ~Idle
  BY <1>1, TraversedAll
<1>3. Types /\ Sound(mem, brk, N, S, Roots) /\ RootsApart /\ Phases(N) /\ Objects
  BY DEF Good
<1>4. parse.section = NULL /\ parse.prev = NULL /\ parse.buf = NULL
  BY <1>2, <1>3 DEF Phases
<1>5. walk' \in WalkType /\ walk'.job = "none"
  BY <1>1, NothingTypes
<1>6. \A o \in Obj : Owned(o)' = Owned(o) /\ obj'[o].path = obj[o].path /\ obj'[o].map = obj[o].map
  BY OwnersKept DEF Alike
<1>7. Held' = Held /\ NULL \notin Held /\ doc \notin Held /\ doc \notin lost /\ NULL \notin lost
  <2>1. Held' = Held
    BY <1>6 DEF Held
  <2>2. NULL \notin Held
    BY DEF Held, Owned
  <2>3. doc \notin Held
    BY <1>3 DEF RootsApart, Held
  <2>. QED  BY <1>3, <2>1, <2>2, <2>3 DEF RootsApart
<1>8. Roots = {doc} \cup Held \cup lost
  BY <1>2, <1>4 DEF Roots
<1>9. Roots' = Held \cup lost'
  BY <1>1, <1>4, <1>7 DEF Roots
<1>10. Covered(mem, N) = {} /\ DOMAIN mem = Roots /\ brk \in Nat /\ DOMAIN mem \subseteq 1..brk
  BY <1>2, <1>3 DEF Covered, Sound, Body, Extent
<1>11. DOMAIN mem' = Roots'
  <2>1. CASE walk.count > 0
    <3>1. DOMAIN mem' = Roots \ {doc} /\ Roots' = Held \cup lost
      BY <1>1, <1>9, <1>10, <2>1 DEF Freed
    <3>. QED  BY <1>7, <1>8, <3>1
  <2>2. CASE ~(walk.count > 0)
    BY <1>1, <1>8, <1>9, <1>10, <2>2
  <2>. QED  BY <2>1, <2>2
<1>12. Sound(mem', brk', N, S, Roots')
  <2>1. DOMAIN mem' \subseteq DOMAIN mem
    BY <1>1 DEF Freed
  <2>2. DOMAIN mem' = Roots' \cup Covered(mem, N) /\ DOMAIN mem' \subseteq 1..brk' /\ brk' \in Nat /\ Roots' \cap Covered(mem, N) = {}
    BY <1>1, <1>10, <1>11, <2>1
  <2>. QED  BY <1>3, <1>10, <2>2, Frame
<1>13. RootsApart'
  <2>1. lost' \subseteq lost \cup {doc}
    BY <1>1
  <2>2. {NULL, doc', parse'.buf} \cap lost' = {}
    BY <1>1, <1>2, <1>4, <1>7, <2>1
  <2>3. \A o \in Obj : Owned(o)' \cap ({doc', parse'.buf} \cup lost') = {}
    <3>1. ASSUME NEW o \in Obj PROVE Owned(o) \cap (lost \cup {doc}) = {} /\ NULL \notin Owned(o)
      BY <1>3 DEF RootsApart, Owned
    <3>2. doc' = NULL /\ parse'.buf = NULL /\ \A o \in Obj : Owned(o)' = Owned(o)
      BY <1>1, <1>4, <1>6
    <3>. QED  BY ONLY <2>1, <3>1, <3>2
  <2>4. \A o \in Obj : obj'[o].path = obj'[o].map => obj'[o].path = NULL
    BY <1>3, <1>6 DEF RootsApart
  <2>5. \A o \in Obj : \A p \in Obj \ {o} : Owned(o)' \cap Owned(p)' = {}
    BY <1>3, <1>6 DEF RootsApart
  <2>6. doc' = parse'.buf => doc' = NULL
    BY <1>1
  <2>. QED  BY ONLY <2>2, <2>3, <2>4, <2>5, <2>6 DEF RootsApart
<1>14. Types'
  <2>1. obj' \in [Obj -> Members]
    BY DEF Alike
  <2>2. doc' \in Nat
    BY <1>1 DEF NULL
  <2>. QED  BY <1>1, <1>3, <1>5, <2>1, <2>2 DEF Types, Members, settings, WalkType
<1>15. Phases(N)' /\ Document(N, S)' /\ Walking(N, S, B)' /\ Parsing(N, S)' /\ Buffered(N)'
  BY <1>1, <1>2, <1>3, <1>4, <1>5 DEF Phases, Document, Walking, Parsing, Buffered, Idle
<1>16. Objects'
  BY <1>3, <1>5, ObjectsKept
<1>17. Good(N, S, B)'
  BY <1>12, <1>13, <1>14, <1>15, <1>16 DEF Good
<1>. QED  BY <1>17 DEF IInv

-----------------------------------------------------------------------------
\* Objects.

\* What the objects find between the steps of the program.
LEMMA AtRest ==
  ASSUME NEW N \in SUBSET Nat, NEW S \in SUBSET Nat, NEW B \in SUBSET Nat, Good(N, S, B), Idle, pc \in {"idle", "ready"}
  PROVE  /\ Types /\ Sound(mem, brk, N, S, Roots) /\ RootsApart /\ Objects /\ walk.job = "none" /\ parse.buf = NULL
         /\ brk \in Nat /\ DOMAIN mem \subseteq 1..brk /\ Roots \subseteq DOMAIN mem /\ Sorts(mem, N, S)
         /\ doc # NULL <=> pc = "ready"
         /\ DOMAIN mem = Roots \cup Covered(mem, N) /\ Roots \cap Covered(mem, N) = {}
<1>1. Types /\ Sound(mem, brk, N, S, Roots) /\ RootsApart /\ Objects /\ Phases(N) /\ walk.job = "none"
  BY DEF Good, Idle
<1>2. Roots \cap Covered(mem, N) = {}
  BY <1>1, RootsAreApart DEF Sound
<1>. QED  BY <1>1, <1>2 DEF Phases, Sound, Body, Extent

\* The roots of objects are theirs alone.
LEMMA OwnersAre ==
  ASSUME RootsApart, NEW o \in Obj
  PROVE  /\ Owned(o) \subseteq Roots /\ NULL \notin Owned(o) /\ doc \notin Owned(o) /\ Owned(o) \cap lost = {}
         /\ \A p \in Obj \ {o} : Owned(o) \cap Owned(p) = {}
BY DEF RootsApart, Owned, Held, Roots

\* An object gives up what it owned for new blocks.
LEMMA Replaced ==
  ASSUME NEW N \in SUBSET Nat, NEW S \in SUBSET Nat, NEW B \in SUBSET Nat, Good(N, S, B), Idle, pc \in {"idle", "ready"},
         NEW o \in Obj, NEW x, obj' = [obj EXCEPT ![o] = x], UNCHANGED <<doc, parse, lost>>,
         NEW new, new = {x.path, x.map} \ {NULL}, x.path = x.map => x.path = NULL,
         \A a \in new : a > brk /\ a <= brk' /\ a \in Nat, brk' \in Nat, brk <= brk',
         DOMAIN mem' = (DOMAIN mem \ Owned(o)) \cup new, \A a \in DOMAIN mem \ Owned(o) : mem'[a] = mem[a]
  PROVE  /\ Sound(mem', brk', N, S, Roots') /\ RootsApart' /\ Kept(mem, mem', N, S, NULL)
         /\ doc # NULL => mem'[doc] = mem[doc]
<1>1. /\ Types /\ Sound(mem, brk, N, S, Roots) /\ RootsApart /\ parse.buf = NULL
      /\ brk \in Nat /\ DOMAIN mem \subseteq 1..brk /\ Roots \subseteq DOMAIN mem /\ Sorts(mem, N, S)
      /\ DOMAIN mem = Roots \cup Covered(mem, N) /\ Roots \cap Covered(mem, N) = {}
  BY AtRest
<1>2. obj \in [Obj -> Members]
  BY <1>1 DEF Types, Members
<1>3. obj'[o] = x /\ \A p \in Obj \ {o} : obj'[p] = obj[p]
  BY <1>2
<1>4. Owned(o)' = new /\ \A p \in Obj \ {o} : Owned(p)' = Owned(p)
  BY <1>3 DEF Owned
<1>5. new \cap DOMAIN mem = {}
  <2>1. ASSUME NEW a \in new, a \in DOMAIN mem PROVE FALSE
    <3>1. a \in Nat /\ a > brk /\ a <= brk
      BY <1>1, <2>1
    <3>. QED  BY <1>1, <3>1
  <2>. QED  BY <2>1
<1>6. /\ Owned(o) \subseteq Roots /\ NULL \notin Owned(o) /\ doc \notin Owned(o) /\ Owned(o) \cap lost = {}
      /\ \A p \in Obj \ {o} : Owned(o) \cap Owned(p) = {}
  BY <1>1, OwnersAre
<1>7. \A p \in Obj : Owned(p) \subseteq Roots
  BY DEF Held, Roots
<1>8. Held' = (Held \ Owned(o)) \cup new
  <2>1. ASSUME NEW a \in Held' PROVE a \in (Held \ Owned(o)) \cup new
    <3>1. PICK p \in Obj : a \in Owned(p)'
      BY <2>1 DEF Held
    <3>2. CASE p = o
      BY <1>4, <3>1, <3>2
    <3>3. CASE p # o
      BY <1>4, <1>6, <3>1, <3>3 DEF Held
    <3>. QED  BY <3>2, <3>3
  <2>2. ASSUME NEW a \in (Held \ Owned(o)) \cup new PROVE a \in Held'
    <3>1. CASE a \in new
      BY <1>4, <3>1 DEF Held
    <3>2. CASE a \in Held \ Owned(o)
      <4>1. PICK p \in Obj : a \in Owned(p)
        BY <3>2 DEF Held
      <4>. QED  BY <1>4, <3>2, <4>1 DEF Held
    <3>. QED  BY <2>2, <3>1, <3>2
  <2>. QED  BY <2>1, <2>2
<1>9. Roots' = (Roots \ Owned(o)) \cup new
  <2>1. Roots = ({doc, parse.buf} \ {NULL}) \cup Held \cup lost /\ Roots' = ({doc, parse.buf} \ {NULL}) \cup Held' \cup lost
    BY DEF Roots
  <2>2. ({doc, parse.buf} \ {NULL}) \cap Owned(o) = {} /\ lost \cap Owned(o) = {}
    BY <1>1, <1>6
  <2>. QED  BY <1>8, <2>1, <2>2
<1>10. Sound(mem', brk', N, S, Roots') /\ Same(mem, mem', N)
  <2>1. \A a \in Covered(mem, N) : a \in DOMAIN mem \ Owned(o) /\ a \notin new
    BY <1>1, <1>5, <1>6
  <2>2. \A a \in Covered(mem, N) : a \in DOMAIN mem' /\ mem'[a] = mem[a]
    BY <2>1
  <2>3. Roots' \cap Covered(mem, N) = {}
    BY <1>1, <1>9, <2>1
  <2>4. DOMAIN mem' = Roots' \cup Covered(mem, N)
    BY <1>1, <1>9, <2>1
  <2>5. DOMAIN mem' \subseteq 1..brk'
    <3>1. ASSUME NEW a \in DOMAIN mem' PROVE a \in 1..brk'
      <4>1. CASE a \in new
        BY <1>1, <4>1
      <4>2. CASE a \in DOMAIN mem
        BY <1>1, <4>2
      <4>. QED  BY <4>1, <4>2
    <3>. QED  BY <3>1
  <2>. QED  BY <1>1, <2>2, <2>3, <2>4, <2>5, Frame
<1>11. RootsApart'
  <2>1. new \cap Roots = {} /\ NULL \notin new
    BY <1>1, <1>5
  <2>2. doc' = parse'.buf => doc' = NULL
    BY <1>1
  <2>3. {NULL, doc', parse'.buf} \cap lost' = {}
    BY <1>1 DEF RootsApart
  <2>4. \A p \in Obj : Owned(p)' \cap ({doc', parse'.buf} \cup lost') = {}
    <3>1. ASSUME NEW p \in Obj PROVE Owned(p)' \cap ({doc, parse.buf} \cup lost) = {}
      <4>1. CASE p = o
        <5>1. new \cap ({doc, parse.buf} \cup lost) = {}
          BY <1>1, <2>1 DEF Roots
        <5>. QED  BY <1>4, <4>1, <5>1
      <4>2. CASE p # o
        BY <1>1, <1>4, <4>2 DEF RootsApart
      <4>. QED  BY <4>1, <4>2
    <3>. QED  BY <3>1
  <2>5. \A p \in Obj : obj'[p].path = obj'[p].map => obj'[p].path = NULL
    BY <1>1, <1>3 DEF RootsApart
  <2>6. \A p \in Obj : \A q \in Obj \ {p} : Owned(p)' \cap Owned(q)' = {}
    <3>1. ASSUME NEW p \in Obj, NEW q \in Obj \ {p} PROVE Owned(p)' \cap Owned(q)' = {}
      <4>1. CASE p = o
        BY <1>4, <1>7, <2>1, <4>1
      <4>2. CASE q = o
        BY <1>4, <1>7, <2>1, <4>2
      <4>3. CASE p # o /\ q # o
        BY <1>1, <1>4, <4>3 DEF RootsApart
      <4>. QED  BY <4>1, <4>2, <4>3
    <3>. QED  BY <3>1
  <2>. QED  BY ONLY <2>2, <2>3, <2>4, <2>5, <2>6 DEF RootsApart
<1>12. Kept(mem, mem', N, S, NULL)
  BY <1>1, <1>10, SameKept
<1>13. ASSUME doc # NULL PROVE mem'[doc] = mem[doc]
  <2>1. doc \in Roots
    BY <1>13 DEF Roots
  <2>. QED  BY <1>1, <1>6, <2>1
<1>. QED  BY <1>10, <1>11, <1>12, <1>13

\* The members of objects.
MemberRules(x) ==
  /\ x \in Members /\ (x.doc = NULL <=> x.map = NULL) /\ (x.err = "OK" => x.map # NULL)
  /\ ~x.alive => x.map = NULL /\ x.path = NULL

\* An object that obeys the rules can take the place of another.
LEMMA ObjectsChanged ==
  ASSUME Types, Objects, NEW o \in Obj, NEW x, MemberRules(x), obj' = [obj EXCEPT ![o] = x],
         walk'.job = "map" => building' = o /\ x.map # NULL /\ x.alive
  PROVE  obj' \in [Obj -> Members] /\ Objects'
<1>1. obj \in [Obj -> Members]
  BY DEF Types, Members
<1>2. obj'[o] = x /\ (\A p \in Obj \ {o} : obj'[p] = obj[p]) /\ obj' \in [Obj -> Members]
  BY <1>1 DEF MemberRules
<1>3. \A p \in Obj : /\ obj'[p].doc = NULL <=> obj'[p].map = NULL
                     /\ obj'[p].err = "OK" => obj'[p].map # NULL
                     /\ ~obj'[p].alive => obj'[p].map = NULL /\ obj'[p].path = NULL
  <2>1. ASSUME NEW p \in Obj
        PROVE  /\ obj'[p].doc = NULL <=> obj'[p].map = NULL
               /\ obj'[p].err = "OK" => obj'[p].map # NULL
               /\ ~obj'[p].alive => obj'[p].map = NULL /\ obj'[p].path = NULL
    <3>1. CASE p = o
      BY <1>2, <3>1 DEF MemberRules
    <3>2. CASE p # o
      BY <1>2, <3>2 DEF Objects
    <3>. QED  BY <3>1, <3>2
  <2>. QED  BY <2>1
<1>4. walk'.job = "map" => building' \in Obj /\ obj'[building'].map # NULL /\ obj'[building'].alive
  BY <1>2
<1>. QED  BY <1>2, <1>3, <1>4 DEF Objects

\* Both kinds of empty object obey the rules.
LEMMA ResetRules == MemberRules(Reset) /\ MemberRules(Unborn) /\ Reset.path = NULL /\ Reset.map = NULL /\ Unborn.path = NULL /\ Unborn.map = NULL
<1>1. Reset \in Members /\ Unborn \in Members
  BY DEF Reset, Unborn, Members, NULL
<1>. QED  BY <1>1 DEF MemberRules, Reset, Unborn, NULL

\* An object is constructed, once it has given up what it owned.
LEMMA ConstructKeeps ==
  ASSUME NEW N \in SUBSET Nat, NEW S \in SUBSET Nat, NEW B \in SUBSET Nat, Good(N, S, B), Idle, pc \in {"idle", "ready"},
         NEW o \in Obj, NEW m, DOMAIN m = DOMAIN mem \ Owned(o), \A a \in DOMAIN m : m[a] = mem[a],
         NEW d \in IF pc = "ready" THEN {NULL, doc} ELSE {NULL}, NEW withPath \in BOOLEAN,
         construct(o, m, d, withPath), UNCHANGED <<fileRest, lost>>
  PROVE  (d = NULL => Good(N, S, B)') /\ (d # NULL => Good(N, S, N)')
<1>1. /\ Types /\ Sound(mem, brk, N, S, Roots) /\ RootsApart /\ Objects /\ walk.job = "none" /\ parse.buf = NULL
      /\ brk \in Nat /\ DOMAIN mem \subseteq 1..brk /\ Sorts(mem, N, S) /\ (doc # NULL <=> pc = "ready")
  BY AtRest
<1>2. UNCHANGED <<doc, pc, parse, buf, err, settings, text, dumped, lost>>
  BY DEF fileRest
<1>3. walk \in WalkType /\ walk.job = "none"
  BY <1>1 DEF Types, WalkType
<1>4. CASE d = NULL
  <2>1. obj' = [obj EXCEPT ![o] = Reset] /\ mem' = m /\ UNCHANGED <<brk, walk, building>>
    BY <1>4 DEF construct
  <2>2. obj' \in [Obj -> Members] /\ Objects'
    BY <1>1, <2>1, ResetRules, ObjectsChanged
  <2>3. PICK new : new = {}
    OBVIOUS
  <2>4. /\ Sound(mem', brk', N, S, Roots') /\ RootsApart' /\ Kept(mem, mem', N, S, NULL)
        /\ doc # NULL => mem'[doc] = mem[doc]
    <3>1. PICK x : x = Reset
      OBVIOUS
    <3>2. obj' = [obj EXCEPT ![o] = x] /\ new = {x.path, x.map} \ {NULL} /\ (x.path = x.map => x.path = NULL)
      BY <2>1, <2>3, <3>1, ResetRules
    <3>3. (\A a \in new : a > brk /\ a <= brk' /\ a \in Nat) /\ brk' \in Nat /\ brk <= brk'
      BY <1>1, <2>1, <2>3
    <3>4. DOMAIN mem' = (DOMAIN mem \ Owned(o)) \cup new /\ \A a \in DOMAIN mem \ Owned(o) : mem'[a] = mem[a]
      BY <2>1, <2>3
    <3>5. UNCHANGED <<doc, parse, lost>>
      BY <1>2
    <3>. QED  BY <3>2, <3>3, <3>4, <3>5, Replaced
  <2>5. Types'
    BY <1>1, <1>2, <2>1, <2>2 DEF Types, Members, settings
  <2>6. Good(N, S, B)'
    BY <1>2, <2>1, <2>2, <2>4, <2>5, StepOutside
  <2>. QED  BY <1>4, <2>6
<1>5. CASE d # NULL
  <2>. DEFINE blocks == IF withPath THEN <<<<>>, {}>> ELSE <<{}>>
              map == brk + Len(blocks)
              path == IF withPath THEN brk + 1 ELSE NULL
  <2>1. pc = "ready" /\ d = doc /\ doc # NULL
    BY <1>5
  <2>2. /\ obj' = [obj EXCEPT ![o] = [Reset EXCEPT !.doc = d, !.path = path, !.map = map]]
        /\ mem' = Allocated(m, brk, blocks) /\ brk' = map /\ building' = o /\ Begin("map")
    BY <1>5 DEF construct, Fills
  <2>3. /\ Len(blocks) \in Nat /\ map \in Nat /\ path \in Nat /\ map # NULL /\ map > brk /\ path # map
        /\ {path, map} \ {NULL} = brk + 1..brk + Len(blocks) /\ brk + 1..brk + Len(blocks) \subseteq Nat
    <3>1. CASE withPath
      <4>1. Len(blocks) = 2
        BY <3>1
      <4>. HIDE DEF blocks
      <4>2. map = brk + 2 /\ path = brk + 1
        BY <3>1, <4>1
      <4>. QED  BY <1>1, <4>1, <4>2 DEF NULL
    <3>2. CASE ~withPath
      <4>1. Len(blocks) = 1
        BY <3>2
      <4>. HIDE DEF blocks
      <4>2. map = brk + 1 /\ path = NULL
        BY <3>2, <4>1
      <4>. QED  BY <1>1, <4>1, <4>2 DEF NULL
    <3>. QED  BY <3>1, <3>2
  <2>4. PICK x : x = [Reset EXCEPT !.doc = d, !.path = path, !.map = map]
    OBVIOUS
  <2>. HIDE DEF blocks, map, path
  <2>5. x = [alive |-> TRUE, err |-> "NOT_INITIALIZED", doc |-> d, path |-> path, map |-> map, synced |-> FALSE]
    BY <2>4 DEF Reset
  <2>6. MemberRules(x) /\ x.path = path /\ x.map = map /\ x.alive
    <3>1. d \in Nat /\ d # NULL
      BY <1>1, <2>1 DEF Types
    <3>. QED  BY <2>3, <2>5, <3>1 DEF MemberRules, Members
  <2>7. obj' \in [Obj -> Members] /\ Objects'
    <3>1. obj' = [obj EXCEPT ![o] = x] /\ building' = o /\ x.map # NULL
      BY <2>2, <2>3, <2>4, <2>6
    <3>. QED  BY <1>1, <2>6, <3>1, ObjectsChanged
  <2>8. PICK new : new = {x.path, x.map} \ {NULL}
    OBVIOUS
  <2>9. new = brk + 1..brk + Len(blocks)
    BY <2>3, <2>6, <2>8
  <2>10. /\ Sound(mem', brk', N, S, Roots') /\ RootsApart' /\ Kept(mem, mem', N, S, NULL)
         /\ doc # NULL => mem'[doc] = mem[doc]
    <3>1. obj' = [obj EXCEPT ![o] = x] /\ (x.path = x.map => x.path = NULL)
      BY <2>2, <2>3, <2>4, <2>6
    <3>2. brk' \in Nat /\ brk <= brk' /\ brk' = brk + Len(blocks)
      BY <1>1, <2>2, <2>3 DEF map
    <3>3. \A a \in new : a > brk /\ a <= brk' /\ a \in Nat
      BY <1>1, <2>3, <2>9, <3>2
    <3>4. DOMAIN mem' = (DOMAIN mem \ Owned(o)) \cup new /\ \A a \in DOMAIN mem \ Owned(o) : mem'[a] = mem[a]
      BY <2>2, <2>9 DEF Allocated
    <3>5. UNCHANGED <<doc, parse, lost>>
      BY <1>2
    <3>. QED  BY <2>8, <3>1, <3>2, <3>3, <3>4, <3>5, Replaced
  <2>11. walk' \in WalkType
    <3>1. Heads(mem, doc, N, S) /\ S \subseteq N
      BY <1>1, <2>1 DEF Good, Document, Sorts
    <3>. QED  BY <1>2, <2>1, <2>2, <2>10, <3>1, WalkBegins DEF Jobs
  <2>12. Types'
    BY <1>1, <1>2, <2>7, <2>11 DEF Types, Members, settings, WalkType
  <2>13. Ready /\ Begin("map") /\ UNCHANGED <<doc, pc, parse>>
    BY <1>2, <2>1, <2>2 DEF Ready
  <2>14. ASSUME NEW job, job = "map" PROVE Good(N, S, N)'
    <3>1. job \in Jobs /\ job # "none" /\ Begin(job) /\ (job = "buffer" => Filling')
      BY <2>13, <2>14 DEF Jobs
    <3>2. mem'[doc] = mem[doc]
      BY <2>1, <2>10
    <3>. QED  BY <2>7, <2>10, <2>12, <2>13, <3>1, <3>2, TraversalBegins
  <2>15. Good(N, S, N)'
    BY <2>14
  <2>. QED  BY <1>5, <2>15
<1>. QED  BY <1>4, <1>5

\* The heap that an object is constructed on is without what the object has given up.
Constructs(o, m, d, withPath) ==
  /\ DOMAIN m = DOMAIN mem \ Owned(o) /\ \A a \in DOMAIN m : m[a] = mem[a]
  /\ d \in (IF pc = "ready" THEN {NULL, doc} ELSE {NULL}) /\ withPath \in BOOLEAN
  /\ construct(o, m, d, withPath)

\* What the ways to construct from a document have in common.
LEMMA ConstructionIs ==
  ASSUME NEW N \in SUBSET Nat, NEW S \in SUBSET Nat, NEW B \in SUBSET Nat, Good(N, S, B), NEW o \in Obj,
         Construct(o) \/ \E src \in Obj : CopyConstruct(o, src) \/ CopyAssign(o, src)
  PROVE  /\ Idle /\ pc \in {"idle", "ready"} /\ UNCHANGED <<fileRest, lost>>
         /\ \E m, d, withPath : Constructs(o, m, d, withPath)
<1>1. Idle /\ pc \in {"idle", "ready"} /\ UNCHANGED <<fileRest, lost>>
  BY DEF Construct, CopyConstruct, CopyAssign, Use, Between
<1>2. Types /\ Objects /\ (doc # NULL <=> pc = "ready")
  BY <1>1, AtRest
<1>3. ~obj[o].alive => Owned(o) = {}
  BY <1>2 DEF Objects, Owned
<1>4. CASE Construct(o)
  <2>1. PICK withPath \in BOOLEAN : construct(o, mem, doc, withPath)
    BY <1>4 DEF Construct
  <2>2. Owned(o) = {} /\ doc \in IF pc = "ready" THEN {NULL, doc} ELSE {NULL}
    BY <1>2, <1>3, <1>4 DEF Construct
  <2>3. Constructs(o, mem, doc, withPath)
    BY <2>1, <2>2 DEF Constructs
  <2>. QED  BY <1>1, <2>3
<1>5. CASE \E src \in Obj : CopyConstruct(o, src)
  <2>1. PICK src \in Obj : CopyConstruct(o, src)
    BY <1>5
  <2>2. /\ construct(o, mem, obj[src].doc, obj[src].path # NULL) /\ Owned(o) = {}
        /\ obj[src].doc \in IF pc = "ready" THEN {NULL, doc} ELSE {NULL}
        /\ (obj[src].path # NULL) \in BOOLEAN
    BY <1>3, <2>1 DEF CopyConstruct, UsesLiveDoc
  <2>3. PICK d \in IF pc = "ready" THEN {NULL, doc} ELSE {NULL}, withPath \in BOOLEAN : construct(o, mem, d, withPath)
    BY <2>2
  <2>4. Constructs(o, mem, d, withPath)
    BY <2>2, <2>3 DEF Constructs
  <2>. QED  BY <1>1, <2>4
<1>6. CASE \E src \in Obj : CopyAssign(o, src)
  <2>1. PICK src \in Obj : CopyAssign(o, src)
    BY <1>6
  <2>2. /\ construct(o, Freed(mem, Owned(o)), obj[src].doc, obj[src].path # NULL)
        /\ obj[src].doc \in IF pc = "ready" THEN {NULL, doc} ELSE {NULL}
        /\ (obj[src].path # NULL) \in BOOLEAN
    BY <2>1 DEF CopyAssign, UsesLiveDoc
  <2>3. PICK d \in IF pc = "ready" THEN {NULL, doc} ELSE {NULL}, withPath \in BOOLEAN : construct(o, Freed(mem, Owned(o)), d, withPath)
    BY <2>2
  <2>4. PICK m : m = Freed(mem, Owned(o))
    OBVIOUS
  <2>5. DOMAIN m = DOMAIN mem \ Owned(o) /\ (\A a \in DOMAIN m : m[a] = mem[a]) /\ construct(o, m, d, withPath)
    BY <2>3, <2>4 DEF Freed
  <2>6. Constructs(o, m, d, withPath)
    BY <2>5 DEF Constructs
  <2>. QED  BY <1>1, <2>6
<1>. QED  BY <1>4, <1>5, <1>6

\* Each way to construct from a document keeps the invariant.
LEMMA ConstructionKeeps ==
  ASSUME NEW N \in SUBSET Nat, NEW S \in SUBSET Nat, NEW B \in SUBSET Nat, Good(N, S, B), NEW o \in Obj,
         Construct(o) \/ \E src \in Obj : CopyConstruct(o, src) \/ CopyAssign(o, src)
  PROVE  IInv'
<1>1. Idle /\ pc \in {"idle", "ready"} /\ UNCHANGED <<fileRest, lost>>
  BY ConstructionIs
<1>2. PICK m, d, withPath : Constructs(o, m, d, withPath)
  BY ConstructionIs
<1>3. Good(N, S, B)' \/ Good(N, S, N)'
  BY <1>1, <1>2, ConstructKeeps DEF Constructs
<1>. QED  BY <1>3 DEF IInv

\* So does the destructor, which frees what the object owns.
LEMMA DestructKeeps ==
  ASSUME NEW N \in SUBSET Nat, NEW S \in SUBSET Nat, NEW B \in SUBSET Nat, Good(N, S, B), NEW o \in Obj, Destruct(o)
  PROVE  Good(N, S, B)'
<1>1. /\ Idle /\ pc \in {"idle", "ready"} /\ UNCHANGED <<doc, pc, parse, buf, err, settings, text, dumped, brk, walk, building, lost>>
      /\ obj' = [obj EXCEPT ![o] = Unborn] /\ mem' = Freed(mem, Owned(o))
  BY DEF Destruct, Use, Between, fileRest
<1>2. Types /\ Objects /\ brk \in Nat /\ walk.job = "none"
  BY <1>1, AtRest
<1>3. PICK new, x : new = {} /\ x = Unborn
  OBVIOUS
<1>4. /\ Sound(mem', brk', N, S, Roots') /\ RootsApart' /\ Kept(mem, mem', N, S, NULL)
      /\ doc # NULL => mem'[doc] = mem[doc]
  <2>1. obj' = [obj EXCEPT ![o] = x] /\ new = {x.path, x.map} \ {NULL} /\ (x.path = x.map => x.path = NULL)
    BY <1>1, <1>3, ResetRules
  <2>2. (\A a \in new : a > brk /\ a <= brk' /\ a \in Nat) /\ brk' \in Nat /\ brk <= brk'
    BY <1>1, <1>2, <1>3
  <2>3. DOMAIN mem' = (DOMAIN mem \ Owned(o)) \cup new /\ \A a \in DOMAIN mem \ Owned(o) : mem'[a] = mem[a]
    BY <1>1, <1>3 DEF Freed
  <2>4. UNCHANGED <<doc, parse, lost>>
    BY <1>1
  <2>5. Idle /\ pc \in {"idle", "ready"}
    BY <1>1
  <2>. QED  BY <2>1, <2>2, <2>3, <2>4, <2>5, Replaced
<1>5. obj' \in [Obj -> Members] /\ Objects'
  BY <1>1, <1>2, ResetRules, ObjectsChanged
<1>6. Types'
  BY <1>1, <1>2, <1>5 DEF Types, Members, settings
<1>7. Good(N, S, B)'
  BY <1>1, <1>4, <1>5, <1>6, StepOutside
<1>. QED  BY <1>7

\* So do the moves: the path and the map have their new owner, and what was lost is counted.
LEMMA MoveKeeps ==
  ASSUME NEW N \in SUBSET Nat, NEW S \in SUBSET Nat, NEW B \in SUBSET Nat, Good(N, S, B), NEW o \in Obj, NEW src \in Obj,
         MoveConstruct(o, src) \/ MoveAssign(o, src)
  PROVE  Good(N, S, B)'
<1>1. /\ Idle /\ pc \in {"idle", "ready"} /\ UNCHANGED <<doc, pc, parse, buf, err, settings, text, dumped, mem, brk, walk, building>>
      /\ obj' = Moved(o, src) /\ obj[src].alive /\ (obj[o].alive => o # src /\ lost' = lost \cup Owned(o)) /\ (~obj[o].alive => lost' = lost)
  BY DEF MoveConstruct, MoveAssign, Use, Between, fileRest, heap
<1>2. /\ Types /\ Sound(mem, brk, N, S, Roots) /\ RootsApart /\ Objects /\ walk.job = "none" /\ parse.buf = NULL
      /\ Sorts(mem, N, S)
  BY <1>1, AtRest
<1>3. o # src /\ lost' = lost \cup Owned(o)
  <2>1. ~obj[o].alive => Owned(o) = {}
    BY <1>2 DEF Objects, Owned
  <2>. QED  BY <1>1, <2>1
<1>4. obj \in [Obj -> Members]
  BY <1>2 DEF Types, Members
<1>5. /\ obj'[o] = obj[src] /\ obj'[src] = Reset /\ (\A p \in Obj \ {o, src} : obj'[p] = obj[p])
      /\ obj' \in [Obj -> Members]
  <2>1. obj' = [obj EXCEPT ![o] = obj[src], ![src] = Reset]
    BY <1>1 DEF Moved
  <2>2. Reset \in Members
    BY ResetRules DEF MemberRules
  <2>. QED  BY <1>3, <1>4, <2>1, <2>2
<1>6. Owned(o)' = Owned(src) /\ Owned(src)' = {} /\ \A p \in Obj \ {o, src} : Owned(p)' = Owned(p)
  BY <1>5, ResetRules DEF Owned
<1>7. Held = Held' \cup Owned(o)
  <2>1. ASSUME NEW a \in Held PROVE a \in Held' \cup Owned(o)
    <3>1. PICK p \in Obj : a \in Owned(p)
      BY <2>1 DEF Held
    <3>2. p # o => a \in Owned(o)' \/ (p # src /\ a \in Owned(p)')
      BY <1>6, <3>1
    <3>. QED  BY <3>1, <3>2 DEF Held
  <2>2. ASSUME NEW a \in Held' PROVE a \in Held
    <3>1. PICK p \in Obj : a \in Owned(p)'
      BY <2>2 DEF Held
    <3>2. a \in Owned(src) \/ a \in Owned(p)
      BY <1>6, <3>1
    <3>. QED  BY <3>2 DEF Held
  <2>3. Owned(o) \subseteq Held
    BY DEF Held
  <2>. QED  BY <2>1, <2>2, <2>3
<1>8. Roots' = Roots
  <2>1. Roots = ({doc, parse.buf} \ {NULL}) \cup Held \cup lost /\ Roots' = ({doc, parse.buf} \ {NULL}) \cup Held' \cup lost'
    BY <1>1 DEF Roots
  <2>. QED  BY <1>3, <1>7, <2>1
<1>9. RootsApart'
  <2>1. \A p \in Obj : /\ Owned(p) \cap ({doc, parse.buf} \cup lost) = {} /\ (obj[p].path = obj[p].map => obj[p].path = NULL)
                       /\ \A q \in Obj \ {p} : Owned(p) \cap Owned(q) = {}
    BY <1>2 DEF RootsApart
  <2>2. \A p \in Obj : NULL \notin Owned(p)
    BY DEF Owned
  <2>3. doc' = parse'.buf => doc' = NULL
    BY <1>1, <1>2 DEF RootsApart
  <2>4. {NULL, doc', parse'.buf} \cap lost' = {}
    <3>1. {NULL, doc, parse.buf} \cap lost = {}
      BY <1>2 DEF RootsApart
    <3>2. {NULL, doc, parse.buf} \cap Owned(o) = {}
      BY <1>2, <2>1, <2>2
    <3>. QED  BY <1>1, <1>3, <3>1, <3>2
  <2>5. \A p \in Obj : Owned(p)' \cap ({doc', parse'.buf} \cup lost') = {}
    <3>1. ASSUME NEW p \in Obj PROVE Owned(p)' \cap ({doc, parse.buf} \cup lost \cup Owned(o)) = {}
      <4>1. CASE p = o
        <5>1. Owned(src) \cap ({doc, parse.buf} \cup lost) = {} /\ Owned(src) \cap Owned(o) = {}
          BY <1>3, <2>1
        <5>. QED  BY <1>6, <4>1, <5>1
      <4>2. CASE p = src
        BY <1>6, <4>2
      <4>3. CASE p # o /\ p # src
        <5>1. Owned(p) \cap ({doc, parse.buf} \cup lost) = {} /\ Owned(p) \cap Owned(o) = {}
          BY <2>1, <4>3
        <5>. QED  BY <1>6, <4>3, <5>1
      <4>. QED  BY <4>1, <4>2, <4>3
    <3>. QED  BY <1>1, <1>3, <3>1
  <2>6. \A p \in Obj : obj'[p].path = obj'[p].map => obj'[p].path = NULL
    <3>1. ASSUME NEW p \in Obj PROVE obj'[p].path = obj'[p].map => obj'[p].path = NULL
      <4>1. CASE p = src
        BY <1>5, <4>1, ResetRules
      <4>2. CASE p # src
        BY <1>5, <2>1, <4>2
      <4>. QED  BY <4>1, <4>2
    <3>. QED  BY <3>1
  <2>7. \A p \in Obj : \A q \in Obj \ {p} : Owned(p)' \cap Owned(q)' = {}
    <3>1. ASSUME NEW p \in Obj, NEW q \in Obj \ {p} PROVE Owned(p)' \cap Owned(q)' = {}
      <4>1. CASE p = src \/ q = src
        BY <1>6, <4>1
      <4>2. CASE p = o /\ q # src
        <5>1. Owned(src) \cap Owned(q) = {}
          BY <2>1, <4>2
        <5>. QED  BY <1>6, <4>2, <5>1
      <4>3. CASE q = o /\ p # src
        <5>1. Owned(p) \cap Owned(src) = {}
          BY <2>1, <4>3
        <5>. QED  BY <1>6, <4>3, <5>1
      <4>4. CASE p \notin {o, src} /\ q \notin {o, src}
        BY <1>6, <2>1, <4>4
      <4>. QED  BY <4>1, <4>2, <4>3, <4>4
    <3>. QED  BY <3>1
  <2>. QED  BY ONLY <2>3, <2>4, <2>5, <2>6, <2>7 DEF RootsApart
<1>10. Objects'
  <2>1. \A p \in Obj : /\ obj'[p].doc = NULL <=> obj'[p].map = NULL
                       /\ obj'[p].err = "OK" => obj'[p].map # NULL
                       /\ ~obj'[p].alive => obj'[p].map = NULL /\ obj'[p].path = NULL
    <3>1. ASSUME NEW p \in Obj
          PROVE  /\ obj'[p].doc = NULL <=> obj'[p].map = NULL
                 /\ obj'[p].err = "OK" => obj'[p].map # NULL
                 /\ ~obj'[p].alive => obj'[p].map = NULL /\ obj'[p].path = NULL
      <4>1. CASE p = src
        BY <1>5, <4>1, ResetRules DEF MemberRules
      <4>2. CASE p # src
        BY <1>2, <1>5, <4>2 DEF Objects
      <4>. QED  BY <4>1, <4>2
    <3>. QED  BY <3>1
  <2>2. walk'.job # "map"
    BY <1>1, <1>2
  <2>. QED  BY <2>1, <2>2 DEF Objects
<1>11. Types'
  BY <1>1, <1>2, <1>5 DEF Types, Members, settings
<1>12. Sound(mem', brk', N, S, Roots') /\ Kept(mem, mem', N, S, NULL) /\ (doc # NULL => mem'[doc] = mem[doc])
  <2>1. Kept(mem, mem, N, S, NULL)
    BY <1>2, SameKept DEF Same
  <2>. QED  BY <1>1, <1>2, <1>8, <2>1
<1>13. Good(N, S, B)'
  BY <1>1, <1>9, <1>10, <1>11, <1>12, StepOutside
<1>. QED  BY <1>13

\* A sync empties the map, which is a root, and the traversal begins: the owners are the same.
LEMMA SyncKeeps ==
  ASSUME NEW N \in SUBSET Nat, NEW S \in SUBSET Nat, NEW B \in SUBSET Nat, Good(N, S, B), NEW o \in Obj, sync(o)
  PROVE  Good(N, S, N)'
<1>. DEFINE p == obj[o].map
<1>1. /\ Idle /\ pc \in {"idle", "ready"} /\ UNCHANGED <<doc, pc, parse, buf, err, settings, text, dumped, brk, obj, lost>>
      /\ mem' = [mem EXCEPT ![p] = {}] /\ building' = o /\ Begin("map") /\ obj[o].alive /\ obj[o].err = "OK" /\ UsesLiveDoc(o)
  BY DEF sync, Use, Between, fileRest, Fills
<1>2. /\ Types /\ Sound(mem, brk, N, S, Roots) /\ RootsApart /\ Objects /\ walk.job = "none" /\ parse.buf = NULL
      /\ Roots \subseteq DOMAIN mem /\ Sorts(mem, N, S) /\ (doc # NULL <=> pc = "ready")
  BY <1>1, AtRest
<1>3. p # NULL /\ obj[o].doc # NULL /\ pc = "ready" /\ doc # NULL
  BY <1>1, <1>2 DEF Objects, UsesLiveDoc
<1>4. p \in Roots /\ p # doc
  <2>1. p \in Owned(o)
    BY <1>3 DEF Owned
  <2>. QED  BY <1>2, <2>1, OwnersAre
<1>5. Roots' = Roots /\ RootsApart'
  <2>1. \A q \in Obj : Owned(q)' = Owned(q)
    BY <1>1 DEF Owned
  <2>2. Held' = Held
    BY <2>1 DEF Held
  <2>3. Roots' = Roots
    BY <1>1, <2>2 DEF Roots
  <2>. QED  BY <1>1, <1>2, <2>1, <2>3 DEF RootsApart
<1>6. doc \in Roots
  BY <1>3 DEF Roots
<1>. HIDE DEF p
<1>7. Sound(mem', brk, N, S, Roots) /\ Same(mem, mem', N)
  <2>1. DOMAIN mem' = DOMAIN mem /\ \A y \in DOMAIN mem : y # p => mem'[y] = mem[y]
    BY <1>1
  <2>2. Body(mem, brk, N, S, Roots) /\ Links(mem, N, S)
    BY <1>2 DEF Sound
  <2>. QED  BY <1>4, <2>1, <2>2, FrameRoot
<1>8. mem'[doc] = mem[doc]
  BY <1>1, <1>2, <1>4, <1>6
<1>9. Kept(mem, mem', N, S, NULL)
  BY <1>2, <1>7, SameKept
<1>10. walk' \in WalkType /\ walk'.job = "map"
  <2>1. Heads(mem, doc, N, S) /\ S \subseteq N
    BY <1>2, <1>3 DEF Good, Document, Sorts
  <2>. QED  BY <1>1, <1>8, <2>1, WalkBegins DEF Jobs
<1>11. Objects'
  BY <1>1, <1>2, <1>3 DEF Objects, p
<1>12. Types'
  BY <1>1, <1>2, <1>10 DEF Types, settings, WalkType
<1>13. ASSUME NEW job, job = "map" PROVE Good(N, S, N)'
  <2>1. job \in Jobs /\ job # "none" /\ Begin(job) /\ (job = "buffer" => Filling') /\ Ready /\ UNCHANGED <<doc, pc, parse>>
    BY <1>1, <1>3, <1>13 DEF Jobs, Ready
  <2>2. Sound(mem', brk', N, S, Roots')
    BY <1>1, <1>5, <1>7
  <2>. QED  BY <1>5, <1>8, <1>9, <1>11, <1>12, <2>1, <2>2, TraversalBegins
<1>14. Good(N, S, N)'
  BY <1>13
<1>. QED  BY <1>14

\* The traversal that fills a map ends.
LEMMA FilledKeeps ==
  ASSUME NEW N \in SUBSET Nat, NEW S \in SUBSET Nat, NEW B \in SUBSET Nat, Good(N, S, B), Filled
  PROVE  Good(N, S, B)'
<1>1. /\ Traversed("map") /\ walk' = NoWalk /\ building' = NoObj
      /\ obj' = [obj EXCEPT ![building] = [@ EXCEPT !.err = "OK", !.synced = TRUE]]
      /\ UNCHANGED <<doc, pc, parse, buf, err, settings, text, dumped, mem, brk, lost>>
  BY DEF Filled, fileRest, heap
<1>2. doc # NULL /\ pc = "ready" /\ Heads(mem, doc, N, S) /\ NoOrphans(mem, N, S) /\ Subs(mem, N, S, NULL) /\ ~Idle /\ walk.job = "map"
  BY <1>1, TraversedAll
<1>3. Types /\ Sound(mem, brk, N, S, Roots) /\ RootsApart /\ Phases(N) /\ Objects
  BY DEF Good
<1>4. building \in Obj /\ obj[building].map # NULL /\ obj[building].alive /\ obj \in [Obj -> Members]
  BY <1>2, <1>3 DEF Objects, Types, Members
<1>5. PICK o : o = building
  OBVIOUS
<1>6. /\ \A p \in Obj : /\ obj'[p].doc = obj[p].doc /\ obj'[p].path = obj[p].path /\ obj'[p].map = obj[p].map /\ obj'[p].alive = obj[p].alive
                        /\ p # o => obj'[p].err = obj[p].err
      /\ obj' \in [Obj -> Members]
  <2>1. o \in Obj /\ obj' = [obj EXCEPT ![o] = [obj[o] EXCEPT !.err = "OK", !.synced = TRUE]]
    BY <1>1, <1>4, <1>5
  <2>2. PICK x : x = [obj[o] EXCEPT !.err = "OK", !.synced = TRUE]
    OBVIOUS
  <2>3. x \in Members /\ x.doc = obj[o].doc /\ x.path = obj[o].path /\ x.map = obj[o].map /\ x.alive = obj[o].alive
    <3>1. obj[o] \in Members
      BY <1>4, <2>1
    <3>. QED  BY <2>2, <3>1 DEF Members
  <2>4. obj' = [obj EXCEPT ![o] = x]
    BY <2>1, <2>2
  <2>5. obj'[o] = x /\ \A p \in Obj \ {o} : obj'[p] = obj[p]
    BY <1>4, <2>1, <2>4
  <2>6. obj' \in [Obj -> Members]
    BY <1>4, <2>1, <2>3, <2>4
  <2>. QED  BY <2>3, <2>5, <2>6
<1>7. Roots' = Roots /\ RootsApart'
  <2>1. \A q \in Obj : Owned(q)' = Owned(q)
    BY <1>6 DEF Owned
  <2>2. Held' = Held
    BY <2>1 DEF Held
  <2>3. Roots' = Roots
    BY <1>1, <2>2 DEF Roots
  <2>. QED  BY <1>1, <1>3, <1>6, <2>1, <2>3 DEF RootsApart
<1>8. walk' \in WalkType /\ walk'.job = "none"
  BY <1>1, NothingTypes
<1>9. Objects'
  <2>1. \A p \in Obj : obj'[p].err = "OK" => obj'[p].map # NULL
    BY <1>3, <1>4, <1>5, <1>6 DEF Objects
  <2>. QED  BY <1>3, <1>6, <1>8, <2>1 DEF Objects
<1>10. Types'
  BY <1>1, <1>3, <1>6, <1>8 DEF Types, Members, settings, WalkType
<1>11. Phases(N)' /\ Document(N, S)' /\ Walking(N, S, B)' /\ Parsing(N, S)' /\ Buffered(N)'
  BY <1>1, <1>2, <1>3, <1>8 DEF Phases, Document, Walking, Parsing, Buffered, Idle
<1>12. Sound(mem', brk', N, S, Roots')
  BY <1>1, <1>3, <1>7
<1>13. Good(N, S, B)'
  BY <1>7, <1>9, <1>10, <1>11, <1>12 DEF Good
<1>. QED  BY <1>13

-----------------------------------------------------------------------------
\* The program and the objects.

\* The invariant holds at first.
LEMMA InitKeeps ==
  ASSUME MapInit
  PROVE  IInv
<1>1. /\ mem = <<>> /\ brk = 0 /\ doc = NULL /\ pc = "start" /\ parse = NoParse /\ walk = NoWalk /\ buf = NoBuf
      /\ s_newline = LF /\ s_indent_spaces = NoIndent /\ text \in Texts /\ lost = {}
      /\ obj = [o \in Obj |-> Unborn]
  BY DEF MapInit, Init
<1>2. PICK E : E = {}
  OBVIOUS
<1>3. E \in SUBSET Nat
  BY <1>2
<1>4. \A o \in Obj : obj[o] = Unborn /\ Owned(o) = {}
  BY <1>1, ResetRules DEF Owned
<1>5. parse.section = NULL /\ parse.prev = NULL /\ parse.buf = NULL /\ walk.job = "none"
  BY <1>1 DEF NoParse, NoWalk
<1>6. Held = {} /\ Roots = {}
  <2>1. Held = {}
    BY <1>4 DEF Held
  <2>. QED  BY <1>1, <1>5, <2>1 DEF Roots
<1>7. Types
  <2>1. obj \in [Obj -> Members]
    BY <1>1, ResetRules DEF MemberRules
  <2>2. text \in Word /\ s_newline \in Word /\ s_indent_spaces \in Word
    BY <1>1, TextWords, SettingsWords
  <2>3. walk \in WalkType /\ parse \in ParseType /\ buf \in BufType
    BY <1>1, NothingTypes
  <2>4. doc \in Nat
    BY <1>1 DEF NULL
  <2>. QED  BY <1>1, <2>1, <2>2, <2>3, <2>4 DEF Types, Members, WalkType, ParseType, BufType
<1>8. Sound(mem, brk, E, E, Roots)
  <2>1. Covered(mem, E) = {}
    BY <1>2 DEF Covered
  <2>2. Extent(mem, brk, E, Roots)
    BY <1>1, <1>6, <2>1 DEF Extent
  <2>3. Sorts(mem, E, E) /\ Apart(mem, E, Roots) /\ Links(mem, E, E)
    BY <1>2 DEF Sorts, Apart, Links
  <2>. QED  BY <1>2, <2>2, <2>3 DEF Sound, Body
<1>9. RootsApart
  <2>1. \A o \in Obj : obj[o].path = NULL
    BY <1>4, ResetRules
  <2>. QED  BY <1>1, <1>4, <1>5, <2>1 DEF RootsApart
<1>10. Phases(E) /\ Document(E, E) /\ Walking(E, E, E) /\ Parsing(E, E) /\ Buffered(E)
  BY <1>1, <1>2, <1>5 DEF Phases, Document, Walking, Parsing, Buffered, Idle
<1>11. Objects
  BY <1>4, <1>5, ResetRules DEF Objects, MemberRules, Unborn, Reset
<1>12. Good(E, E, E)
  BY <1>7, <1>8, <1>9, <1>10, <1>11 DEF Good
<1>. QED  BY <1>3, <1>12 DEF IInv

\* Each step of the program keeps it.
LEMMA ProgramKeeps ==
  ASSUME IInv, ProgramStep
  PROVE  IInv'
<1>1. PICK N \in SUBSET Nat, S \in SUBSET Nat, B \in SUBSET Nat : Good(N, S, B)
  BY DEF IInv
<1>2. Types
  BY <1>1 DEF Good
<1>3. Alike
  BY <1>2, ObjectsAlike
<1>4. CASE Configure \/ ParseBegins \/ ParseLine \/ ParseEnds
  BY <1>1, <1>3, <1>4, ConfigureKeeps, ParseBeginsKeeps, ParseLineKeeps, ParseEndsKeeps
<1>5. CASE ini_dump_to_stream \/ ini_dump_to_buffer \/ ini_destroy \/ TestGettersAndSetters
  <2>1. Good(N, S, N)'
    BY <1>1, <1>3, <1>5, DumpsBegin
  <2>. QED  BY <2>1 DEF IInv
<1>6. CASE Set
  <2>1. Good(N, S, B)'
    BY <1>1, <1>3, <1>6, SetKeeps
  <2>. QED  BY <2>1 DEF IInv
<1>7. CASE Visit("stream", __dump_node_to_stream(NameGiven, Visited)) \/ WriteFails
  <2>1. PICK B2 \in SUBSET Nat : Good(N, S, B2)'
    BY <1>1, <1>3, <1>7, StreamKeeps
  <2>. QED  BY <2>1 DEF IInv
<1>8. CASE Visit("buffer", __dump_node_to_buffer(NameGiven, Visited))
  <2>1. PICK B2 \in SUBSET Nat : Good(N, S, B2)'
    BY <1>1, <1>3, <1>8, BufferKeeps
  <2>. QED  BY <2>1 DEF IInv
<1>9. CASE Visit("destroy", __do_nothing_but_trigger_summary(NameGiven, Visited))
  BY <1>1, <1>3, <1>9, DestroyKeeps
<1>10. CASE Visit("edit", test_getters_and_setters(NameGiven, Visited))
  <2>1. PICK B2 \in SUBSET Nat : Good(N, S, B2)'
    BY <1>1, <1>3, <1>10, EditKeeps
  <2>. QED  BY <2>1 DEF IInv
<1>11. CASE LeaveSection \/ NextHeader
  <2>1. CASE LeaveSection
    BY <1>1, <1>3, <2>1, LeaveSectionKeeps
  <2>2. CASE NextHeader
    <3>1. Good(N, S, B)'
      BY <1>1, <1>3, <2>2, NextHeaderKeeps
    <3>. QED  BY <3>1 DEF IInv
  <2>. QED  BY <1>11, <2>1, <2>2
<1>12. CASE DumpEnds \/ EditEnds
  <2>1. Good(N, S, B)'
    BY <1>1, <1>3, <1>12, EndsKeep
  <2>. QED  BY <2>1 DEF IInv
<1>13. CASE DestroyEnds
  BY <1>1, <1>3, <1>13, DestroyEndsKeeps
<1>14. Next
  BY DEF ProgramStep
<1>. QED  BY <1>4, <1>5, <1>6, <1>7, <1>8, <1>9, <1>10, <1>11, <1>12, <1>13, <1>14 DEF Next

\* Each use of an object keeps it.
LEMMA ObjectsKeep ==
  ASSUME IInv, MapStep
  PROVE  IInv'
<1>1. PICK N \in SUBSET Nat, S \in SUBSET Nat, B \in SUBSET Nat : Good(N, S, B)
  BY DEF IInv
<1>2. CASE \E o \in Obj : Construct(o) \/ Destruct(o) \/ sync(o)
  <2>1. PICK o \in Obj : Construct(o) \/ Destruct(o) \/ sync(o)
    BY <1>2
  <2>2. CASE Construct(o)
    BY <1>1, <2>2, ConstructionKeeps
  <2>3. CASE Destruct(o) \/ sync(o)
    <3>1. Good(N, S, B)' \/ Good(N, S, N)'
      BY <1>1, <2>3, DestructKeeps, SyncKeeps
    <3>. QED  BY <3>1 DEF IInv
  <2>. QED  BY <2>1, <2>2, <2>3
<1>3. CASE \E o, src \in Obj : CopyConstruct(o, src) \/ CopyAssign(o, src) \/ MoveConstruct(o, src) \/ MoveAssign(o, src)
  <2>1. PICK o \in Obj, src \in Obj : CopyConstruct(o, src) \/ CopyAssign(o, src) \/ MoveConstruct(o, src) \/ MoveAssign(o, src)
    BY <1>3
  <2>2. CASE CopyConstruct(o, src) \/ CopyAssign(o, src)
    <3>1. \E p \in Obj : CopyConstruct(o, p) \/ CopyAssign(o, p)
      BY <2>2
    <3>. QED  BY <1>1, <3>1, ConstructionKeeps
  <2>3. CASE MoveConstruct(o, src) \/ MoveAssign(o, src)
    <3>1. Good(N, S, B)'
      BY <1>1, <2>3, MoveKeeps
    <3>. QED  BY <3>1 DEF IInv
  <2>. QED  BY <2>1, <2>2, <2>3
<1>4. CASE Visit("map", save_node_into_map(NameGiven, Visited)) /\ UNCHANGED mapVars
  <2>1. obj \in [Obj -> Members] /\ obj' = obj /\ building' = building
    BY <1>1, <1>4 DEF Good, Types, Members, mapVars
  <2>2. Alike
    BY <2>1 DEF Alike
  <2>3. PICK B2 : B2 = B \ {Visited}
    OBVIOUS
  <2>4. Good(N, S, B2)'
    BY <1>1, <1>4, <2>2, <2>3, MapKeeps
  <2>5. B2 \in SUBSET Nat
    BY <2>3
  <2>. QED  BY <2>4, <2>5 DEF IInv
<1>5. CASE Filled
  <2>1. Good(N, S, B)'
    BY <1>1, <1>5, FilledKeeps
  <2>. QED  BY <2>1 DEF IInv
<1>. QED  BY <1>2, <1>3, <1>4, <1>5 DEF MapStep

\* A step that changes nothing keeps it.
LEMMA StutterKeeps ==
  ASSUME NEW N \in SUBSET Nat, NEW S \in SUBSET Nat, NEW B \in SUBSET Nat, Good(N, S, B), UNCHANGED <<vars, mapVars>>
  PROVE  Good(N, S, B)'
<1>1. Good(N, S, B)
  OBVIOUS
<1>2. UNCHANGED <<mem, brk, doc, pc, parse, walk, buf, err, s_newline, s_indent_spaces, text, lost, obj, building>>
  BY DEF vars, mapVars, heap, settings
<1>3. Types' /\ RootsApart' /\ Objects' /\ Roots' = Roots
  <2>1. \A o \in Obj : Owned(o)' = Owned(o)
    BY <1>2 DEF Owned
  <2>2. Held' = Held
    BY <2>1 DEF Held
  <2>3. Roots' = Roots
    BY <1>2, <2>2 DEF Roots
  <2>. QED  BY <1>1, <1>2, <2>1, <2>3 DEF Good, Types, RootsApart, Objects
<1>4. Phases(N)' /\ Document(N, S)' /\ Walking(N, S, B)' /\ Parsing(N, S)'
  BY <1>1, <1>2 DEF Good, Phases, Document, Walking, Parsing, Idle
<1>5. Buffered(N)'
  <2>1. Buffered(N)
    BY <1>1 DEF Good
  <2>. QED  BY <1>2, <2>1 DEF Buffered, Filling, Overrun, Line
<1>6. Sound(mem', brk', N, S, Roots')
  BY <1>1, <1>2, <1>3 DEF Good
<1>7. Good(N, S, B)'
  BY <1>3, <1>4, <1>5, <1>6 DEF Good
<1>. QED  BY <1>7

\* The inductive invariant holds: in every reachable state the heap is what the document,
\* the parser and the objects account for, and a traversal goes on with the first of the
\* nodes it has before it.
THEOREM Invariant == MapSpec => []IInv
<1>1. MapInit => IInv
  BY InitKeeps
<1>2. IInv /\ [ProgramStep \/ MapStep]_<<vars, mapVars>> => IInv'
  BY ProgramKeeps, ObjectsKeep, StutterKeeps DEF IInv
<1>. QED  BY <1>1, <1>2, PTL DEF MapSpec

-----------------------------------------------------------------------------
\* What follows.

\* While the lists are whole, the nodes of the document are the nodes in the heap.
LEMMA WholeNodes ==
  ASSUME NEW N \in SUBSET Nat, NEW S \in SUBSET Nat, NEW B \in SUBSET Nat, Good(N, S, B), Whole
  PROVE  Ordered(Nodes, N) /\ Ordered(Sections, S) /\ Range(Nodes) = N
<1>1. Sound(mem, brk, N, S, Roots) /\ Document(N, S)
  BY DEF Good
<1>2. Heads(mem, doc, N, S) /\ Subs(mem, N, S, NULL) /\ S \subseteq N /\ Links(mem, N, S) /\ NULL \notin N /\ Within(N, brk)
  <2>1. Body(mem, brk, N, S, Roots)
    BY <1>1 DEF Sound
  <2>2. NULL \notin N /\ N \subseteq DOMAIN mem
    BY <2>1, RootsAreApart
  <2>3. DOMAIN mem \subseteq 1..brk /\ brk \in Nat
    BY <2>1 DEF Body, Extent
  <2>4. Within(N, brk)
    BY <2>2, <2>3 DEF Within
  <2>. QED  BY <1>1, <2>1, <2>2, <2>4 DEF Document, Whole, Sound, Body, Sorts
<1>3. Ordered(Nodes, N) /\ Ordered(Sections, S)
  BY <1>2, NodesAre
<1>4. Range(Nodes) = N
  <2>1. ASSUME NEW s, Ordered(s, N) PROVE Range(s) = N
    <3>1. s \in Seq(N) /\ (\A x \in N : \E i \in 1..Len(s) : s[i] = x)
      BY <2>1 DEF Ordered
    <3>2. DOMAIN s = 1..Len(s) /\ \A i \in 1..Len(s) : s[i] \in N
      BY <3>1, ElementOfSeq, LenProperties
    <3>3. ASSUME NEW x \in Range(s) PROVE x \in N
      <4>1. PICK i \in DOMAIN s : x = s[i]
        BY DEF Range
      <4>. QED  BY <3>2, <4>1
    <3>4. ASSUME NEW x \in N PROVE x \in Range(s)
      <4>1. PICK i \in 1..Len(s) : s[i] = x
        BY <3>1
      <4>. QED  BY <3>2, <4>1 DEF Range
    <3>. QED  BY <3>3, <3>4
  <2>. QED  BY <1>3, <2>1
<1>. QED  BY <1>3, <1>4

\* There is one sequence without elements.
LEMMA EmptySeqOnly ==
  ASSUME NEW s \in Seq({})
  PROVE  s = <<>>
<1>1. Len(s) \in Nat /\ \A i \in 1..Len(s) : s[i] \in {}
  BY LenProperties, ElementOfSeq
<1>2. Len(s) = 0
  <2>1. 1 \in 1..Len(s) => FALSE
    BY <1>1
  <2>. QED  BY <1>1, <2>1
<1>. QED  BY <1>2, EmptySeq

\* NoDangling: what a traversal or the parser goes on with is in memory.
LEMMA LivePointers ==
  ASSUME IInv
  PROVE  NoDangling
<1>1. PICK N \in SUBSET Nat, S \in SUBSET Nat, B \in SUBSET Nat : Good(N, S, B)
  BY DEF IInv
<1>2. Sound(mem, brk, N, S, Roots) /\ Phases(N) /\ Walking(N, S, B) /\ Parsing(N, S)
  BY <1>1 DEF Good
<1>3. N \subseteq DOMAIN mem /\ Roots \subseteq DOMAIN mem /\ S \subseteq N /\ Sorts(mem, N, S) /\ \A a \in N : Shape(mem, a)
  <2>1. Body(mem, brk, N, S, Roots)
    BY <1>2 DEF Sound
  <2>2. Roots \subseteq DOMAIN mem /\ N \subseteq DOMAIN mem
    BY <2>1, RootsAreApart
  <2>. QED  BY <2>1, <2>2 DEF Body, Sorts
<1>4. doc # NULL => Live(doc)
  BY <1>3 DEF Roots, Live
<1>5. parse.buf # NULL => Live(parse.buf)
  BY <1>3 DEF Roots, Live
<1>6. ASSUME parse.section # NULL \/ parse.prev # NULL PROVE pc = "parsing" /\ Idle
  <2>1. pc = "parsing"
    BY <1>2, <1>6 DEF Phases
  <2>2. walk.job = "none"
    BY <1>2, <1>6, <2>1 DEF Phases
  <2>. QED  BY <2>1, <2>2 DEF Idle
<1>7. parse.section # NULL => Live(parse.section)
  BY <1>2, <1>3, <1>6 DEF Parsing, Latest, Live
<1>8. parse.prev # NULL => Live(parse.prev)
  BY <1>2, <1>3, <1>6 DEF Parsing, Latest, Trailing, Live
<1>9. ASSUME Idle PROVE \A a \in Pointers : Live(a)
  <2>1. walk.outer = NULL /\ walk.sec = NULL /\ walk.inner = NULL /\ walk.name = NULL
    BY <1>2, <1>9 DEF Walking, NoWalk
  <2>. QED  BY <1>4, <1>5, <1>7, <1>8, <2>1 DEF Pointers
<1>10. ASSUME ~Idle PROVE \A a \in Pointers : Live(a)
  <2>1. /\ B \subseteq N /\ walk.header \in {1, 2} /\ (walk.sec = NULL => walk.inner = NULL /\ walk.name = NULL)
        /\ walk.header = 1 => walk.sec = NULL /\ First(Leading(S, B), walk.outer)
        /\ walk.header = 2 => First(Leading(S, B), walk.inner) /\ First(S \cap B, walk.outer)
        /\ walk.sec # NULL => walk.sec \in S \ B /\ walk.name = Detail(mem, walk.sec).name
    BY <1>2, <1>10 DEF Walking
  <2>2. \A p : p # NULL /\ (First(Leading(S, B), p) \/ First(S \cap B, p)) => p \in N
    BY <2>1 DEF First, Leading
  <2>3. (walk.outer # NULL => Live(walk.outer)) /\ (walk.inner # NULL => Live(walk.inner))
    BY <1>3, <2>1, <2>2 DEF Live
  <2>4. walk.sec # NULL => Live(walk.sec) /\ Live(walk.name)
    <3>1. ASSUME walk.sec # NULL PROVE Live(walk.sec) /\ Live(walk.name)
      <4>1. Shape(mem, walk.sec) /\ Type(mem, walk.sec) = "section"
        BY <1>3, <2>1, <3>1 DEF Sorts
      <4>2. Detail(mem, walk.sec).name \in DOMAIN mem
        BY <4>1 DEF Shape
      <4>. QED  BY <1>3, <2>1, <3>1, <4>2 DEF Live
    <3>. QED  BY <3>1
  <2>5. walk.name # NULL => walk.sec # NULL
    BY <2>1
  <2>. QED  BY <1>4, <1>5, <1>7, <1>8, <2>3, <2>4, <2>5 DEF Pointers
<1>11. pc = "parsing" /\ Idle => parse.buf # NULL
  BY <1>2 DEF Phases
<1>12. ASSUME pc = "crashed" PROVE Nodes = <<>>
  <2>1. N = {} /\ Whole
    BY <1>2, <1>12 DEF Phases, Idle, Whole
  <2>2. Ordered(Nodes, N)
    BY <1>1, <2>1, WholeNodes
  <2>3. PICK s : s = Nodes
    OBVIOUS
  <2>4. s \in Seq({})
    BY <2>1, <2>2, <2>3 DEF Ordered
  <2>. QED  BY <2>3, <2>4, EmptySeqOnly
<1>. QED  BY <1>9, <1>10, <1>11, <1>12 DEF NoDangling

\* NothingLeft: every block has one owner.
LEMMA OwnersOnly ==
  ASSUME IInv
  PROVE  NothingLeft
<1>1. PICK N \in SUBSET Nat, S \in SUBSET Nat, B \in SUBSET Nat : Good(N, S, B)
  BY DEF IInv
<1>2. Sound(mem, brk, N, S, Roots) /\ Phases(N) /\ RootsApart
  BY <1>1 DEF Good
<1>3. DOMAIN mem = Roots \cup Covered(mem, N)
  BY <1>2 DEF Sound, Body, Extent
<1>4. Roots = ({doc} \ {NULL}) \cup ({parse.buf} \ {NULL}) \cup Held \cup lost
  <2>1. Roots = ({doc, parse.buf} \ {NULL}) \cup Held \cup lost
    BY DEF Roots
  <2>. QED  BY <2>1
<1>5. \A o, p \in Obj : o # p => Owned(o) \cap Owned(p) = {}
  BY <1>2 DEF RootsApart
<1>6. ASSUME Idle
      PROVE  (IF doc = NULL THEN {} ELSE InDocument(mem)) = ({doc} \ {NULL}) \cup Covered(mem, N)
  <2>1. CASE doc = NULL
    <3>1. N = {}
      BY <1>2, <2>1 DEF Phases
    <3>2. Covered(mem, N) = {}
      BY <3>1 DEF Covered
    <3>. QED  BY <2>1, <3>2
  <2>2. CASE doc # NULL
    <3>1. Range(Nodes) = N
      BY <1>1, <1>6, <2>2, WholeNodes DEF Whole, Idle
    <3>. QED  BY <2>2, <3>1 DEF InDocument, Covered
  <2>. QED  BY <2>1, <2>2
<1>7. ASSUME Idle
      PROVE  DOMAIN mem = (IF doc = NULL THEN {} ELSE InDocument(mem)) \cup ({parse.buf} \ {NULL})
                            \cup lost \cup UNION {Owned(o) : o \in Obj}
  <2>1. PICK D, C : D = (IF doc = NULL THEN {} ELSE InDocument(mem)) /\ C = Covered(mem, N)
    OBVIOUS
  <2>2. DOMAIN mem = Roots \cup C /\ D = ({doc} \ {NULL}) \cup C
    BY <1>3, <1>6, <1>7, <2>1
  <2>3. DOMAIN mem = D \cup ({parse.buf} \ {NULL}) \cup Held \cup lost
    BY ONLY <1>4, <2>2
  <2>4. PICK U : U = UNION {Owned(o) : o \in Obj}
    OBVIOUS
  <2>5. U = Held
    BY <2>4 DEF Held
  <2>6. DOMAIN mem = D \cup ({parse.buf} \ {NULL}) \cup lost \cup U
    BY <2>3, <2>5
  <2>7. D = IF doc = NULL THEN {} ELSE InDocument(mem)
    BY <2>1
  <2>. QED  BY ONLY <2>4, <2>6, <2>7
<1>. QED  BY <1>5, <1>7 DEF NothingLeft

\* LinesInOrder: the lists hold the lines in the order in which they were read.
LEMMA ListsInOrder ==
  ASSUME IInv
  PROVE  LinesInOrder
<1>1. PICK N \in SUBSET Nat, S \in SUBSET Nat, B \in SUBSET Nat : Good(N, S, B)
  BY DEF IInv
<1>2. ASSUME NEW s, Ordered(s, N), NEW i \in DOMAIN s, NEW j \in DOMAIN s, i < j PROVE s[i] < s[j]
  <2>1. DOMAIN s = 1..Len(s)
    BY <1>2, LenProperties DEF Ordered
  <2>. QED  BY <1>2, <2>1 DEF Ordered
<1>3. Whole => Ordered(Nodes, N)
  BY <1>1, WholeNodes
<1>. QED  BY <1>2, <1>3 DEF LinesInOrder

\* BufferHolds: only a line that is longer than the buffer was at first is written past its end.
LEMMA BufferLongEnough ==
  ASSUME IInv
  PROVE  BufferHolds
<1>1. PICK N \in SUBSET Nat, S \in SUBSET Nat, B \in SUBSET Nat : Good(N, S, B)
  BY DEF IInv
<1>2. SUFFICES ASSUME pc = "overrun"
               PROVE  \E a \in Range(Nodes) : Len(Line(Type(mem, a), Words(mem, a))) > buf.first
  BY DEF BufferHolds
<1>3. Phases(N) /\ Buffered(N)
  BY <1>1 DEF Good
<1>4. Whole
  BY <1>2, <1>3 DEF Phases, Whole
<1>5. Range(Nodes) = N
  BY <1>1, <1>4, WholeNodes
<1>. QED  BY <1>2, <1>3, <1>5 DEF Buffered, Overrun

\* NoDangling: what the parser or a traversal goes on with is in memory, though setters free
\* the strings that they replace and ini_destroy frees the nodes while it goes through them;
\* only where the line buffer was not allocated there is none, and no node either.
THEOREM NothingDangles == MapSpec => []NoDangling
<1>1. IInv => NoDangling
  BY LivePointers
<1>. QED  BY <1>1, Invariant, PTL

\* NothingLeft: every block that is allocated has an owner, which is the document, a node, the
\* parser or an object, whichever allocation has failed before, but for those in lost: what
\* an object had when another was moved onto it, and a document destroyed without a node.
\* A document with nodes is freed whole.
THEOREM EveryBlockOwned == MapSpec => []NothingLeft
<1>1. IInv => NothingLeft
  BY OwnersOnly
<1>. QED  BY <1>1, Invariant, PTL

\* LinesInOrder: the nodes of the document are in the order of its lines, in whichever way the
\* parser has linked them, and setters do not change that.
THEOREM InOrder == MapSpec => []LinesInOrder
<1>1. IInv => LinesInOrder
  BY ListsInOrder
<1>. QED  BY <1>1, Invariant, PTL

\* BufferHolds: a dump writes past the end of the buffer only for a line longer than
\* the whole buffer was at first, as it is doubled just once for a line.
THEOREM NoOverrunButLongLines == MapSpec => []BufferHolds
<1>1. IInv => BufferHolds
  BY BufferLongEnough
<1>. QED  BY <1>1, Invariant, PTL

-----------------------------------------------------------------------------
\* The maps.

\* The section that a node belongs to is the last before it.
Belongs(S, s, a) == s \in S /\ s < a /\ \A t \in S : t < a => t <= s

\* The items among V of the sections called w, and those of them that are the first with
\* their key.
Filed(m, S, V, w) == {a \in V : Type(m, a) = "item" /\ \E s \in S : Belongs(S, s, a) /\ Words(m, s)[1] = w}
Firsts(m, S, V, w) == {a \in Filed(m, S, V, w) : \A c \in Filed(m, S, V, w) : c < a => Words(m, c)[1] # Words(m, a)[1]}

\* The sections among V that are the first of their name.
Headings(m, S, V) == {s \in S \cap V : \A t \in S \cap V : t < s => Words(m, t)[1] # Words(m, s)[1]}

\* The map of the nodes V.
Pair(m, a) == <<Detail(m, a).key, Detail(m, a).val>>
Entry(m, S, V, s) == [sec |-> Detail(m, s).name, items |-> {Pair(m, a) : a \in Firsts(m, S, V, Words(m, s)[1])}]
MapOf(m, S, V) == {Entry(m, S, V, s) : s \in Headings(m, S, V)}

\* A map in step is that of all nodes, the map that is being filled that of the nodes visited.
Mirror(N, S, B) ==
  /\ \A o \in Obj : obj[o].synced =>
       /\ obj[o].alive /\ obj[o].err = "OK" /\ pc \in {"ready", "overrun"} /\ walk.job \notin {"edit", "destroy"}
       /\ (walk.job = "map" /\ building = o) \/ mem[obj[o].map] = MapOf(mem, S, N)
  /\ walk.job = "map" =>
       /\ mem[obj[building].map] = MapOf(mem, S, N \ B)
       /\ walk.header = 1 => S \subseteq B
       /\ walk.sec # NULL => Latest(S \ B, walk.sec)

MInv == \E N, S, B \in SUBSET Nat : Good(N, S, B) /\ Mirror(N, S, B)

\* The same nodes make the same map.
LEMMA MapOfSame ==
  ASSUME NEW m, NEW m2, NEW N, NEW S, Sorts(m, N, S), Same(m, m2, N), NEW V, V \subseteq N
  PROVE  MapOf(m2, S, V) = MapOf(m, S, V)
<1>1. /\ \A a \in V : Type(m2, a) = Type(m, a) /\ Words(m2, a) = Words(m, a)
      /\ \A s \in S : Type(m, s) = "section" /\ Words(m2, s) = Words(m, s) /\ Detail(m2, s) = Detail(m, s)
      /\ \A a \in V : Type(m, a) = "item" => Detail(m2, a) = Detail(m, a)
  BY DEF Sorts, Same
<1>2. ASSUME NEW w PROVE Filed(m2, S, V, w) = Filed(m, S, V, w)
  BY <1>1 DEF Filed
<1>3. ASSUME NEW w PROVE Firsts(m2, S, V, w) = Firsts(m, S, V, w)
  <2>1. Filed(m2, S, V, w) = Filed(m, S, V, w) /\ Filed(m, S, V, w) \subseteq V
    BY <1>2 DEF Filed
  <2>. QED  BY <1>1, <2>1 DEF Firsts
<1>4. Headings(m2, S, V) = Headings(m, S, V) /\ Headings(m, S, V) \subseteq S
  BY <1>1 DEF Headings
<1>5. ASSUME NEW s \in S PROVE Entry(m2, S, V, s) = Entry(m, S, V, s)
  <2>1. PICK w : w = Words(m, s)[1]
    OBVIOUS
  <2>2. \A a \in Firsts(m, S, V, w) : Pair(m2, a) = Pair(m, a)
    BY <1>1 DEF Firsts, Filed, Pair
  <2>3. {Pair(m2, a) : a \in Firsts(m2, S, V, w)} = {Pair(m, a) : a \in Firsts(m, S, V, w)}
    BY <1>3, <2>2
  <2>. QED  BY <1>1, <2>1, <2>3 DEF Entry
<1>. QED  BY <1>4, <1>5 DEF MapOf

\* Of the sections with a name, one is the first.
LEMMA HeadingIs ==
  ASSUME NEW m, NEW S, NEW V \in SUBSET Nat, NEW s \in S \cap V
  PROVE  \E h \in Headings(m, S, V) : Words(m, h)[1] = Words(m, s)[1] /\ h <= s
<1>. DEFINE T == {t \in S \cap V : Words(m, t)[1] = Words(m, s)[1]}
<1>1. T \in SUBSET Nat /\ T # {} /\ s \in T
  OBVIOUS
<1>2. PICK h \in T : \A t \in T : h <= t
  BY <1>1, Least
<1>3. h \in Headings(m, S, V)
  <2>1. ASSUME NEW t \in S \cap V, t < h PROVE Words(m, t)[1] # Words(m, h)[1]
    <3>1. t \in Nat /\ h \in Nat
      OBVIOUS
    <3>2. ~(h <= t)
      BY <2>1, <3>1
    <3>. QED  BY <1>2, <3>2
  <2>. QED  BY <2>1 DEF Headings
<1>. QED  BY <1>1, <1>2, <1>3

\* And only one.
LEMMA OneHeading ==
  ASSUME NEW m, NEW S, NEW V \in SUBSET Nat, NEW h \in Headings(m, S, V), NEW g \in Headings(m, S, V),
         Words(m, h)[1] = Words(m, g)[1]
  PROVE  h = g
<1>1. h \in S \cap V /\ g \in S \cap V /\ h \in Nat /\ g \in Nat
  BY DEF Headings
<1>2. ~(h < g) /\ ~(g < h)
  BY <1>1 DEF Headings
<1>. QED  BY <1>1, <1>2

\* Of the items with a key in sections with a name, one is the first.
LEMMA FirstsAre ==
  ASSUME NEW m, NEW S, NEW V \in SUBSET Nat, NEW w, NEW a \in Filed(m, S, V, w)
  PROVE  \E c \in Firsts(m, S, V, w) : Words(m, c)[1] = Words(m, a)[1]
<1>. DEFINE T == {t \in Filed(m, S, V, w) : Words(m, t)[1] = Words(m, a)[1]}
<1>1. T \in SUBSET Nat /\ T # {}
  BY DEF Filed
<1>2. PICK c \in T : \A t \in T : c <= t
  BY <1>1, Least
<1>3. c \in Firsts(m, S, V, w)
  <2>1. ASSUME NEW t \in Filed(m, S, V, w), t < c PROVE Words(m, t)[1] # Words(m, c)[1]
    <3>1. t \in Nat /\ c \in Nat /\ ~(c <= t)
      BY <2>1 DEF Filed
    <3>. QED  BY <1>2, <3>1
  <2>. QED  BY <2>1 DEF Firsts
<1>. QED  BY <1>2, <1>3

\* A node belongs to one section.
LEMMA BelongsToOne ==
  ASSUME NEW S \in SUBSET Nat, NEW s, NEW t, NEW a, Belongs(S, s, a), Belongs(S, t, a)
  PROVE  s = t
<1>1. s \in Nat /\ t \in Nat /\ s <= t /\ t <= s
  BY DEF Belongs
<1>. QED  BY <1>1

\* V2 are the nodes V with v behind them.
Grown(V, v, V2) == V \in SUBSET Nat /\ v \in Nat /\ (\A c \in V : c < v) /\ V2 = V \cup {v}
\* Sections before a node of V are in V.
Closed(S, V) == \A s \in S, a \in V : s < a => s \in V
\* v is no item of a section called w.
Elsewhere(m, S, v, w) == Type(m, v) # "item" \/ ~\E s \in S : Belongs(S, s, v) /\ Words(m, s)[1] = w
\* A section of V has the name of v, an item of V the key of v.
NamedBefore(m, S, V, v) == \E t \in S \cap V : Words(m, t)[1] = Words(m, v)[1]
KeyedBefore(m, S, V, v, w) == \E c \in Filed(m, S, V, w) : Words(m, c)[1] = Words(m, v)[1]

\* A visit of a node that is no item adds no item.
LEMMA FiledSame ==
  ASSUME NEW m, NEW S, NEW V, NEW v, NEW V2, Grown(V, v, V2), NEW w, Elsewhere(m, S, v, w)
  PROVE  Filed(m, S, V2, w) = Filed(m, S, V, w) /\ Firsts(m, S, V2, w) = Firsts(m, S, V, w)
<1>1. Filed(m, S, V2, w) = Filed(m, S, V, w)
  BY DEF Grown, Filed, Elsewhere
<1>. QED  BY <1>1 DEF Firsts

\* A blank line or a comment changes nothing.
LEMMA MapKept ==
  ASSUME NEW m, NEW S, NEW V, NEW v, NEW V2, Grown(V, v, V2), v \notin S, Type(m, v) # "item"
  PROVE  MapOf(m, S, V2) = MapOf(m, S, V)
<1>1. S \cap V2 = S \cap V
  BY DEF Grown
<1>2. Headings(m, S, V2) = Headings(m, S, V)
  BY <1>1 DEF Headings
<1>3. \A s : Entry(m, S, V2, s) = Entry(m, S, V, s)
  BY FiledSame DEF Entry, Elsewhere
<1>. QED  BY <1>2, <1>3 DEF MapOf

\* A section is a new entry if no section before it has its name.
LEMMA MapWithSection ==
  ASSUME NEW m, NEW S \in SUBSET Nat, NEW V, NEW v \in S, NEW V2, Grown(V, v, V2), Type(m, v) # "item",
         Closed(S, V)
  PROVE  /\ NamedBefore(m, S, V, v) => MapOf(m, S, V2) = MapOf(m, S, V)
         /\ ~NamedBefore(m, S, V, v) =>
              MapOf(m, S, V2) = MapOf(m, S, V) \cup {[sec |-> Detail(m, v).name, items |-> {}]}
<1>1. S \cap V2 = (S \cap V) \cup {v} /\ \A t \in S \cap V : t < v /\ t \in Nat /\ v \in Nat /\ ~(v < t)
  BY DEF Grown
<1>2. \A s : Entry(m, S, V2, s) = Entry(m, S, V, s)
  BY FiledSame DEF Entry, Elsewhere
<1>3. ASSUME NEW t \in S \cap V, Words(m, t)[1] = Words(m, v)[1]
      PROVE  MapOf(m, S, V2) = MapOf(m, S, V)
  <2>1. Headings(m, S, V2) = Headings(m, S, V)
    BY <1>1, <1>3 DEF Headings
  <2>. QED  BY <1>2, <2>1 DEF MapOf
<1>4. ASSUME ~NamedBefore(m, S, V, v)
      PROVE  MapOf(m, S, V2) = MapOf(m, S, V) \cup {[sec |-> Detail(m, v).name, items |-> {}]}
  <2>1. Headings(m, S, V2) = Headings(m, S, V) \cup {v}
    <3>1. ~(v < v)
      BY DEF Grown
    <3>. QED  BY <1>1, <1>4, <3>1 DEF Headings, NamedBefore
  <2>2. PICK w : w = Words(m, v)[1]
    OBVIOUS
  <2>3. Filed(m, S, V, w) = {}
    <3>1. SUFFICES ASSUME NEW a \in Filed(m, S, V, w) PROVE FALSE
      OBVIOUS
    <3>2. PICK s \in S : Belongs(S, s, a) /\ Words(m, s)[1] = w
      BY DEF Filed
    <3>3. s \in S \cap V
      BY <3>2 DEF Belongs, Filed, Closed
    <3>. QED  BY <1>4, <2>2, <3>2, <3>3 DEF NamedBefore
  <2>4. Entry(m, S, V, v) = [sec |-> Detail(m, v).name, items |-> {}]
    <3>1. Firsts(m, S, V, w) = {}
      BY <2>3 DEF Firsts
    <3>2. {Pair(m, a) : a \in Firsts(m, S, V, w)} = {}
      BY <3>1
    <3>. QED  BY <2>2, <3>2 DEF Entry
  <2>. QED  BY <1>2, <2>1, <2>4 DEF MapOf
<1>. QED  BY <1>3, <1>4 DEF NamedBefore

\* An item is a new pair of the entry of its section's name, if no item there has its key.
LEMMA MapWithItem ==
  ASSUME NEW m, NEW S \in SUBSET Nat, NEW V, NEW v, NEW V2, Grown(V, v, V2), v \notin S, Type(m, v) = "item",
         NEW sec, Belongs(S, sec, v), NEW w, w = Words(m, sec)[1]
  PROVE  /\ Headings(m, S, V2) = Headings(m, S, V)
         /\ \A h : Words(m, h)[1] # w => Entry(m, S, V2, h) = Entry(m, S, V, h)
         /\ KeyedBefore(m, S, V, v, w) => MapOf(m, S, V2) = MapOf(m, S, V)
         /\ ~KeyedBefore(m, S, V, v, w) =>
              Firsts(m, S, V2, w) = Firsts(m, S, V, w) \cup {v}
<1>8. Grown(V, v, V2)
  OBVIOUS
<1>1. S \cap V2 = S \cap V
  BY DEF Grown
<1>2. Headings(m, S, V2) = Headings(m, S, V)
  BY <1>1 DEF Headings
<1>3. ASSUME NEW h, Words(m, h)[1] # w PROVE Entry(m, S, V2, h) = Entry(m, S, V, h)
  <2>1. PICK x : x = Words(m, h)[1]
    OBVIOUS
  <2>2. ~\E s \in S : Belongs(S, s, v) /\ Words(m, s)[1] = x
    BY <1>3, <2>1, BelongsToOne
  <2>3. Elsewhere(m, S, v, x)
    BY <2>2 DEF Elsewhere
  <2>4. Firsts(m, S, V2, x) = Firsts(m, S, V, x)
    BY ONLY <1>8, <2>3, FiledSame
  <2>. QED  BY <2>1, <2>4 DEF Entry
<1>4. Filed(m, S, V2, w) = Filed(m, S, V, w) \cup {v} /\ \A c \in Filed(m, S, V, w) : c < v /\ ~(v < c)
  BY DEF Filed, Grown, Belongs
<1>5. ~(v < v)
  BY DEF Grown
<1>6. ASSUME NEW c \in Filed(m, S, V, w), Words(m, c)[1] = Words(m, v)[1]
      PROVE  MapOf(m, S, V2) = MapOf(m, S, V)
  <2>1. Firsts(m, S, V2, w) = Firsts(m, S, V, w)
    BY <1>4, <1>6 DEF Firsts
  <2>2. \A h : Entry(m, S, V2, h) = Entry(m, S, V, h)
    <3>1. ASSUME NEW h, Words(m, h)[1] = w PROVE Entry(m, S, V2, h) = Entry(m, S, V, h)
      BY <2>1, <3>1 DEF Entry
    <3>. QED  BY <1>3, <3>1
  <2>. QED  BY <1>2, <2>2 DEF MapOf
<1>7. ASSUME ~KeyedBefore(m, S, V, v, w)
      PROVE  Firsts(m, S, V2, w) = Firsts(m, S, V, w) \cup {v}
  BY <1>4, <1>5, <1>7 DEF Firsts, KeyedBefore
<1>. QED  BY <1>2, <1>3, <1>6, <1>7 DEF KeyedBefore

\* The name that a callback is given for v, which is in the section sec.
Called(m, S, sec, v, name) ==
  /\ v \in S => name = Detail(m, v).name
  /\ Type(m, v) = "item" => Belongs(S, sec, v) /\ name = Detail(m, sec).name

\* The map that is filled is that of the nodes V, and the node v, which makes V2 of them,
\* comes next.
Fillable(N, S, V, v, V2, sec, name) ==
  /\ N \in SUBSET Nat /\ S \in SUBSET Nat /\ S \subseteq N /\ (\A a \in N : Shape(mem, a)) /\ Sorts(mem, N, S)
  /\ v \in N /\ Grown(V, v, V2) /\ V \subseteq N /\ Closed(S, V) /\ Called(mem, S, sec, v, name)
  /\ obj[building].map \in DOMAIN mem /\ mem[obj[building].map] = MapOf(mem, S, V)

\* save_node_into_map() makes the map of the nodes V that of V and the node v.
LEMMA Saved ==
  ASSUME NEW N, NEW S, NEW V, NEW v, NEW V2, NEW sec, NEW name, Fillable(N, S, V, v, V2, sec, name),
         NEW r \in save_node_into_map(name, v)
  PROVE  r.mem[obj[building].map] = MapOf(mem, S, V2)
<1>1. /\ N \in SUBSET Nat /\ S \in SUBSET Nat /\ S \subseteq N /\ (\A a \in N : Shape(mem, a)) /\ Sorts(mem, N, S)
      /\ v \in N /\ Grown(V, v, V2) /\ V \subseteq N /\ Closed(S, V) /\ Called(mem, S, sec, v, name)
      /\ obj[building].map \in DOMAIN mem /\ mem[obj[building].map] = MapOf(mem, S, V)
  BY DEF Fillable
<1>2. PICK map : map = mem[obj[building].map]
  OBVIOUS
<1>. USE <1>1, <1>2
<1>. DEFINE address == obj[building].map
            mine == {e \in map : mem[e.sec] = mem[name]}
            item == <<Detail(mem, v).key, Detail(mem, v).val>>
<1>3. \A s \in S : Type(mem, s) = "section" /\ Words(mem, s)[1] = mem[Detail(mem, s).name]
  BY DEF Sorts, Words
<1>4. \A e \in map : \E h \in Headings(mem, S, V) : e = Entry(mem, S, V, h) /\ e.sec = Detail(mem, h).name /\ h \in S \cap V
  BY DEF MapOf, Entry, Headings
<1>5. CASE Type(mem, v) \notin {"section", "item"}
  <2>1. r = Now
    BY <1>5 DEF save_node_into_map
  <2>2. v \notin S /\ Type(mem, v) # "item"
    BY <1>3, <1>5
  <2>3. r.mem[address] = map
    BY <2>1 DEF Now
  <2>. QED  BY <2>2, <2>3, MapKept
<1>6. CASE Type(mem, v) = "section"
  <2>1. v \in S
    BY <1>6 DEF Sorts
  <2>2. mem[name] = Words(mem, v)[1] /\ name = Detail(mem, v).name /\ Type(mem, v) # "item"
    BY <1>3, <1>6, <2>1 DEF Called
  <2>4. CASE NamedBefore(mem, S, V, v)
    <3>1. PICK h \in Headings(mem, S, V) : Words(mem, h)[1] = Words(mem, v)[1]
      BY <2>4, HeadingIs DEF Grown, NamedBefore
    <3>2. h \in S /\ Entry(mem, S, V, h) \in map /\ Entry(mem, S, V, h).sec = Detail(mem, h).name
      BY <3>1 DEF Headings, MapOf, Entry
    <3>3. Entry(mem, S, V, h) \in mine
      BY <1>3, <2>2, <3>1, <3>2
    <3>4. r = Now
      BY <1>6, <3>3 DEF save_node_into_map
    <3>5. r.mem[address] = map
      BY <3>4 DEF Now
    <3>6. MapOf(mem, S, V2) = MapOf(mem, S, V)
      BY <2>1, <2>2, <2>4, MapWithSection
    <3>. QED  BY <3>5, <3>6
  <2>5. CASE ~NamedBefore(mem, S, V, v)
    <3>1. mine = {}
      BY <1>3, <1>4, <2>2, <2>5 DEF NamedBefore
    <3>2. r = [Now EXCEPT !.mem = [@ EXCEPT ![address] = map \cup {[sec |-> name, items |-> {}]}]]
      BY <1>6, <3>1 DEF save_node_into_map
    <3>3. r.mem[address] = map \cup {[sec |-> name, items |-> {}]}
      <4>1. PICK x : x = map \cup {[sec |-> name, items |-> {}]}
        OBVIOUS
      <4>2. r = [Now EXCEPT !.mem = [@ EXCEPT ![address] = x]]
        BY <3>2, <4>1
      <4>. HIDE DEF address
      <4>3. r.mem = [mem EXCEPT ![address] = x]
        BY <4>2 DEF Now
      <4>4. address \in DOMAIN mem
        BY DEF address
      <4>. QED  BY <4>1, <4>3, <4>4
    <3>4. MapOf(mem, S, V2) = MapOf(mem, S, V) \cup {[sec |-> Detail(mem, v).name, items |-> {}]}
      <4>1. S \in SUBSET Nat /\ Grown(V, v, V2) /\ Closed(S, V)
        OBVIOUS
      <4>. QED  BY ONLY <2>1, <2>2, <2>5, <4>1, MapWithSection
    <3>. QED  BY <2>2, <3>3, <3>4
  <2>. QED  BY <2>4, <2>5
<1>7. CASE Type(mem, v) = "item"
  <2>1. v \notin S /\ Belongs(S, sec, v) /\ sec \in S /\ name = Detail(mem, sec).name
    BY <1>3, <1>7 DEF Belongs, Called
  <2>2. PICK w : w = Words(mem, sec)[1]
    OBVIOUS
  <2>3. w = mem[name] /\ mem[item[1]] = Words(mem, v)[1] /\ item = Pair(mem, v)
    BY <1>3, <1>7, <2>1, <2>2 DEF Words, Pair
  <2>4. /\ Headings(mem, S, V2) = Headings(mem, S, V)
        /\ \A h : Words(mem, h)[1] # w => Entry(mem, S, V2, h) = Entry(mem, S, V, h)
        /\ KeyedBefore(mem, S, V, v, w) => MapOf(mem, S, V2) = MapOf(mem, S, V)
        /\ ~KeyedBefore(mem, S, V, v, w) => Firsts(mem, S, V2, w) = Firsts(mem, S, V, w) \cup {v}
    <3>1. S \in SUBSET Nat /\ Grown(V, v, V2)
      OBVIOUS
    <3>. QED  BY ONLY <1>7, <2>1, <2>2, <3>1, MapWithItem
  <2>5. \A h \in Headings(mem, S, V) : Entry(mem, S, V, h) \in map /\ mem[Entry(mem, S, V, h).sec] = Words(mem, h)[1]
    BY <1>3 DEF MapOf, Entry, Headings
  <2>6. \A e \in map : \E h \in Headings(mem, S, V) : e = Entry(mem, S, V, h)
    BY <1>4
  <2>7. \A c \in V : Type(mem, c) = "item" => mem[Pair(mem, c)[1]] = Words(mem, c)[1]
    BY DEF Words, Pair
  <2>8. \A e \in map : e \in mine <=> mem[e.sec] = w
    BY <2>3
  <2>9. \A h \in Headings(mem, S, V) : \A c : Words(mem, h)[1] = w /\ c \in Firsts(mem, S, V, w) =>
           Pair(mem, c) \in Entry(mem, S, V, h).items
    BY DEF Entry
  <2>. HIDE DEF mine, item
  <2>10. ASSUME ~IsNew(mine, item[1]) PROVE KeyedBefore(mem, S, V, v, w)
    <3>1. PICK e \in mine : \E i \in e.items : mem[i[1]] = mem[item[1]]
      BY <2>10 DEF IsNew
    <3>2. PICK i \in e.items : mem[i[1]] = mem[item[1]]
      BY <3>1
    <3>3. e \in map
      BY DEF mine
    <3>4. PICK h \in Headings(mem, S, V) : e = Entry(mem, S, V, h)
      BY <2>6, <3>3
    <3>5. Words(mem, h)[1] = w
      BY <2>5, <2>8, <3>3, <3>4
    <3>6. PICK c \in Firsts(mem, S, V, w) : i = Pair(mem, c)
      BY <3>4, <3>5 DEF Entry
    <3>7. c \in Filed(mem, S, V, w) /\ c \in V /\ Type(mem, c) = "item"
      BY DEF Firsts, Filed
    <3>. QED  BY <2>3, <2>7, <3>2, <3>6, <3>7 DEF KeyedBefore
  <2>11. ASSUME KeyedBefore(mem, S, V, v, w) PROVE ~IsNew(mine, item[1])
    <3>1. PICK b \in Filed(mem, S, V, w) : Words(mem, b)[1] = Words(mem, v)[1]
      BY <2>11 DEF KeyedBefore
    <3>2. PICK c \in Firsts(mem, S, V, w) : Words(mem, c)[1] = Words(mem, v)[1]
      <4>1. V \in SUBSET Nat
        BY DEF Grown
      <4>. QED  BY <3>1, <4>1, FirstsAre
    <3>3. c \in V /\ Type(mem, c) = "item"
      BY DEF Firsts, Filed
    <3>4. PICK t \in S : Belongs(S, t, b) /\ Words(mem, t)[1] = w
      BY DEF Filed
    <3>5. t \in S \cap V
      BY <3>4 DEF Closed, Belongs, Filed
    <3>6. PICK h \in Headings(mem, S, V) : Words(mem, h)[1] = w
      BY <3>4, <3>5, HeadingIs DEF Grown
    <3>7. Entry(mem, S, V, h) \in mine
      BY <2>5, <2>8, <3>6
    <3>8. Pair(mem, c) \in Entry(mem, S, V, h).items /\ mem[Pair(mem, c)[1]] = mem[item[1]]
      BY <2>3, <2>7, <2>9, <3>2, <3>3, <3>6
    <3>. QED  BY <3>7, <3>8 DEF IsNew
  <2>12. CASE KeyedBefore(mem, S, V, v, w)
    <3>1. r = Now
      BY <1>7, <2>11, <2>12 DEF save_node_into_map, mine, item
    <3>2. r.mem[address] = map
      BY <3>1 DEF Now
    <3>. QED  BY <2>4, <2>12, <3>2
  <2>13. CASE ~KeyedBefore(mem, S, V, v, w)
    <3>1. PICK x : x = (map \ mine) \cup {[e EXCEPT !.items = @ \cup {item}] : e \in mine}
      OBVIOUS
    <3>2. r = [Now EXCEPT !.mem = [@ EXCEPT ![address] = x]]
      BY <1>7, <2>10, <2>13, <3>1 DEF save_node_into_map, mine, item
    <3>3. r.mem[address] = x
      <4>. HIDE DEF address
      <4>1. r.mem = [mem EXCEPT ![address] = x]
        BY <3>2 DEF Now
      <4>2. address \in DOMAIN mem
        BY DEF address
      <4>. QED  BY <4>1, <4>2
    <3>4. \A h \in Headings(mem, S, V) : Words(mem, h)[1] = w =>
             Entry(mem, S, V2, h) = [Entry(mem, S, V, h) EXCEPT !.items = @ \cup {item}]
      <4>1. {Pair(mem, c) : c \in Firsts(mem, S, V2, w)} = {Pair(mem, c) : c \in Firsts(mem, S, V, w)} \cup {item}
        <5>1. Firsts(mem, S, V2, w) = Firsts(mem, S, V, w) \cup {v}
          BY <2>4, <2>13
        <5>2. item = Pair(mem, v)
          BY <2>3
        <5>. QED  BY <5>1, <5>2
      <4>2. PICK old, new : old = {Pair(mem, c) : c \in Firsts(mem, S, V, w)} /\ new = {Pair(mem, c) : c \in Firsts(mem, S, V2, w)}
        OBVIOUS
      <4>3. new = old \cup {item}
        BY <4>1, <4>2
      <4>4. ASSUME NEW h \in Headings(mem, S, V), Words(mem, h)[1] = w
            PROVE  Entry(mem, S, V2, h) = [Entry(mem, S, V, h) EXCEPT !.items = @ \cup {item}]
        <5>1. PICK n, i : n = Detail(mem, h).name /\ i = item
          OBVIOUS
        <5>2. Entry(mem, S, V, h) = [sec |-> n, items |-> old]
          BY <4>2, <4>4, <5>1 DEF Entry
        <5>3. Entry(mem, S, V2, h) = [sec |-> n, items |-> new]
          BY <4>2, <4>4, <5>1 DEF Entry
        <5>4. new = old \cup {i}
          BY <4>3, <5>1
        <5>5. Entry(mem, S, V2, h) = [Entry(mem, S, V, h) EXCEPT !.items = @ \cup {i}]
          BY ONLY <5>2, <5>3, <5>4
        <5>. QED  BY <5>1, <5>5
      <4>. QED  BY <4>4
    <3>5. ASSUME NEW y \in x PROVE y \in MapOf(mem, S, V2)
      <4>1. CASE y \in map \ mine
        <5>1. PICK h \in Headings(mem, S, V) : y = Entry(mem, S, V, h)
          BY <2>6, <4>1
        <5>2. Words(mem, h)[1] # w
          BY <2>5, <2>8, <4>1, <5>1
        <5>. QED  BY <2>4, <5>1, <5>2 DEF MapOf
      <4>2. CASE \E e \in mine : y = [e EXCEPT !.items = @ \cup {item}]
        <5>1. PICK e \in mine : y = [e EXCEPT !.items = @ \cup {item}]
          BY <4>2
        <5>2. e \in map
          BY DEF mine
        <5>3. PICK h \in Headings(mem, S, V) : e = Entry(mem, S, V, h)
          BY <2>6, <5>2
        <5>4. Words(mem, h)[1] = w
          BY <2>5, <2>8, <5>2, <5>3
        <5>. QED  BY <2>4, <3>4, <5>1, <5>3, <5>4 DEF MapOf
      <4>. QED  BY <3>1, <4>1, <4>2
    <3>6. ASSUME NEW y \in MapOf(mem, S, V2) PROVE y \in x
      <4>1. PICK h \in Headings(mem, S, V) : y = Entry(mem, S, V2, h)
        BY <2>4 DEF MapOf
      <4>2. CASE Words(mem, h)[1] = w
        BY <2>5, <2>8, <3>1, <3>4, <4>1, <4>2
      <4>3. CASE Words(mem, h)[1] # w
        BY <2>4, <2>5, <2>8, <3>1, <4>1, <4>3
      <4>. QED  BY <4>2, <4>3
    <3>. QED  BY <3>3, <3>5, <3>6
  <2>. QED  BY <2>12, <2>13
<1>. QED  BY <1>5, <1>6, <1>7

\* Nobody's map is in step before a document is there, while one is edited and while it is destroyed.
LEMMA NoneSynced ==
  ASSUME NEW N, NEW S, NEW B, Mirror(N, S, B), pc \notin {"ready", "overrun"} \/ walk.job \in {"edit", "destroy"}
  PROVE  \A o \in Obj : ~obj[o].synced
BY DEF Mirror

\* The program puts no map in step: where it changes the document, all are out of step.
LEMMA ProgramSyncs ==
  ASSUME Types, ProgramStep
  PROVE  /\ building' = building /\ \A o \in Obj : obj'[o].synced => obj[o].synced
         /\ Ready /\ (mem' # mem \/ walk'.job \in {"edit", "destroy"}) => \A o \in Obj : ~obj'[o].synced
<1>1. obj \in [Obj -> Members] /\ building' = building
  BY DEF Types, ProgramStep, Members
<1>2. CASE obj' = [o \in Obj |-> [obj[o] EXCEPT !.synced = FALSE]]
  <2>1. ASSUME NEW o \in Obj PROVE ~obj'[o].synced
    <3>1. obj[o] \in Members /\ obj'[o] = [obj[o] EXCEPT !.synced = FALSE]
      BY <1>1, <1>2
    <3>. QED  BY <3>1 DEF Members
  <2>. QED  BY <1>1, <2>1
<1>3. CASE ~(Ready /\ (mem' # mem \/ walk'.job \in {"edit", "destroy"}))
  BY <1>1, <1>3 DEF ProgramStep
<1>. QED  BY <1>2, <1>3 DEF ProgramStep

\* Where no map is in step and none is filled, none can be wrong.
LEMMA QuietMirror ==
  ASSUME IInv', \A o \in Obj : ~obj'[o].synced, walk'.job # "map"
  PROVE  MInv'
<1>1. PICK N \in SUBSET Nat, S \in SUBSET Nat, B \in SUBSET Nat : Good(N, S, B)'
  BY DEF IInv
<1>2. Mirror(N, S, B)'
  BY DEF Mirror
<1>. QED  BY <1>1, <1>2 DEF MInv

\* What a change of the roots X leaves alone.
Beside(m, m2, X) == \A a \in DOMAIN m \ X : a \in DOMAIN m2 /\ m2[a] = m[a]

\* A map in step stays so while only blocks are written that are no nodes and not that map.
LEMMA MapStays ==
  ASSUME NEW N \in SUBSET Nat, NEW S \in SUBSET Nat, NEW B \in SUBSET Nat, Good(N, S, B), Mirror(N, S, B),
         NEW m2, NEW X \in SUBSET Roots, Beside(mem, m2, X),
         NEW o \in Obj, obj[o].synced, obj[o].map \notin X, ~(walk.job = "map" /\ building = o)
  PROVE  m2[obj[o].map] = MapOf(m2, S, N)
<1>1. Sound(mem, brk, N, S, Roots) /\ Objects /\ Sorts(mem, N, S) /\ Body(mem, brk, N, S, Roots)
  BY DEF Good, Sound, Body
<1>2. mem[obj[o].map] = MapOf(mem, S, N) /\ obj[o].err = "OK"
  BY DEF Mirror
<1>3. obj[o].map \in Roots
  <2>1. obj[o].map # NULL
    BY <1>1, <1>2 DEF Objects
  <2>2. obj[o].map \in Owned(o)
    BY <2>1 DEF Owned
  <2>. QED  BY <2>2 DEF Held, Roots
<1>4. Roots \cap Covered(mem, N) = {} /\ Covered(mem, N) \subseteq DOMAIN mem /\ Roots \subseteq DOMAIN mem
  BY <1>1, RootsAreApart
<1>5. \A x \in Covered(mem, N) : x \in DOMAIN m2 /\ m2[x] = mem[x]
  BY <1>4 DEF Beside
<1>6. Same(mem, m2, N)
  BY <1>1, <1>5, SameNodes
<1>7. MapOf(m2, S, N) = MapOf(mem, S, N)
  BY <1>1, <1>6, MapOfSame
<1>8. m2[obj[o].map] = mem[obj[o].map]
  BY <1>3, <1>4 DEF Beside
<1>. QED  BY <1>2, <1>7, <1>8

\* The map of no nodes is empty.
LEMMA MapOfNone ==
  ASSUME NEW m, NEW S, NEW V, V = {}
  PROVE  MapOf(m, S, V) = {}
BY DEF MapOf, Headings

\* A step that writes no block and fills no map.
LEMMA StillMirror ==
  ASSUME NEW N \in SUBSET Nat, NEW S \in SUBSET Nat, NEW B \in SUBSET Nat, Good(N, S, B), Mirror(N, S, B),
         NEW B2 \in SUBSET Nat, Good(N, S, B2)', mem' = mem, \A o \in Obj : obj'[o].synced => obj[o].synced,
         Alike, walk.job # "map", walk'.job \notin {"map", "edit", "destroy"}, pc' \in {pc, "overrun"}
  PROVE  MInv'
<1>1. PICK X : X = {}
  OBVIOUS
<1>2. X \in SUBSET Roots /\ Beside(mem, mem', X)
  BY <1>1 DEF Beside
<1>3. ASSUME NEW o \in Obj, obj'[o].synced
      PROVE  /\ obj'[o].alive /\ obj'[o].err = "OK" /\ pc' \in {"ready", "overrun"}
             /\ mem'[obj'[o].map] = MapOf(mem', S, N)
  <2>1. obj[o].synced /\ obj'[o].map = obj[o].map /\ obj'[o].alive = obj[o].alive /\ obj'[o].err = obj[o].err
    BY <1>3 DEF Alike
  <2>2. obj[o].alive /\ obj[o].err = "OK" /\ pc \in {"ready", "overrun"}
    BY <2>1 DEF Mirror
  <2>3. PICK m2 : m2 = mem'
    OBVIOUS
  <2>4. obj[o].synced /\ obj[o].map \notin X /\ ~(walk.job = "map" /\ building = o) /\ Beside(mem, m2, X)
    BY <1>1, <1>2, <2>1, <2>3
  <2>5. m2[obj[o].map] = MapOf(m2, S, N)
    BY <1>2, <2>4, MapStays
  <2>. QED  BY <2>1, <2>2, <2>3, <2>5
<1>4. Mirror(N, S, B2)'
  BY <1>3 DEF Mirror
<1>. QED  BY <1>4 DEF MInv

\* A visit does not change what its traversal is for, and not which of the two lists it is in.
LEMMA VisitJob ==
  ASSUME Types, NEW job, NEW results, CallBack(job, results)
  PROVE  /\ walk'.job \in {job, "none"} /\ pc' \in {pc, "overrun"}
         /\ walk'.job # "none" => walk'.header = walk.header
<1>1. walk \in WalkType /\ walk.job = job
  BY DEF Types, WalkType, CallBack
<1>2. PICK r \in results : /\ walk' = IF r.err # "OK" THEN NoWalk ELSE IF Inside THEN NextInner(r) ELSE NextOuter(r)
                           /\ pc' = IF r.err = "OVERRUN" THEN "overrun" ELSE pc
  BY DEF CallBack
<1>3. NextInner(r).job = job /\ NextInner(r).header = walk.header
  <2>1. PICK x, k : NextInner(r) = [walk EXCEPT !.inner = x, !.count = k]
    BY <1>1 DEF NextInner, WalkType
  <2>. QED  BY <1>1, <2>1 DEF WalkType
<1>4. NextOuter(r).job = job /\ NextOuter(r).header = walk.header
  <2>1. PICK x, k : [walk EXCEPT !.outer = mem[walk.outer].next, !.count = @ + 1] = [walk EXCEPT !.outer = x, !.count = k]
    BY <1>1 DEF WalkType
  <2>2. PICK next : next = [walk EXCEPT !.outer = x, !.count = k]
    OBVIOUS
  <2>3. next \in [job : {job}, header : {walk.header}, outer : {x}, sec : {walk.sec}, inner : {walk.inner}, name : {walk.name}, count : {k}]
    BY <1>1, <2>2 DEF WalkType
  <2>4. PICK a, c, d : NextOuter(r) = next \/ NextOuter(r) = [next EXCEPT !.sec = a, !.inner = c, !.name = d]
    BY <2>1, <2>2 DEF NextOuter
  <2>. QED  BY <2>3, <2>4
<1>5. NoWalk.job = "none"
  BY NothingTypes
<1>. QED  BY <1>2, <1>3, <1>4, <1>5

\* The traversal goes from one list to the next.
LEMMA MovesMirror ==
  ASSUME NEW N \in SUBSET Nat, NEW S \in SUBSET Nat, NEW B \in SUBSET Nat, Good(N, S, B), Mirror(N, S, B), ProgramStep,
         LeaveSection \/ NextHeader
  PROVE  MInv'
<1>1. Types /\ Alike /\ IInv' /\ Walking(N, S, B)
  <2>1. Types /\ Walking(N, S, B)
    BY DEF Good
  <2>2. IInv
    BY DEF IInv
  <2>. QED  BY <2>1, <2>2, ObjectsAlike, ProgramKeeps
<1>2. building' = building /\ \A o \in Obj : obj'[o].synced => obj[o].synced
  BY <1>1, ProgramSyncs
<1>3. walk \in WalkType /\ walk'.job = walk.job /\ pc' = pc
  BY <1>1 DEF Types, WalkType, LeaveSection, NextHeader
<1>4. CASE walk.job \in {"edit", "destroy"}
  <2>1. \A o \in Obj : ~obj'[o].synced
    BY <1>2, <1>4, NoneSynced
  <2>. QED  BY <1>1, <1>3, <1>4, <2>1, QuietMirror
<1>5. CASE walk.job \notin {"edit", "destroy"}
  <2>1. Good(N, S, B)' /\ mem' = mem
    BY <1>1, <1>5, LeaveSectionKeeps, NextHeaderKeeps DEF LeaveSection, NextHeader, heap
  <2>2. CASE walk.job # "map"
    BY <1>1, <1>2, <1>3, <1>5, <2>1, <2>2, StillMirror
  <2>3. CASE walk.job = "map"
    <3>1. /\ walk'.header = 2 /\ walk'.sec \in {NULL, walk.sec}
      <4>1. CASE NextHeader
        BY <1>3, <4>1 DEF NextHeader, WalkType
      <4>2. CASE LeaveSection
        <5>1. walk.sec # NULL
          BY <4>2 DEF LeaveSection
        <5>2. walk.header = 2
          BY <1>1, <1>3, <2>3, <5>1 DEF Walking, Idle
        <5>. QED  BY <1>3, <4>2, <5>2 DEF LeaveSection, WalkType
      <4>. QED  BY <4>1, <4>2
    <3>2. building \in Obj /\ obj'[building].map = obj[building].map
      <4>1. Objects
        BY DEF Good
      <4>2. building \in Obj
        BY <2>3, <4>1 DEF Objects
      <4>. QED  BY <1>1, <4>2 DEF Alike
    <3>3. mem'[obj'[building'].map] = MapOf(mem', S, N \ B)
      BY <1>2, <2>1, <2>3, <3>2 DEF Mirror
    <3>4. walk'.sec # NULL => Latest(S \ B, walk'.sec)
      BY <2>3, <3>1 DEF Mirror
    <3>5. ASSUME NEW o \in Obj, obj'[o].synced
          PROVE  /\ obj'[o].alive /\ obj'[o].err = "OK" /\ pc' \in {"ready", "overrun"}
                 /\ building' = o \/ mem'[obj'[o].map] = MapOf(mem', S, N)
      <4>1. obj[o].synced /\ obj'[o].map = obj[o].map /\ obj'[o].alive = obj[o].alive /\ obj'[o].err = obj[o].err
        BY <1>1, <1>2, <3>5 DEF Alike
      <4>. QED  BY <1>2, <1>3, <2>1, <4>1 DEF Mirror
    <3>6. Mirror(N, S, B)'
      BY <1>3, <1>5, <2>3, <3>1, <3>3, <3>4, <3>5 DEF Mirror
    <3>. QED  BY <2>1, <3>6 DEF MInv
  <2>. QED  BY <2>2, <2>3
<1>. QED  BY <1>4, <1>5

\* The program's steps.
LEMMA ProgramMirror ==
  ASSUME NEW N \in SUBSET Nat, NEW S \in SUBSET Nat, NEW B \in SUBSET Nat, Good(N, S, B), Mirror(N, S, B), ProgramStep
  PROVE  MInv'
<1>1. Types /\ Phases(N) /\ Alike /\ IInv'
  <2>1. Types /\ Phases(N)
    BY DEF Good
  <2>2. IInv
    BY DEF IInv
  <2>. QED  BY <2>1, <2>2, ObjectsAlike, ProgramKeeps
<1>2. /\ building' = building /\ \A o \in Obj : obj'[o].synced => obj[o].synced
      /\ Ready /\ (mem' # mem \/ walk'.job \in {"edit", "destroy"}) => \A o \in Obj : ~obj'[o].synced
  BY <1>1, ProgramSyncs
<1>3. pc \notin {"ready", "overrun"} \/ walk.job \in {"edit", "destroy"} => \A o \in Obj : ~obj'[o].synced
  BY <1>2, NoneSynced
<1>4. pc \in {"start", "idle"} => walk.job = "none"
  BY <1>1 DEF Phases, Idle
<1>5. CASE Configure \/ ParseBegins
  <2>1. pc \in {"start", "idle"} /\ walk' = walk
    BY <1>5 DEF Configure, ParseBegins
  <2>. QED  BY <1>1, <1>3, <1>4, <2>1, QuietMirror
<1>6. CASE ParseLine \/ ParseEnds
  <2>1. pc = "parsing" /\ Idle /\ (walk' = walk \/ Begin("destroy"))
    BY <1>6 DEF ParseLine, ParseEnds, ParseFails
  <2>2. Begin("destroy") => walk'.job # "map"
    BY DEF Begin, NoWalk
  <2>3. walk'.job # "map"
    BY <2>1, <2>2 DEF Idle
  <2>. QED  BY <1>1, <1>3, <2>1, <2>3, QuietMirror
<1>7. CASE ini_destroy \/ TestGettersAndSetters
  <2>1. Ready /\ (Begin("destroy") \/ Begin("edit"))
    BY <1>7 DEF ini_destroy, TestGettersAndSetters, Operate
  <2>2. walk'.job \in {"destroy", "edit"}
    BY <2>1 DEF Begin, NoWalk
  <2>3. \A o \in Obj : ~obj'[o].synced
    BY <1>2, <2>1, <2>2
  <2>. QED  BY <1>1, <2>2, <2>3, QuietMirror
<1>8. CASE Visit("destroy", __do_nothing_but_trigger_summary(NameGiven, Visited)) \/ Visit("edit", test_getters_and_setters(NameGiven, Visited))
  <2>1. walk.job \in {"destroy", "edit"}
    BY <1>8 DEF Visit, CallBack
  <2>2. walk'.job \in {"destroy", "edit", "none"}
    BY <1>1, <1>8, VisitJob DEF Visit
  <2>. QED  BY <1>1, <1>3, <2>1, <2>2, QuietMirror
<1>9. CASE EditEnds \/ DestroyEnds
  <2>1. walk.job \in {"destroy", "edit"} /\ walk' = NoWalk
    BY <1>9 DEF EditEnds, DestroyEnds, Traversed
  <2>2. walk'.job = "none"
    BY <2>1, NothingTypes
  <2>. QED  BY <1>1, <1>3, <2>1, <2>2, QuietMirror
<1>10. CASE ini_dump_to_stream \/ ini_dump_to_buffer
  <2>1. Ready /\ mem' = mem /\ pc' = pc /\ (Begin("stream") \/ Begin("buffer"))
    BY <1>10 DEF ini_dump_to_stream, ini_dump_to_buffer, Operate, heap
  <2>2. walk'.job \in {"stream", "buffer"} /\ walk.job = "none"
    BY <2>1 DEF Begin, NoWalk, Ready, Idle
  <2>3. Good(N, S, N)'
    BY <1>1, <1>10, DumpsBegin
  <2>. QED  BY <1>1, <1>2, <2>1, <2>2, <2>3, StillMirror
<1>11. CASE Set
  <2>1. Ready /\ pc' = pc /\ walk' = walk /\ walk.job = "none"
    BY <1>11 DEF Set, Operate, Ready, Idle
  <2>2. CASE mem' # mem
    BY <1>1, <1>2, <2>1, <2>2, QuietMirror
  <2>3. CASE mem' = mem
    <3>1. Good(N, S, B)'
      BY <1>1, <1>11, SetKeeps
    <3>. QED  BY <1>1, <1>2, <2>1, <2>3, <3>1, StillMirror
  <2>. QED  BY <2>2, <2>3
<1>12. CASE \/ Visit("stream", __dump_node_to_stream(NameGiven, Visited)) \/ WriteFails
            \/ Visit("buffer", __dump_node_to_buffer(NameGiven, Visited))
  <2>1. walk.job \in {"stream", "buffer"}
    BY <1>12 DEF Visit, WriteFails, CallBack
  <2>2. walk'.job \in {"stream", "buffer", "none"} /\ pc' \in {pc, "overrun"}
    BY <1>1, <1>12, VisitJob DEF Visit, WriteFails
  <2>3. PICK B2 \in SUBSET Nat : Good(N, S, B2)'
    BY <1>1, <1>12, StreamKeeps, BufferKeeps
  <2>4. mem' = mem
    BY <1>1, <1>12, StreamKeeps, BufferKeeps
  <2>. QED  BY <1>1, <1>2, <2>1, <2>2, <2>3, <2>4, StillMirror
<1>13. CASE DumpEnds
  <2>1. walk.job \in {"stream", "buffer"} /\ walk' = NoWalk /\ mem' = mem /\ pc' = pc
    BY <1>13 DEF DumpEnds, Traversed, heap
  <2>2. walk'.job = "none"
    BY <2>1, NothingTypes
  <2>3. Good(N, S, B)'
    BY <1>1, <1>13, EndsKeep
  <2>. QED  BY <1>1, <1>2, <2>1, <2>2, <2>3, StillMirror
<1>14. CASE LeaveSection \/ NextHeader
  BY <1>1, <1>2, <1>14, MovesMirror
<1>15. Next
  BY DEF ProgramStep
<1>. QED  BY <1>5, <1>6, <1>7, <1>8, <1>9, <1>10, <1>11, <1>12, <1>13, <1>14, <1>15 DEF Next

\* The maps of other objects stay while one object gives up what it owned.
LEMMA OthersStay ==
  ASSUME NEW N \in SUBSET Nat, NEW S \in SUBSET Nat, NEW B \in SUBSET Nat, Good(N, S, B), Mirror(N, S, B),
         NEW m2, NEW o \in Obj, Beside(mem, m2, Owned(o)), NEW p \in Obj, p # o, obj[p].synced,
         ~(walk.job = "map" /\ building = p)
  PROVE  m2[obj[p].map] = MapOf(m2, S, N) /\ obj[p].alive /\ obj[p].err = "OK" /\ pc \in {"ready", "overrun"}
<1>1. obj[p].alive /\ obj[p].err = "OK" /\ pc \in {"ready", "overrun"} /\ RootsApart /\ Objects
  BY DEF Mirror, Good
<1>2. PICK X : X = Owned(o)
  OBVIOUS
<1>3. X \in SUBSET Roots /\ Owned(p) \cap X = {}
  BY <1>1, <1>2, OwnersAre
<1>4. obj[p].map \in Owned(p)
  BY <1>1 DEF Objects, Owned
<1>5. obj[p].map \notin X /\ Beside(mem, m2, X)
  BY <1>2, <1>3, <1>4
<1>6. m2[obj[p].map] = MapOf(m2, S, N)
  BY <1>3, <1>5, MapStays
<1>. QED  BY <1>1, <1>6

\* An object without a map in step takes the place of o.
LEMMA ObjectMirror ==
  ASSUME NEW N \in SUBSET Nat, NEW S \in SUBSET Nat, NEW B \in SUBSET Nat, Good(N, S, B), Mirror(N, S, B),
         NEW o \in Obj, NEW x, ~x.synced, obj' = [obj EXCEPT ![o] = x], Beside(mem, mem', Owned(o)),
         Idle, pc' = pc, NEW B2 \in SUBSET Nat, Good(N, S, B2)',
         \/ walk'.job = "none"
         \/ walk'.job = "map" /\ building' = o /\ B2 = N /\ walk'.sec = NULL /\ mem'[x.map] = {}
  PROVE  MInv'
<1>1. walk.job = "none" /\ obj \in [Obj -> Members] /\ S \subseteq N
  BY DEF Idle, Good, Types, Members, Sound, Body, Sorts
<1>2. obj'[o] = x /\ \A p \in Obj \ {o} : obj'[p] = obj[p]
  BY <1>1
<1>3. PICK m2 : m2 = mem'
  OBVIOUS
<1>4. ASSUME NEW p \in Obj, obj'[p].synced
      PROVE  obj'[p].alive /\ obj'[p].err = "OK" /\ pc' \in {"ready", "overrun"} /\ mem'[obj'[p].map] = MapOf(mem', S, N)
  <2>1. p # o /\ obj'[p] = obj[p] /\ obj[p].synced
    BY <1>2, <1>4
  <2>2. m2[obj[p].map] = MapOf(m2, S, N) /\ obj[p].alive /\ obj[p].err = "OK" /\ pc \in {"ready", "overrun"}
    <3>1. Beside(mem, m2, Owned(o)) /\ p # o /\ obj[p].synced /\ ~(walk.job = "map" /\ building = p)
      BY <1>1, <1>3, <2>1
    <3>2. /\ N \in SUBSET Nat /\ S \in SUBSET Nat /\ B \in SUBSET Nat /\ Good(N, S, B) /\ Mirror(N, S, B)
          /\ o \in Obj /\ p \in Obj
      OBVIOUS
    <3>. QED  BY ONLY <3>1, <3>2, OthersStay
  <2>. QED  BY <1>3, <2>1, <2>2
<1>5. walk'.job \notin {"edit", "destroy"}
  OBVIOUS
<1>6. ASSUME walk'.job = "map"
      PROVE  /\ mem'[obj'[building'].map] = MapOf(mem', S, N \ B2)
             /\ S \subseteq B2 /\ walk'.sec = NULL
  <2>1. building' = o /\ B2 = N /\ walk'.sec = NULL /\ mem'[x.map] = {}
    BY <1>6
  <2>2. N \ B2 = {}
    BY <2>1
  <2>3. MapOf(m2, S, N \ B2) = {}
    BY <2>2, MapOfNone
  <2>. QED  BY <1>1, <1>2, <1>3, <2>1, <2>3
<1>7. Mirror(N, S, B2)'
  BY <1>4, <1>5, <1>6 DEF Mirror
<1>. QED  BY <1>7 DEF MInv

\* An object is constructed.
LEMMA ConstructMirror ==
  ASSUME NEW N \in SUBSET Nat, NEW S \in SUBSET Nat, NEW B \in SUBSET Nat, Good(N, S, B), Mirror(N, S, B), NEW o \in Obj,
         Construct(o) \/ \E src \in Obj : CopyConstruct(o, src) \/ CopyAssign(o, src)
  PROVE  MInv'
<1>1. Idle /\ pc \in {"idle", "ready"} /\ UNCHANGED <<fileRest, lost>>
  BY ConstructionIs
<1>2. PICK m, d, withPath : Constructs(o, m, d, withPath)
  BY ConstructionIs
<1>3. (d = NULL => Good(N, S, B)') /\ (d # NULL => Good(N, S, N)')
  BY <1>1, <1>2, ConstructKeeps DEF Constructs
<1>4. construct(o, m, d, withPath) /\ withPath \in BOOLEAN /\ Beside(mem, m, Owned(o)) /\ DOMAIN m \subseteq DOMAIN mem
  BY <1>2 DEF Constructs, Beside
<1>5. brk \in Nat /\ DOMAIN mem \subseteq 1..brk /\ walk.job = "none" /\ pc' = pc
  BY <1>1, AtRest DEF fileRest
<1>6. CASE d = NULL
  <2>1. PICK x : x = Reset
    OBVIOUS
  <2>2. obj' = [obj EXCEPT ![o] = x] /\ mem' = m /\ walk' = walk /\ ~x.synced
    BY <1>4, <1>6, <2>1 DEF construct, Reset
  <2>. QED  BY <1>1, <1>3, <1>4, <1>5, <1>6, <2>2, ObjectMirror
<1>7. CASE d # NULL
  <2>. DEFINE blocks == IF withPath THEN <<<<>>, {}>> ELSE <<{}>>
              map == brk + Len(blocks)
  <2>1. PICK x : x = [Reset EXCEPT !.doc = d, !.path = IF withPath THEN brk + 1 ELSE NULL, !.map = map]
    OBVIOUS
  <2>2. /\ obj' = [obj EXCEPT ![o] = x] /\ mem' = Allocated(m, brk, blocks) /\ building' = o /\ Begin("map")
    BY <1>4, <1>7, <2>1 DEF construct, Fills
  <2>3. Len(blocks) \in {1, 2} /\ blocks[Len(blocks)] = {}
    BY <1>4
  <2>. HIDE DEF blocks
  <2>4. ~x.synced /\ x.map = map
    BY <2>1 DEF Reset
  <2>5. /\ map \in brk + 1..brk + Len(blocks) /\ map \notin 1..brk /\ map - brk = Len(blocks)
    BY <1>5, <2>3
  <2>6. mem'[map] = {}
    <3>1. map \notin DOMAIN m
      BY <1>4, <1>5, <2>5
    <3>. QED  BY <2>2, <2>3, <2>5, <3>1 DEF Allocated
  <2>7. Beside(mem, mem', Owned(o))
    BY <1>4, <2>2 DEF Beside, Allocated
  <2>8. walk'.job = "map" /\ walk'.sec = NULL
    BY <2>2 DEF Begin, NoWalk
  <2>. HIDE DEF map
  <2>. QED  BY <1>1, <1>3, <1>5, <1>7, <2>2, <2>4, <2>6, <2>7, <2>8, ObjectMirror
<1>. QED  BY <1>6, <1>7

\* It is destroyed.
LEMMA DestructMirror ==
  ASSUME NEW N \in SUBSET Nat, NEW S \in SUBSET Nat, NEW B \in SUBSET Nat, Good(N, S, B), Mirror(N, S, B), NEW o \in Obj, Destruct(o)
  PROVE  MInv'
<1>1. Good(N, S, B)'
  BY DestructKeeps
<1>2. PICK x : x = Unborn
  OBVIOUS
<1>3. Idle /\ pc' = pc /\ walk' = walk /\ obj' = [obj EXCEPT ![o] = x] /\ mem' = Freed(mem, Owned(o)) /\ ~x.synced
  BY <1>2 DEF Destruct, Use, Between, fileRest, Unborn, Reset
<1>4. walk'.job = "none" /\ Beside(mem, mem', Owned(o))
  BY <1>3 DEF Idle, Freed, Beside
<1>. QED  BY <1>1, <1>3, <1>4, ObjectMirror

\* Its members are moved to another object, and its map is in step there.
LEMMA MoveMirror ==
  ASSUME NEW N \in SUBSET Nat, NEW S \in SUBSET Nat, NEW B \in SUBSET Nat, Good(N, S, B), Mirror(N, S, B), NEW o \in Obj, NEW src \in Obj,
         MoveConstruct(o, src) \/ MoveAssign(o, src)
  PROVE  MInv'
<1>1. Good(N, S, B)'
  BY MoveKeeps
<1>2. Idle /\ pc' = pc /\ walk' = walk /\ mem' = mem /\ obj' = Moved(o, src)
  BY DEF MoveConstruct, MoveAssign, Use, Between, fileRest, heap
<1>3. obj \in [Obj -> Members] /\ walk.job = "none"
  BY <1>2 DEF Good, Types, Members, Idle
<1>4. \A p \in Obj : obj'[p] = Reset \/ \E q \in Obj : obj'[p] = obj[q]
  BY <1>2, <1>3 DEF Moved
<1>5. ~Reset.synced
  BY DEF Reset
<1>6. ASSUME NEW p \in Obj, obj'[p].synced
      PROVE  obj'[p].alive /\ obj'[p].err = "OK" /\ pc' \in {"ready", "overrun"} /\ mem'[obj'[p].map] = MapOf(mem', S, N)
  <2>1. PICK q \in Obj : obj'[p] = obj[q]
    BY <1>4, <1>5, <1>6
  <2>. QED  BY <1>2, <1>3, <1>6, <2>1 DEF Mirror
<1>7. Mirror(N, S, B)'
  BY <1>2, <1>3, <1>6 DEF Mirror
<1>. QED  BY <1>1, <1>7 DEF MInv

\* A sync empties the map, which is in step with no node.
LEMMA SyncMirror ==
  ASSUME NEW N \in SUBSET Nat, NEW S \in SUBSET Nat, NEW B \in SUBSET Nat, Good(N, S, B), Mirror(N, S, B), NEW o \in Obj, sync(o)
  PROVE  MInv'
<1>1. Good(N, S, N)'
  BY SyncKeeps
<1>2. /\ Idle /\ pc \in {"idle", "ready"} /\ pc' = pc /\ obj' = obj /\ obj[o].alive /\ obj[o].err = "OK" /\ UsesLiveDoc(o)
      /\ mem' = [mem EXCEPT ![obj[o].map] = {}] /\ building' = o /\ Begin("map")
  BY DEF sync, Use, Between, fileRest, Fills
<1>3. /\ Objects /\ Roots \subseteq DOMAIN mem /\ (doc # NULL <=> pc = "ready") /\ walk.job = "none" /\ Sorts(mem, N, S)
  BY <1>2, AtRest
<1>4. obj[o].map # NULL /\ pc = "ready"
  BY <1>2, <1>3 DEF Objects, UsesLiveDoc
<1>5. obj[o].map \in Owned(o) /\ obj[o].map \in DOMAIN mem
  <2>1. obj[o].map \in Owned(o)
    BY <1>4 DEF Owned
  <2>. QED  BY <1>3, <2>1 DEF Held, Roots
<1>6. mem'[obj[o].map] = {} /\ Beside(mem, mem', Owned(o))
  BY <1>2, <1>5 DEF Beside
<1>7. walk'.job = "map" /\ walk'.sec = NULL
  BY <1>2 DEF Begin, NoWalk
<1>8. PICK m2, none : m2 = mem' /\ none = N \ N
  OBVIOUS
<1>9. ASSUME NEW p \in Obj, obj'[p].synced
      PROVE  obj'[p].alive /\ obj'[p].err = "OK" /\ (building' = p \/ mem'[obj'[p].map] = MapOf(mem', S, N))
  <2>1. CASE p = o
    BY <1>2, <2>1
  <2>2. CASE p # o
    <3>1. m2[obj[p].map] = MapOf(m2, S, N) /\ obj[p].alive /\ obj[p].err = "OK"
      <4>1. Beside(mem, m2, Owned(o)) /\ p # o /\ obj[p].synced /\ ~(walk.job = "map" /\ building = p)
        BY <1>2, <1>3, <1>6, <1>8, <1>9, <2>2
      <4>. QED  BY <4>1, OthersStay
    <3>. QED  BY <1>2, <1>8, <3>1
  <2>. QED  BY <2>1, <2>2
<1>10. mem'[obj'[building'].map] = MapOf(mem', S, N \ N)
  <2>1. none = {}
    BY <1>8
  <2>2. MapOf(m2, S, none) = {}
    BY <2>1, MapOfNone
  <2>. QED  BY <1>2, <1>6, <1>8, <2>2
<1>11. Mirror(N, S, N)'
  BY <1>2, <1>3, <1>4, <1>7, <1>9, <1>10 DEF Mirror, Sorts
<1>. QED  BY <1>1, <1>11 DEF MInv

\* The map that was filled is that of all nodes, as nothing is left to be visited.
LEMMA FilledMirror ==
  ASSUME NEW N \in SUBSET Nat, NEW S \in SUBSET Nat, NEW B \in SUBSET Nat, Good(N, S, B), Mirror(N, S, B), Filled
  PROVE  MInv'
<1>1. Good(N, S, B)'
  BY FilledKeeps
<1>2. /\ Traversed("map") /\ walk' = NoWalk /\ pc' = pc /\ mem' = mem
      /\ obj' = [obj EXCEPT ![building] = [@ EXCEPT !.err = "OK", !.synced = TRUE]]
  BY DEF Filled, fileRest, heap
<1>3. B = {} /\ walk.job = "map" /\ pc = "ready"
  BY <1>2, TraversedAll
<1>4. PICK o : o = building
  OBVIOUS
<1>5. o \in Obj /\ obj[o].alive /\ obj \in [Obj -> Members]
  BY <1>3, <1>4 DEF Good, Objects, Types, Members
<1>6. /\ obj'[o].alive /\ obj'[o].err = "OK" /\ obj'[o].map = obj[o].map
      /\ \A p \in Obj \ {o} : obj'[p] = obj[p]
  <2>1. obj' = [obj EXCEPT ![o] = [obj[o] EXCEPT !.err = "OK", !.synced = TRUE]]
    BY <1>2, <1>4, <1>5
  <2>2. PICK x : x = [obj[o] EXCEPT !.err = "OK", !.synced = TRUE]
    OBVIOUS
  <2>3. x.alive = obj[o].alive /\ x.err = "OK" /\ x.map = obj[o].map
    BY <1>5, <2>2 DEF Members
  <2>4. obj'[o] = x /\ \A p \in Obj \ {o} : obj'[p] = obj[p]
    BY <1>5, <2>1, <2>2
  <2>. QED  BY <1>5, <2>3, <2>4
<1>7. mem[obj[o].map] = MapOf(mem, S, N)
  <2>1. N \ B = N
    BY <1>3
  <2>. QED  BY <1>3, <1>4, <2>1 DEF Mirror
<1>8. walk'.job = "none"
  BY <1>2, NothingTypes
<1>9. ASSUME NEW p \in Obj, obj'[p].synced
      PROVE  obj'[p].alive /\ obj'[p].err = "OK" /\ mem'[obj'[p].map] = MapOf(mem', S, N)
  <2>1. CASE p = o
    BY <1>2, <1>6, <1>7, <2>1
  <2>2. CASE p # o
    BY <1>2, <1>4, <1>6, <1>9, <2>2 DEF Mirror
  <2>. QED  BY <2>1, <2>2
<1>10. Mirror(N, S, B)'
  BY <1>2, <1>3, <1>8, <1>9 DEF Mirror
<1>. QED  BY <1>1, <1>10 DEF MInv

\* The section that an item belongs to is the one the traversal is in.
LEMMA ItemsSection ==
  ASSUME NEW N \in SUBSET Nat, NEW S \in SUBSET Nat, NEW B \in SUBSET Nat, S \subseteq N, Walking(N, S, B), ~Idle,
         NoOrphans(mem, N, S), NEW v, Coming(N, S, B, v), Type(mem, v) = "item", v \notin S, v = Visited,
         walk.header = 1 => S \subseteq B, walk.sec # NULL => Latest(S \ B, walk.sec)
  PROVE  Belongs(S, walk.sec, v) /\ NameGiven = Detail(mem, walk.sec).name
<1>1. /\ v \in B /\ v \in N /\ v \in Nat /\ B \ {v} = Behind(N, v) /\ (Inside <=> walk.sec # NULL)
      /\ ~(~Inside /\ walk.header = 2)
  BY DEF Coming
<1>2. PICK s \in S : s < v
  BY <1>1 DEF NoOrphans
<1>3. \A t \in S : t < v => t \notin B
  <2>1. ASSUME NEW t \in S, t < v, t \in B PROVE FALSE
    <3>1. t \in Behind(N, v) /\ t \in Nat
      BY <1>1, <2>1
    <3>. QED  BY <1>1, <2>1, <3>1 DEF Behind
  <2>. QED  BY <2>1
<1>4. walk.header \in {1, 2}
  BY DEF Walking
<1>5. walk.header = 2 /\ Inside /\ walk.sec # NULL
  BY <1>1, <1>2, <1>3, <1>4
<1>6. walk.sec \in S \ B /\ (\A t \in S \ B : t <= walk.sec) /\ walk.name = Detail(mem, walk.sec).name
  BY <1>5 DEF Latest, Walking
<1>7. walk.sec < v
  <2>1. walk.sec \in Nat /\ walk.sec \in N /\ walk.sec # v /\ ~(walk.sec > v)
    BY <1>1, <1>6 DEF Behind
  <2>. QED  BY <1>1, <2>1
<1>8. Belongs(S, walk.sec, v)
  BY <1>3, <1>6, <1>7 DEF Belongs
<1>. QED  BY <1>5, <1>6, <1>8 DEF NameGiven

\* The nodes behind the traversal once it has visited v, with B2 before it.
Advanced(N, S, B, v, B2) ==
  /\ Grown(N \ B, v, N \ B2) /\ Closed(S, N \ B)
  /\ v \in S => Latest(S \ B2, v)
  /\ v \notin S => S \ B2 = S \ B

\* What is behind the traversal grows by the node that it visits.
LEMMA VisitGrows ==
  ASSUME NEW N \in SUBSET Nat, NEW S \in SUBSET Nat, NEW B \in SUBSET Nat, S \subseteq N, Walking(N, S, B), ~Idle,
         NEW v, Coming(N, S, B, v), NEW B2, B2 = B \ {v}
  PROVE  Advanced(N, S, B, v, B2)
<1>1. v \in B /\ v \in N /\ v \in Nat /\ B2 = Behind(N, v) /\ B \subseteq N /\ \A b \in B, c \in N : c > b => c \in B
  BY DEF Coming, Walking
<1>2. \A c \in N \ B : c < v
  <2>1. ASSUME NEW c \in N \ B PROVE c < v
    <3>1. c \in Nat /\ c # v /\ ~(c > v)
      BY <1>1
    <3>. QED  BY <1>1, <3>1
  <2>. QED  BY <2>1
<1>3. N \ B2 = (N \ B) \cup {v}
  BY <1>1
<1>4. Closed(S, N \ B)
  <2>1. ASSUME NEW s \in S, NEW a \in N \ B, s < a PROVE s \in N \ B
    <3>1. s \in B => a \in B
      <4>1. s \in Nat /\ a \in Nat /\ a > s
        BY <2>1
      <4>. QED  BY <1>1, <4>1
    <3>. QED  BY <3>1
  <2>. QED  BY <2>1 DEF Closed
<1>5. v \in S => Latest(S \ B2, v)
  <2>1. \A c \in S \ B2 : c = v \/ c < v
    BY <1>2
  <2>2. \A c \in S \ B2 : c <= v
    BY <1>1, <2>1
  <2>3. v # NULL
    BY DEF Coming
  <2>. QED  BY <1>1, <2>2, <2>3 DEF Latest
<1>. QED  BY <1>1, <1>2, <1>3, <1>4, <1>5 DEF Grown, Advanced

\* A visited node is saved into the map that is filled.
LEMMA SaveMirror ==
  ASSUME NEW N \in SUBSET Nat, NEW S \in SUBSET Nat, NEW B \in SUBSET Nat, Good(N, S, B), Mirror(N, S, B),
         Visit("map", save_node_into_map(NameGiven, Visited)), UNCHANGED mapVars
  PROVE  MInv'
<1>1. /\ Visiting /\ walk.job = "map" /\ doc # NULL /\ pc = "ready" /\ Coming(N, S, B, Visited) /\ Shape(mem, Visited)
      /\ (Visited \in S <=> Type(mem, Visited) = "section") /\ S \subseteq N /\ Sound(mem, brk, N, S, Roots)
      /\ (Type(mem, Visited) = "section" => NameGiven = Detail(mem, Visited).name)
  BY VisitIs DEF Visit
<1>2. /\ Types /\ Walking(N, S, B) /\ Document(N, S) /\ Objects /\ ~Idle /\ obj' = obj /\ building' = building
      /\ Sorts(mem, N, S) /\ Body(mem, brk, N, S, Roots) /\ (\A a \in N : Shape(mem, a))
  BY <1>1 DEF Good, Idle, mapVars, Sound, Body
<1>3. PICK v, B2, name : v = Visited /\ B2 = B \ {v} /\ name = NameGiven
  OBVIOUS
<1>4. Alike
  BY <1>2 DEF Alike, Types, Members
<1>5. Good(N, S, B2)' /\ SectionAfter(walk, walk', S, v)
  BY <1>3, <1>4, MapKeeps
<1>6. PICK r \in save_node_into_map(name, v) :
        /\ mem' = r.mem /\ walk' = IF r.err # "OK" THEN NoWalk ELSE IF Inside THEN NextInner(r) ELSE NextOuter(r)
        /\ pc' = IF r.err = "OVERRUN" THEN "overrun" ELSE pc
  BY <1>3 DEF Visit, CallBack
<1>. DEFINE address == obj[building].map
<1>7. r = Now \/ \E x : r = [Now EXCEPT !.mem = [@ EXCEPT ![address] = x]]
  BY <1>6 DEF save_node_into_map
<1>8. building \in Obj /\ address # NULL /\ address \in Owned(building) /\ address \in Roots
  <2>1. building \in Obj /\ address # NULL
    BY <1>1, <1>2 DEF Objects
  <2>2. address \in Owned(building)
    BY <2>1 DEF Owned
  <2>. QED  BY <2>1, <2>2 DEF Held, Roots
<1>9. r.err = "OK" /\ Beside(mem, mem', {address})
  <2>. HIDE DEF address
  <2>1. CASE r = Now
    BY <1>6, <2>1 DEF Now, Beside
  <2>2. CASE \E x : r = [Now EXCEPT !.mem = [@ EXCEPT ![address] = x]]
    <3>1. PICK x : r = [Now EXCEPT !.mem = [@ EXCEPT ![address] = x]]
      BY <2>2
    <3>2. r.err = "OK" /\ r.mem = [mem EXCEPT ![address] = x]
      BY <3>1 DEF Now
    <3>. QED  BY <1>6, <3>2 DEF Beside
  <2>. QED  BY <1>7, <2>1, <2>2
<1>10. walk'.job = "map" /\ walk'.header = walk.header /\ pc' = pc
  <2>1. walk'.job = "map"
    BY <1>3, <1>4, MapKeeps
  <2>2. walk'.job # "none" => walk'.header = walk.header
    BY <1>2, VisitJob DEF Visit
  <2>. QED  BY <1>6, <1>9, <2>1, <2>2
<1>11. /\ Grown(N \ B, v, N \ B2) /\ Closed(S, N \ B)
       /\ (v \in S => Latest(S \ B2, v)) /\ (v \notin S => S \ B2 = S \ B)
  <2>1. /\ N \in SUBSET Nat /\ S \in SUBSET Nat /\ B \in SUBSET Nat /\ S \subseteq N /\ Walking(N, S, B) /\ ~Idle
        /\ Coming(N, S, B, v) /\ B2 = B \ {v}
    BY <1>1, <1>2, <1>3
  <2>2. Advanced(N, S, B, v, B2)
    BY ONLY <2>1, VisitGrows
  <2>. QED  BY <2>2 DEF Advanced
<1>12. /\ mem[address] = MapOf(mem, S, N \ B) /\ (walk.header = 1 => S \subseteq B)
       /\ (walk.sec # NULL => Latest(S \ B, walk.sec))
  BY <1>1 DEF Mirror
<1>13. Type(mem, v) = "item" => Belongs(S, walk.sec, v) /\ name = Detail(mem, walk.sec).name
  <2>1. SUFFICES ASSUME Type(mem, v) = "item" PROVE Belongs(S, walk.sec, v) /\ name = Detail(mem, walk.sec).name
    OBVIOUS
  <2>2. NoOrphans(mem, N, S)
    BY <1>1, <1>2 DEF Document
  <2>3. v \notin S
    BY <1>1, <1>3, <2>1
  <2>. QED  BY <1>1, <1>2, <1>3, <1>12, <2>1, <2>2, <2>3, ItemsSection
<1>14. Roots \subseteq DOMAIN mem /\ Roots \cap Covered(mem, N) = {} /\ Covered(mem, N) \subseteq DOMAIN mem
  BY <1>2, RootsAreApart
<1>15. r.mem[address] = MapOf(mem, S, N \ B2)
  <2>1. PICK V, V2, sec : V = N \ B /\ V2 = N \ B2 /\ sec = walk.sec
    OBVIOUS
  <2>2. Grown(V, v, V2) /\ Closed(S, V) /\ V \subseteq N /\ mem[obj[building].map] = MapOf(mem, S, V)
    BY <1>11, <1>12, <2>1
  <2>3. v \in N /\ (v \in S => name = Detail(mem, v).name)
    BY <1>1, <1>3 DEF Coming
  <2>4. Called(mem, S, sec, v, name)
    BY <1>13, <2>1, <2>3 DEF Called
  <2>5. obj[building].map \in DOMAIN mem
    BY <1>8, <1>14
  <2>6. Fillable(N, S, V, v, V2, sec, name)
    BY <1>1, <1>2, <2>2, <2>3, <2>4, <2>5 DEF Fillable
  <2>7. r \in save_node_into_map(name, v)
    BY <1>6
  <2>8. r.mem[obj[building].map] = MapOf(mem, S, V2)
    BY ONLY <2>6, <2>7, Saved
  <2>. QED  BY <2>1, <2>8
<1>. HIDE DEF address
<1>16. PICK m2 : m2 = mem'
  OBVIOUS
<1>17. mem'[address] = MapOf(mem', S, N \ B2)
  <2>1. \A x \in Covered(mem, N) : x \in DOMAIN m2 /\ m2[x] = mem[x]
    BY <1>8, <1>9, <1>14, <1>16 DEF Beside
  <2>2. Same(mem, m2, N)
    BY <1>2, <2>1, SameNodes
  <2>3. PICK V : V = N \ B2
    OBVIOUS
  <2>4. MapOf(m2, S, V) = MapOf(mem, S, V)
    BY <1>2, <2>2, <2>3, MapOfSame
  <2>. QED  BY <1>6, <1>15, <1>16, <2>3, <2>4
<1>18. walk'.header = 1 => S \subseteq B2
  BY <1>1, <1>3, <1>10, <1>12 DEF Coming
<1>19. walk'.sec # NULL => Latest(S \ B2, walk'.sec)
  <2>1. CASE v \in S
    BY <1>5, <1>11, <2>1 DEF SectionAfter
  <2>2. CASE v \notin S
    BY <1>5, <1>11, <1>12, <2>2 DEF SectionAfter
  <2>. QED  BY <2>1, <2>2
<1>20. ASSUME NEW p \in Obj, obj[p].synced
       PROVE  /\ obj[p].alive /\ obj[p].err = "OK"
              /\ building = p \/ mem'[obj[p].map] = MapOf(mem', S, N)
  <2>1. obj[p].alive /\ obj[p].err = "OK"
    BY <1>20 DEF Mirror
  <2>2. CASE p # building
    <3>1. Beside(mem, m2, Owned(building))
      BY <1>8, <1>9, <1>16 DEF Beside
    <3>2. p # building /\ obj[p].synced /\ ~(walk.job = "map" /\ building = p) /\ building \in Obj /\ p \in Obj
      BY <1>8, <1>20, <2>2
    <3>3. /\ N \in SUBSET Nat /\ S \in SUBSET Nat /\ B \in SUBSET Nat /\ Good(N, S, B) /\ Mirror(N, S, B)
      OBVIOUS
    <3>4. m2[obj[p].map] = MapOf(m2, S, N)
      BY ONLY <3>1, <3>2, <3>3, OthersStay
    <3>. QED  BY <1>16, <2>1, <3>4
  <2>. QED  BY <2>1, <2>2
<1>21. B2 \in SUBSET Nat
  BY <1>3
<1>22. Mirror(N, S, B2)'
  BY <1>1, <1>2, <1>10, <1>17, <1>18, <1>19, <1>20 DEF Mirror, address
<1>. QED  BY <1>5, <1>21, <1>22 DEF MInv

\* At first no map is in step and none is filled.
LEMMA InitMirror ==
  ASSUME MapInit
  PROVE  MInv
<1>1. PICK N \in SUBSET Nat, S \in SUBSET Nat, B \in SUBSET Nat : Good(N, S, B)
  BY InitKeeps DEF IInv
<1>2. walk = NoWalk /\ obj = [o \in Obj |-> Unborn]
  BY DEF MapInit, Init
<1>3. walk.job = "none" /\ \A o \in Obj : ~obj[o].synced
  BY <1>2 DEF NoWalk, Unborn, Reset
<1>4. Mirror(N, S, B)
  BY <1>3 DEF Mirror
<1>. QED  BY <1>1, <1>4 DEF MInv

\* Each use of an object keeps the maps in step.
LEMMA ObjectsMirror ==
  ASSUME NEW N \in SUBSET Nat, NEW S \in SUBSET Nat, NEW B \in SUBSET Nat, Good(N, S, B), Mirror(N, S, B), MapStep
  PROVE  MInv'
<1>1. CASE \E o \in Obj : Construct(o) \/ Destruct(o) \/ sync(o)
  <2>1. PICK o \in Obj : Construct(o) \/ Destruct(o) \/ sync(o)
    BY <1>1
  <2>2. CASE Construct(o)
    BY <2>2, ConstructMirror
  <2>3. CASE Destruct(o)
    BY <2>3, DestructMirror
  <2>4. CASE sync(o)
    BY <2>4, SyncMirror
  <2>. QED  BY <2>1, <2>2, <2>3, <2>4
<1>2. CASE \E o, src \in Obj : CopyConstruct(o, src) \/ CopyAssign(o, src) \/ MoveConstruct(o, src) \/ MoveAssign(o, src)
  <2>1. PICK o \in Obj, src \in Obj : CopyConstruct(o, src) \/ CopyAssign(o, src) \/ MoveConstruct(o, src) \/ MoveAssign(o, src)
    BY <1>2
  <2>2. CASE CopyConstruct(o, src) \/ CopyAssign(o, src)
    <3>1. \E p \in Obj : CopyConstruct(o, p) \/ CopyAssign(o, p)
      BY <2>2
    <3>. QED  BY <3>1, ConstructMirror
  <2>3. CASE MoveConstruct(o, src) \/ MoveAssign(o, src)
    BY <2>3, MoveMirror
  <2>. QED  BY <2>1, <2>2, <2>3
<1>3. CASE Visit("map", save_node_into_map(NameGiven, Visited)) /\ UNCHANGED mapVars
  BY <1>3, SaveMirror
<1>4. CASE Filled
  BY <1>4, FilledMirror
<1>. QED  BY <1>1, <1>2, <1>3, <1>4 DEF MapStep

\* A step that changes nothing keeps them in step.
LEMMA StutterMirror ==
  ASSUME NEW N \in SUBSET Nat, NEW S \in SUBSET Nat, NEW B \in SUBSET Nat, Good(N, S, B), Mirror(N, S, B),
         UNCHANGED <<vars, mapVars>>
  PROVE  MInv'
<1>1. Good(N, S, B)'
  BY StutterKeeps
<1>2. UNCHANGED <<mem, pc, walk, obj, building>>
  BY DEF vars, mapVars, heap
<1>3. Mirror(N, S, B)'
  BY <1>2 DEF Mirror
<1>. QED  BY <1>1, <1>3 DEF MInv

\* The invariant with the maps is inductive.
LEMMA MirrorKept ==
  ASSUME MInv, [ProgramStep \/ MapStep]_<<vars, mapVars>>
  PROVE  MInv'
<1>1. PICK N \in SUBSET Nat, S \in SUBSET Nat, B \in SUBSET Nat : Good(N, S, B) /\ Mirror(N, S, B)
  BY DEF MInv
<1>2. CASE ProgramStep
  BY <1>1, <1>2, ProgramMirror
<1>3. CASE MapStep
  BY <1>1, <1>3, ObjectsMirror
<1>4. CASE UNCHANGED <<vars, mapVars>>
  BY <1>1, <1>4, StutterMirror
<1>. QED  BY <1>2, <1>3, <1>4

\* What a search goes through: the nodes of the document, in order, each item after a section.
Searched(N, S, nodes) ==
  /\ N \in SUBSET Nat /\ S \in SUBSET Nat /\ Sorts(mem, N, S) /\ NoOrphans(mem, N, S) /\ Ordered(nodes, N)
  /\ nodes = Nodes /\ \A a \in N : Shape(mem, a)

\* The places of the nodes in a search are in the order of the nodes.
LEMMA Places ==
  ASSUME NEW N, NEW S, NEW nodes, Searched(N, S, nodes)
  PROVE  /\ DOMAIN nodes = 1..Len(nodes) /\ \A i \in DOMAIN nodes : nodes[i] \in N /\ nodes[i] \in Nat /\ i \in Nat
         /\ \A a \in N : \E i \in DOMAIN nodes : nodes[i] = a
         /\ \A i, j \in DOMAIN nodes : nodes[i] < nodes[j] <=> i < j
<1>1. /\ nodes \in Seq(N) /\ Len(nodes) \in Nat /\ N \in SUBSET Nat
      /\ \A i, j \in 1..Len(nodes) : i < j => nodes[i] < nodes[j]
      /\ \A q \in N : \E i \in 1..Len(nodes) : nodes[i] = q
  BY DEF Searched, Ordered
<1>2. DOMAIN nodes = 1..Len(nodes)
  BY <1>1, LenProperties
<1>3. \A i \in DOMAIN nodes : nodes[i] \in N /\ nodes[i] \in Nat /\ i \in Nat
  <2>1. \A i \in 1..Len(nodes) : nodes[i] \in N
    <3>1. ASSUME NEW i \in 1..Len(nodes) PROVE nodes[i] \in N
      <4>1. nodes \in Seq(N)
        BY <1>1
      <4>. QED  BY ONLY <4>1, <3>1, i \in 1..Len(nodes), ElementOfSeq
    <3>. QED  BY <3>1
  <2>2. \A i \in 1..Len(nodes) : i \in Nat
    BY <1>1
  <2>3. \A a \in N : a \in Nat
    BY <1>1
  <2>. QED  BY <1>2, <2>1, <2>2, <2>3
<1>4. ASSUME NEW i \in DOMAIN nodes, NEW j \in DOMAIN nodes PROVE nodes[i] < nodes[j] <=> i < j
  <2>1. i \in Nat /\ j \in Nat /\ nodes[i] \in Nat /\ nodes[j] \in Nat
    BY <1>3
  <2>2. i < j => nodes[i] < nodes[j]
    BY <1>1, <1>2
  <2>3. j < i => nodes[j] < nodes[i]
    BY <1>1, <1>2
  <2>4. i = j => nodes[i] = nodes[j]
    OBVIOUS
  <2>. QED  BY <2>1, <2>2, <2>3, <2>4
<1>. QED  BY <1>1, <1>2, <1>3, <1>4

\* What the search takes for the section of an item is the section that it belongs to.
LEMMA UnderIs ==
  ASSUME NEW N, NEW S, NEW nodes, Searched(N, S, nodes), NEW i \in DOMAIN nodes, Type(mem, nodes[i]) = "item"
  PROVE  Belongs(S, Under(nodes, i), nodes[i])
<1>. DEFINE before == {j \in 1..i : Type(mem, nodes[j]) = "section"}
<1>1. /\ DOMAIN nodes = 1..Len(nodes) /\ \A j \in DOMAIN nodes : nodes[j] \in N /\ nodes[j] \in Nat /\ j \in Nat
      /\ \A a \in N : \E j \in DOMAIN nodes : nodes[j] = a
      /\ \A j, k \in DOMAIN nodes : nodes[j] < nodes[k] <=> j < k
  BY Places
<1>2. /\ S \subseteq N /\ (\A a \in N : a \in S <=> Type(mem, a) = "section")
      /\ (\A a \in N : Type(mem, a) = "item" => \E s \in S : s < a)
  BY DEF Searched, Sorts, NoOrphans
<1>3. \A j \in 1..i : j \in DOMAIN nodes
  BY <1>1
<1>4. ASSUME NEW s \in S, s < nodes[i] PROVE \E j \in before : nodes[j] = s
  <2>1. PICK j \in DOMAIN nodes : nodes[j] = s
    BY <1>1, <1>2
  <2>2. j < i
    BY <1>1, <1>4, <2>1
  <2>3. j \in 1..i
    BY <1>1, <2>2
  <2>. QED  BY <1>2, <2>1, <2>3
<1>5. before # {} /\ before \subseteq 1..i /\ i \in Nat
  BY <1>1, <1>2, <1>4
<1>6. PICK j \in before : j = Max(before) /\ \A k \in before : k <= j
  <2>1. PICK g \in before : \A k \in before : g >= k
    <3>1. before \in SUBSET Nat /\ (\A k \in before : k <= i /\ k \in Nat) /\ i \in Nat
      BY <1>5
    <3>2. PICK g \in before : \A k \in before : k <= g
      BY <1>5, <3>1, Greatest
    <3>3. \A k \in before : g >= k
      BY <3>1, <3>2
    <3>. QED  BY <3>3
  <2>2. Max(before) \in before /\ \A k \in before : Max(before) >= k
    BY <2>1 DEF Max
  <2>3. \A k \in before : k \in Nat
    BY <1>5
  <2>. QED  BY <2>2, <2>3
<1>7. j \in DOMAIN nodes /\ nodes[j] \in S /\ j < i
  <2>1. j \in DOMAIN nodes /\ Type(mem, nodes[j]) = "section" /\ j <= i /\ j \in Nat
    BY <1>1, <1>3
  <2>2. j # i
    BY <2>1
  <2>. QED  BY <1>1, <1>2, <1>5, <2>1, <2>2
<1>8. ASSUME NEW t \in S, t < nodes[i] PROVE t <= nodes[j]
  <2>1. PICK k \in before : nodes[k] = t
    BY <1>4, <1>8
  <2>2. k \in DOMAIN nodes /\ k <= j /\ k \in Nat /\ j \in Nat
    BY <1>1, <1>3, <1>6, <1>7
  <2>3. k = j \/ k < j
    BY <2>2
  <2>. QED  BY <1>1, <1>7, <2>1, <2>2, <2>3
<1>9. Under(nodes, i) = nodes[j]
  BY <1>6 DEF Under
<1>10. nodes[j] < nodes[i]
  BY <1>1, <1>7
<1>. QED  BY <1>7, <1>8, <1>9, <1>10 DEF Belongs

\* What a search finds for the item a in the sections called w.
Triple(a, w) == [section |-> w, key |-> Words(mem, a)[1], val |-> Words(mem, a)[2]]

\* What a search finds of the item at i.
LEMMA ItemIs ==
  ASSUME NEW N, NEW S, NEW nodes, Searched(N, S, nodes), NEW i \in DOMAIN nodes, Type(mem, nodes[i]) = "item"
  PROVE  \E w : /\ Item(nodes, i) = Triple(nodes[i], w) /\ nodes[i] \in Filed(mem, S, N, w)
                /\ \E s \in S : Words(mem, s)[1] = w
<1>1. Belongs(S, Under(nodes, i), nodes[i])
  BY UnderIs
<1>2. nodes[i] \in N
  BY Places
<1>3. PICK s, w : s = Under(nodes, i) /\ w = Words(mem, s)[1]
  OBVIOUS
<1>4. s \in S /\ nodes[i] \in Filed(mem, S, N, w)
  BY <1>1, <1>2, <1>3 DEF Belongs, Filed
<1>5. Item(nodes, i) = Triple(nodes[i], w)
  BY <1>3 DEF Item, Triple
<1>. QED  BY <1>3, <1>4, <1>5

\* An item is filed under one name only.
LEMMA FiledOnce ==
  ASSUME NEW N, NEW S \in SUBSET Nat, NEW a, NEW w, NEW x, a \in Filed(mem, S, N, w), a \in Filed(mem, S, N, x)
  PROVE  w = x
<1>1. PICK s \in S : Belongs(S, s, a) /\ Words(mem, s)[1] = w
  BY DEF Filed
<1>2. PICK t \in S : Belongs(S, t, a) /\ Words(mem, t)[1] = x
  BY DEF Filed
<1>3. s = t
  BY <1>1, <1>2, BelongsToOne
<1>. QED  BY <1>1, <1>2, <1>3

\* The names of the sections.
Names(S) == {Words(mem, s)[1] : s \in S}

\* A search finds the first item with its key in the sections with its name.
LEMMA FirstItemsAre ==
  ASSUME NEW N, NEW S, NEW nodes, Searched(N, S, nodes)
  PROVE  \A x : x \in FirstItems <=> \E w \in Names(S) : \E a \in Firsts(mem, S, N, w) : x = Triple(a, w)
<1>1. /\ \A j \in DOMAIN nodes : nodes[j] \in N
      /\ \A a \in N : \E j \in DOMAIN nodes : nodes[j] = a
      /\ \A j, k \in DOMAIN nodes : nodes[j] < nodes[k] <=> j < k
  BY Places
<1>2. PICK I : I = {i \in DOMAIN nodes : Type(mem, nodes[i]) = "item"}
  OBVIOUS
<1>3. PICK all : all = AllItems
  OBVIOUS
<1>4. all = [i \in I |-> Item(nodes, i)]
  BY <1>2, <1>3 DEF AllItems, Searched
<1>5. DOMAIN all = I /\ \A i \in I : all[i] = Item(nodes, i)
  BY <1>4
<1>6. FirstItems = {all[i] : i \in {i \in I : \A j \in I : j < i => all[j].section # all[i].section \/ all[j].key # all[i].key}}
  BY <1>3, <1>5 DEF FirstItems
<1>7. ASSUME NEW i \in I
      PROVE  \E w \in Names(S) : all[i] = Triple(nodes[i], w) /\ nodes[i] \in Filed(mem, S, N, w)
  <2>1. i \in DOMAIN nodes /\ Type(mem, nodes[i]) = "item"
    BY <1>2
  <2>2. PICK w : /\ Item(nodes, i) = Triple(nodes[i], w) /\ nodes[i] \in Filed(mem, S, N, w)
                 /\ \E s \in S : Words(mem, s)[1] = w
    BY <2>1, ItemIs
  <2>. QED  BY <1>5, <2>2 DEF Names
<1>8. \A a, w : Triple(a, w).section = w /\ Triple(a, w).key = Words(mem, a)[1]
  BY DEF Triple
<1>9. S \in SUBSET Nat
  BY DEF Searched
<1>10. ASSUME NEW x \in FirstItems PROVE \E w \in Names(S) : \E a \in Firsts(mem, S, N, w) : x = Triple(a, w)
  <2>1. PICK i \in I : x = all[i] /\ \A j \in I : j < i => all[j].section # all[i].section \/ all[j].key # all[i].key
    BY <1>6
  <2>2. PICK w \in Names(S) : all[i] = Triple(nodes[i], w) /\ nodes[i] \in Filed(mem, S, N, w)
    BY <1>7
  <2>3. ASSUME NEW c \in Filed(mem, S, N, w), c < nodes[i] PROVE Words(mem, c)[1] # Words(mem, nodes[i])[1]
    <3>1. c \in N /\ Type(mem, c) = "item"
      BY DEF Filed
    <3>2. PICK j \in DOMAIN nodes : nodes[j] = c
      BY <1>1, <3>1
    <3>3. j \in I /\ i \in DOMAIN nodes
      BY <1>2, <3>1, <3>2
    <3>4. j < i
      BY <1>1, <2>3, <3>2, <3>3
    <3>5. PICK y \in Names(S) : all[j] = Triple(nodes[j], y) /\ nodes[j] \in Filed(mem, S, N, y)
      BY <1>7, <3>3
    <3>6. y = w
      BY <1>9, <3>2, <3>5, FiledOnce
    <3>. QED  BY <1>8, <2>1, <2>2, <3>2, <3>3, <3>4, <3>5, <3>6
  <2>4. nodes[i] \in Firsts(mem, S, N, w)
    BY <2>2, <2>3 DEF Firsts
  <2>. QED  BY <2>1, <2>2, <2>4
<1>11. ASSUME NEW w \in Names(S), NEW a \in Firsts(mem, S, N, w) PROVE Triple(a, w) \in FirstItems
  <2>1. /\ a \in Filed(mem, S, N, w) /\ a \in N /\ Type(mem, a) = "item"
        /\ \A c \in Filed(mem, S, N, w) : c < a => Words(mem, c)[1] # Words(mem, a)[1]
    BY DEF Firsts, Filed
  <2>2. PICK i \in DOMAIN nodes : nodes[i] = a
    BY <1>1, <2>1
  <2>3. i \in I
    BY <1>2, <2>1, <2>2
  <2>4. all[i] = Triple(a, w)
    <3>1. PICK y \in Names(S) : all[i] = Triple(nodes[i], y) /\ nodes[i] \in Filed(mem, S, N, y)
      BY <1>7, <2>3
    <3>2. y = w
      BY <1>9, <2>1, <2>2, <3>1, FiledOnce
    <3>. QED  BY <2>2, <3>1, <3>2
  <2>5. ASSUME NEW j \in I, j < i PROVE all[j].section # all[i].section \/ all[j].key # all[i].key
    <3>1. PICK y \in Names(S) : all[j] = Triple(nodes[j], y) /\ nodes[j] \in Filed(mem, S, N, y)
      BY <1>7
    <3>2. nodes[j] < a
      <4>1. j \in DOMAIN nodes
        BY <1>2
      <4>. QED  BY <1>1, <2>2, <2>5, <4>1
    <3>3. CASE y = w
      <4>1. Words(mem, nodes[j])[1] # Words(mem, a)[1]
        BY <2>1, <3>1, <3>2, <3>3
      <4>. QED  BY <1>8, <2>4, <3>1, <4>1
    <3>4. CASE y # w
      BY <1>8, <2>4, <3>1, <3>4
    <3>. QED  BY <3>3, <3>4
  <2>. QED  BY <1>6, <2>3, <2>4, <2>5
<1>. QED  BY <1>10, <1>11

\* A map of all nodes has what a search finds.
LEMMA MapFinds ==
  ASSUME NEW N, NEW S, NEW nodes, Searched(N, S, nodes), NEW o \in Obj, mem[obj[o].map] = MapOf(mem, S, N)
  PROVE  /\ {mem[e.sec] : e \in mem[obj[o].map]} = Names(S)
         /\ \A w \in Names(S) : \A k : Lookup(o, w, k) = {Words(mem, a)[2] : a \in {a \in Firsts(mem, S, N, w) : Words(mem, a)[1] = k}}
<1>1. /\ N \in SUBSET Nat /\ S \subseteq N /\ (\A s \in S : Type(mem, s) = "section")
  BY DEF Searched, Sorts
<1>2. \A s \in S : mem[Detail(mem, s).name] = Words(mem, s)[1]
  BY <1>1 DEF Words
<1>3. PICK map : map = mem[obj[o].map]
  OBVIOUS
<1>4. /\ \A e \in map : \E h \in Headings(mem, S, N) : e = Entry(mem, S, N, h)
      /\ \A h \in Headings(mem, S, N) : Entry(mem, S, N, h) \in map
  BY <1>3 DEF MapOf
<1>5. \A h \in Headings(mem, S, N) : h \in S /\ mem[Entry(mem, S, N, h).sec] = Words(mem, h)[1]
  BY <1>2 DEF Headings, Entry
<1>6. ASSUME NEW s \in S PROVE \E h \in Headings(mem, S, N) : Words(mem, h)[1] = Words(mem, s)[1]
  <2>1. s \in S \cap N
    BY <1>1
  <2>. QED  BY <1>1, <2>1, HeadingIs
<1>7. {mem[e.sec] : e \in map} = Names(S)
  <2>1. ASSUME NEW e \in map PROVE mem[e.sec] \in Names(S)
    BY <1>4, <1>5 DEF Names
  <2>2. ASSUME NEW s \in S PROVE \E e \in map : mem[e.sec] = Words(mem, s)[1]
    BY <1>4, <1>5, <1>6
  <2>. QED  BY <2>1, <2>2 DEF Names
<1>8. ASSUME NEW w \in Names(S), NEW k
      PROVE  Lookup(o, w, k) = {Words(mem, a)[2] : a \in {a \in Firsts(mem, S, N, w) : Words(mem, a)[1] = k}}
  <2>1. PICK h \in Headings(mem, S, N) : Words(mem, h)[1] = w
    BY <1>6 DEF Names
  <2>2. PICK F, items : F = Firsts(mem, S, N, w) /\ items = {Pair(mem, a) : a \in F}
    OBVIOUS
  <2>3. \A e \in map : mem[e.sec] = w <=> e = Entry(mem, S, N, h)
    <3>1. ASSUME NEW e \in map, mem[e.sec] = w PROVE e = Entry(mem, S, N, h)
      <4>1. PICK g \in Headings(mem, S, N) : e = Entry(mem, S, N, g)
        BY <1>4
      <4>2. Words(mem, g)[1] = Words(mem, h)[1]
        BY <1>5, <2>1, <3>1, <4>1
      <4>3. g = h
        BY <1>1, <4>2, OneHeading
      <4>. QED  BY <4>1, <4>3
    <3>2. mem[Entry(mem, S, N, h).sec] = w
      BY <1>5, <2>1
    <3>. QED  BY <3>1, <3>2
  <2>4. Entry(mem, S, N, h) \in map /\ Entry(mem, S, N, h).items = items
    BY <1>4, <2>1, <2>2 DEF Entry
  <2>5. {e \in map : mem[e.sec] = w} = {Entry(mem, S, N, h)}
    BY <2>3, <2>4
  <2>6. UNION {e.items : e \in {e \in map : mem[e.sec] = w}} = items
    BY <2>4, <2>5
  <2>7. Lookup(o, w, k) = {mem[i[2]] : i \in {i \in items : mem[i[1]] = k}}
    BY <1>3, <2>6 DEF Lookup
  <2>8. \A a \in F : mem[Pair(mem, a)[1]] = Words(mem, a)[1] /\ mem[Pair(mem, a)[2]] = Words(mem, a)[2]
    <3>1. \A a \in F : Type(mem, a) = "item"
      BY <2>2 DEF Firsts, Filed
    <3>. QED  BY <3>1 DEF Pair, Words
  <2>9. ASSUME NEW x \in {mem[i[2]] : i \in {i \in items : mem[i[1]] = k}}
        PROVE  x \in {Words(mem, a)[2] : a \in {a \in F : Words(mem, a)[1] = k}}
    <3>1. PICK i \in items : x = mem[i[2]] /\ mem[i[1]] = k
      BY <2>9
    <3>2. PICK a \in F : i = Pair(mem, a)
      BY <2>2
    <3>. QED  BY <2>8, <3>1, <3>2
  <2>10. ASSUME NEW a \in F, Words(mem, a)[1] = k
         PROVE  Words(mem, a)[2] \in {mem[i[2]] : i \in {i \in items : mem[i[1]] = k}}
    <3>1. Pair(mem, a) \in items
      BY <2>2
    <3>. QED  BY <2>8, <2>10, <3>1
  <2>. QED  BY <2>2, <2>7, <2>9, <2>10
<1>. QED  BY <1>3, <1>7, <1>8

\* The blocks that a map names are in memory.
LEMMA MapLive ==
  ASSUME NEW N, NEW S, NEW nodes, Searched(N, S, nodes), NEW e \in MapOf(mem, S, N)
  PROVE  Live(e.sec) /\ \A i \in e.items : Live(i[1]) /\ Live(i[2])
<1>1. S \subseteq N /\ (\A a \in N : Shape(mem, a)) /\ \A s \in S : Type(mem, s) = "section"
  BY DEF Searched, Sorts
<1>2. PICK h \in Headings(mem, S, N) : e = Entry(mem, S, N, h)
  BY DEF MapOf
<1>3. h \in S /\ e.sec = Detail(mem, h).name
  BY <1>2 DEF Headings, Entry
<1>4. Live(e.sec)
  <2>1. Shape(mem, h) /\ Type(mem, h) = "section"
    BY <1>1, <1>3
  <2>. QED  BY <1>3, <2>1 DEF Shape, Live
<1>5. ASSUME NEW i \in e.items PROVE Live(i[1]) /\ Live(i[2])
  <2>1. PICK w : w = Words(mem, h)[1]
    OBVIOUS
  <2>2. PICK a \in Firsts(mem, S, N, w) : i = Pair(mem, a)
    BY <1>2, <1>5, <2>1 DEF Entry
  <2>3. a \in N /\ Type(mem, a) = "item"
    BY <2>2 DEF Firsts, Filed
  <2>4. Shape(mem, a)
    BY <1>1, <2>3
  <2>. QED  BY <2>2, <2>3, <2>4 DEF Shape, Live, Pair
<1>. QED  BY <1>4, <1>5

\* What a lookup in the map finds, with the section and the key it was given.
Matches(o, s, k) == {[section |-> s, key |-> k, val |-> v] : v \in Lookup(o, s, k)}

\* MapAgrees: a map in step has what a search of the document finds.
LEMMA MapsFind ==
  ASSUME MInv
  PROVE  MapAgrees
<1>1. PICK N \in SUBSET Nat, S \in SUBSET Nat, B \in SUBSET Nat : Good(N, S, B) /\ Mirror(N, S, B)
  BY DEF MInv
<1>2. ASSUME NEW o \in Obj, Synced(o)
      PROVE  /\ \A e \in mem[obj[o].map] : Live(e.sec) /\ \A i \in e.items : Live(i[1]) /\ Live(i[2])
             /\ {mem[e.sec] : e \in mem[obj[o].map]} = SectionNames
             /\ UNION {{[section |-> s, key |-> k, val |-> v] : v \in Lookup(o, s, k)} :
                         s \in SectionNames, k \in {item.key : item \in Range(AllItems)}} = FirstItems
  <2>1. /\ mem[obj[o].map] = MapOf(mem, S, N) /\ pc \in {"ready", "overrun"} /\ walk.job \notin {"edit", "destroy"}
    BY <1>1, <1>2 DEF Synced, Mirror
  <2>2. Whole /\ NoOrphans(mem, N, S)
    BY <1>1, <2>1 DEF Whole, Good, Phases, Document
  <2>3. PICK nodes : nodes = Nodes
    OBVIOUS
  <2>4. Ordered(nodes, N) /\ Ordered(Sections, S)
    BY <1>1, <2>2, <2>3, WholeNodes
  <2>5. Searched(N, S, nodes)
    BY <1>1, <2>2, <2>3, <2>4 DEF Searched, Good, Sound, Body
  <2>6. SectionNames = Names(S)
    <3>1. PICK s : s = Sections
      OBVIOUS
    <3>2. s \in Seq(S) /\ Len(s) \in Nat /\ (\A x \in S : \E i \in 1..Len(s) : s[i] = x)
      BY <2>4, <3>1 DEF Ordered
    <3>3. DOMAIN s = 1..Len(s)
      BY <3>2, LenProperties
    <3>4. ASSUME NEW i \in 1..Len(s) PROVE s[i] \in S
      <4>1. s \in Seq(S)
        BY <3>2
      <4>. QED  BY ONLY <4>1, i \in 1..Len(s), ElementOfSeq
    <3>5. Range(s) = S
      BY <3>2, <3>3, <3>4 DEF Range
    <3>. QED  BY <3>1, <3>5 DEF SectionNames, Names
  <2>7. /\ {mem[e.sec] : e \in mem[obj[o].map]} = Names(S)
        /\ \A w \in Names(S) : \A k : Lookup(o, w, k) = {Words(mem, a)[2] : a \in {a \in Firsts(mem, S, N, w) : Words(mem, a)[1] = k}}
    BY <2>1, <2>5, MapFinds
  <2>8. PICK keys : keys = {item.key : item \in Range(AllItems)}
    OBVIOUS
  <2>9. \A x : x \in FirstItems <=> \E w \in Names(S) : \E a \in Firsts(mem, S, N, w) : x = Triple(a, w)
    BY <2>5, FirstItemsAre
  <2>10. ASSUME NEW w \in Names(S), NEW a \in Firsts(mem, S, N, w) PROVE Words(mem, a)[1] \in keys
    <3>1. a \in N /\ Type(mem, a) = "item"
      BY DEF Firsts, Filed
    <3>2. PICK i \in DOMAIN nodes : nodes[i] = a
      BY <2>5, <3>1, Places
    <3>3. PICK all : all = AllItems
      OBVIOUS
    <3>4. i \in DOMAIN all /\ all[i] = Item(nodes, i)
      BY <2>3, <3>1, <3>2, <3>3 DEF AllItems
    <3>5. all[i].key = Words(mem, a)[1]
      BY <3>2, <3>4 DEF Item
    <3>6. all[i] \in Range(AllItems)
      BY <3>3, <3>4 DEF Range
    <3>. QED  BY <2>8, <3>5, <3>6
  <2>. DEFINE X == UNION {Matches(o, s, k) : s \in Names(S), k \in keys}
  <2>11. UNION {{[section |-> s, key |-> k, val |-> v] : v \in Lookup(o, s, k)} : s \in Names(S), k \in keys} = X
    BY DEF Matches
  <2>12. \A x : x \in X <=> \E s \in Names(S), k \in keys : x \in Matches(o, s, k)
    OBVIOUS
  <2>. HIDE DEF X
  <2>13. ASSUME NEW x \in X PROVE x \in FirstItems
    <3>1. PICK w \in Names(S), k \in keys : x \in Matches(o, w, k)
      BY <2>12, <2>13
    <3>2. PICK v \in Lookup(o, w, k) : x = [section |-> w, key |-> k, val |-> v]
      BY <3>1 DEF Matches
    <3>3. v \in {Words(mem, a)[2] : a \in {a \in Firsts(mem, S, N, w) : Words(mem, a)[1] = k}}
      BY <2>7
    <3>4. PICK a \in Firsts(mem, S, N, w) : Words(mem, a)[1] = k /\ Words(mem, a)[2] = v
      BY <3>3
    <3>5. x = Triple(a, w)
      BY <3>2, <3>4 DEF Triple
    <3>. QED  BY <2>9, <3>5
  <2>14. ASSUME NEW x \in FirstItems PROVE x \in X
    <3>1. PICK w \in Names(S) : \E a \in Firsts(mem, S, N, w) : x = Triple(a, w)
      BY <2>9
    <3>2. PICK a \in Firsts(mem, S, N, w) : x = Triple(a, w)
      BY <3>1
    <3>3. PICK k, v : k = Words(mem, a)[1] /\ v = Words(mem, a)[2]
      OBVIOUS
    <3>4. k \in keys
      BY <2>10, <3>3
    <3>5. v \in Lookup(o, w, k)
      <4>1. v \in {Words(mem, c)[2] : c \in {c \in Firsts(mem, S, N, w) : Words(mem, c)[1] = k}}
        BY <3>3
      <4>. QED  BY <2>7, <4>1
    <3>6. x = [section |-> w, key |-> k, val |-> v]
      BY <3>2, <3>3 DEF Triple
    <3>7. x \in Matches(o, w, k)
      BY <3>5, <3>6 DEF Matches
    <3>. QED  BY <2>12, <3>4, <3>7
  <2>15. X = FirstItems
    BY <2>13, <2>14
  <2>16. \A e \in mem[obj[o].map] : Live(e.sec) /\ \A i \in e.items : Live(i[1]) /\ Live(i[2])
    BY <2>1, <2>5, MapLive
  <2>. QED  BY <2>6, <2>7, <2>8, <2>11, <2>15, <2>16
<1>. QED  BY <1>2 DEF MapAgrees

\* MapAgrees: a map in step with its document has live pointers only, and a lookup in it finds
\* what a search of the document finds, of items with one key in sections of one name the
\* first, whatever the document was edited to before the map was filled.
THEOREM MapsAgree == MapSpec => []MapAgrees
<1>1. MapInit => MInv
  BY InitMirror
<1>2. MInv /\ [ProgramStep \/ MapStep]_<<vars, mapVars>> => MInv'
  BY MirrorKept
<1>3. MInv => MapAgrees
  BY MapsFind
<1>. QED  BY <1>1, <1>2, <1>3, PTL DEF MapSpec
=============================================================================
