------------------------------- MODULE IniMap -------------------------------
(***************************************************************************)
(* ini_map.hpp on top of ini_file.c: objects that map the sections and     *)
(* keys of a document to its values, by pointers into the document, and    *)
(* are constructed, copied, moved, synced and destroyed while the program  *)
(* changes and destroys the document.                                      *)
(***************************************************************************)
EXTENDS IniFile

CONSTANTS Obj   \* objects

NoObj == "nobody"

VARIABLES
  obj,        \* obj[o]: the members of object o, see Unborn
  building    \* the object whose map is being filled

mapVars == <<obj, building>>

\* Members after reset(); path stands for path_, dir_ and basename_, synced is a
\* ghost: the document has not been changed since the map was filled.
Reset == [alive |-> TRUE, err |-> "NOT_INITIALIZED", doc |-> NULL, path |-> NULL, map |-> NULL, synced |-> FALSE]
Unborn == [Reset EXCEPT !.alive = FALSE]
Owned(o) == {obj[o].path, obj[o].map} \ {NULL}
UsesLiveDoc(o) == obj[o].doc \in (IF pc = "ready" THEN {NULL, doc} ELSE {NULL})

-----------------------------------------------------------------------------
\* Mutant: every item is put into the map.
AlwaysNew(mine, key) == TRUE

IsNew(mine, key) == \A e \in mine : \A i \in e.items : mem[i[1]] # mem[key]

\* A map is a set of entries: a pointer to the name of a section, and pairs of
\* pointers to a key and to its value.  The first of two equal names stays.
save_node_into_map(name, a) ==
  LET address == obj[building].map
      map == mem[address]
      mine == {e \in map : mem[e.sec] = mem[name]}
      item == <<Detail(mem, a).key, Detail(mem, a).val>>
  IN {CASE Type(mem, a) = "section" /\ mine = {} ->
             [Now EXCEPT !.mem = [@ EXCEPT ![address] = map \cup {[sec |-> name, items |-> {}]}]]
        [] Type(mem, a) = "item" /\ IsNew(mine, item[1]) ->
             [Now EXCEPT !.mem = [@ EXCEPT ![address] = (map \ mine) \cup
                                    {[e EXCEPT !.items = @ \cup {item}] : e \in mine}]]
        [] OTHER -> Now}

Fills(o) == building' = o /\ Begin("map")

\* construct() of o, on the heap m, whose strings are copied if there are any.
construct(o, m, d, withPath) ==
  LET blocks == IF withPath THEN <<<<>>, {}>> ELSE <<{}>>
      map == brk + Len(blocks)
  IN IF d = NULL
     THEN obj' = [obj EXCEPT ![o] = Reset] /\ mem' = m /\ UNCHANGED <<brk, walk, building>>
     ELSE /\ obj' = [obj EXCEPT ![o] = [Reset EXCEPT !.doc = d, !.path = IF withPath THEN brk + 1 ELSE NULL, !.map = map]]
          /\ mem' = Allocated(m, brk, blocks) /\ brk' = map /\ Fills(o)

Between == Idle /\ pc \in {"idle", "ready"}
Use == Between /\ ops < MaxOps /\ ops' = ops + 1
fileRest == <<doc, pc, parse, buf, err, settings, text, dumped, parses>>

Construct(o) ==
  /\ Use /\ ~obj[o].alive /\ \E withPath \in BOOLEAN : construct(o, mem, doc, withPath)
  /\ UNCHANGED <<fileRest, lost>>

CopyConstruct(o, src) ==
  /\ Use /\ ~obj[o].alive /\ obj[src].alive /\ UsesLiveDoc(src)
  /\ construct(o, mem, obj[src].doc, obj[src].path # NULL)
  /\ UNCHANGED <<fileRest, lost>>

\* release(), reset() and construct().
CopyAssign(o, src) ==
  /\ Use /\ o # src /\ obj[o].alive /\ obj[src].alive /\ UsesLiveDoc(src)
  /\ construct(o, Freed(mem, Owned(o)), obj[src].doc, obj[src].path # NULL)
  /\ UNCHANGED <<fileRest, lost>>

Moved(o, src) == [obj EXCEPT ![o] = obj[src], ![src] = Reset]

MoveConstruct(o, src) ==
  /\ Use /\ ~obj[o].alive /\ obj[src].alive /\ obj' = Moved(o, src)
  /\ UNCHANGED <<fileRest, heap, walk, building, lost>>

\* Here nothing is released: what o had is lost.
MoveAssign(o, src) ==
  /\ Use /\ o # src /\ obj[o].alive /\ obj[src].alive /\ obj' = Moved(o, src)
  /\ lost' = lost \cup Owned(o)
  /\ UNCHANGED <<fileRest, heap, walk, building>>

Destruct(o) ==
  /\ Use /\ obj[o].alive /\ obj' = [obj EXCEPT ![o] = Unborn] /\ mem' = Freed(mem, Owned(o))
  /\ UNCHANGED <<fileRest, brk, walk, building, lost>>

\* sync() of an object with an error returns it.  One after a change of the document is
\* not counted.
sync(o) ==
  /\ IF obj[o].synced THEN Use ELSE Between /\ UNCHANGED ops
  /\ obj[o].alive /\ obj[o].err = "OK" /\ UsesLiveDoc(o)
  /\ mem' = [mem EXCEPT ![obj[o].map] = {}] /\ Fills(o)
  /\ UNCHANGED <<fileRest, brk, obj, lost>>

Filled ==
  /\ Traversed("map") /\ walk' = NoWalk /\ building' = NoObj
  /\ obj' = [obj EXCEPT ![building] = [@ EXCEPT !.err = "OK", !.synced = TRUE]]
  /\ UNCHANGED <<fileRest, heap, lost, ops>>

\* Changes of the document, and its destruction, leave the maps behind.
ProgramStep ==
  /\ Next /\ UNCHANGED building
  /\ obj' = IF Ready /\ (mem' # mem \/ walk'.job \in {"edit", "destroy"}) THEN [o \in Obj |-> [obj[o] EXCEPT !.synced = FALSE]] ELSE obj

\* The two index operators, one after the other: what map[section][key] is, or
\* nothing where they throw.
Lookup(o, section, key) ==
  {mem[i[2]] : i \in {i \in UNION {e.items : e \in {e \in mem[obj[o].map] : mem[e.sec] = section}} : mem[i[1]] = key}}

MapStep ==
  \/ \E o \in Obj : Construct(o) \/ Destruct(o) \/ sync(o)
  \/ \E o, src \in Obj : CopyConstruct(o, src) \/ CopyAssign(o, src) \/ MoveConstruct(o, src) \/ MoveAssign(o, src)
  \/ Visit("map", save_node_into_map(NameGiven, Visited)) /\ UNCHANGED mapVars
  \/ Filled

MapInit == Init /\ obj = [o \in Obj |-> Unborn] /\ building = NoObj
MapSpec == MapInit /\ [][ProgramStep \/ MapStep]_<<vars, mapVars>>

-----------------------------------------------------------------------------
\* A map that is in step with its document holds live pointers only, and finds what
\* a search of the document finds: the sections that there are, and of the items
\* of sections of one name the first with the key.
Synced(o) == obj[o].alive /\ obj[o].synced /\ obj[o].err = "OK" /\ building # o
Under(nodes, i) == nodes[Max({j \in 1..i : Type(mem, nodes[j]) = "section"})]
Item(nodes, i) ==
  [section |-> Words(mem, Under(nodes, i))[1], key |-> Words(mem, nodes[i])[1], val |-> Words(mem, nodes[i])[2]]
AllItems ==
  LET nodes == Nodes IN [i \in {i \in DOMAIN nodes : Type(mem, nodes[i]) = "item"} |-> Item(nodes, i)]
FirstItems ==
  LET all == AllItems
  IN {all[i] : i \in {i \in DOMAIN all :
        \A j \in DOMAIN all : j < i => all[j].section # all[i].section \/ all[j].key # all[i].key}}
SectionNames == {Words(mem, a)[1] : a \in Range(Sections)}
MapAgrees ==
  \A o \in Obj : Synced(o) =>
    LET map == mem[obj[o].map]
        keys == {item.key : item \in Range(AllItems)}
    IN /\ \A e \in map : Live(e.sec) /\ \A i \in e.items : Live(i[1]) /\ Live(i[2])
       /\ {mem[e.sec] : e \in map} = SectionNames
       /\ UNION {{[section |-> s, key |-> k, val |-> v] : v \in Lookup(o, s, k)} : s \in SectionNames, k \in keys} = FirstItems

\* Every block belongs to the document, to the parser or to one object, except for
\* documents without a node, which are never freed, and for what an object had when
\* another was moved onto it.
NothingLeft ==
  Idle /\ pc # "overrun" =>
    /\ DOMAIN mem = (IF doc = NULL THEN {} ELSE InDocument(mem)) \cup ({parse.buf} \ {NULL})
                      \cup lost \cup UNION {Owned(o) : o \in Obj}
    /\ \A o, p \in Obj : o # p => Owned(o) \cap Owned(p) = {}

=============================================================================
