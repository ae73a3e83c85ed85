---------------------------- MODULE ChardevProofs ----------------------------
(***************************************************************************)
(* Proofs about ChardevGroup and ChardevDemo, for any probers and openers, *)
(* any size of the group, any number of calls, with or without a function  *)
(* free_privdata(): no memory of a device is read after its last reference,*)
(* the table and the class agree, what a failed or destroyed group leaves  *)
(* is what the references of class_find_device() keep and what the driver  *)
(* has not unmade itself, and an item has one opener at a time.            *)
(***************************************************************************)
EXTENDS ChardevDemo, FiniteSetTheorems, TLAPS

\* The threads that make and unmake items.
Worker == {Loader} \cup Prober

Making   == {"scan", "device_create"}
Unmaking == {"free_privdata", "clear_privdata", "device_destroy"}
Creating == {"idle", "kzalloc_group", "alloc_region", "kzalloc_items", "cdev_add",
             "class_create", "created", "lbl_del_cdev", "lbl_unreg_region",
             "lbl_free_group", "failed"}
Emptied  == {"class_destroy", "cdev_del", "unregister_region", "kfree_items",
             "kfree_group", "destroyed", "end"}

\* An item in the table, and a device that is not there yet or no longer.
Listed(d)   == d \in registered /\ items[minor[d]] = d
Unlisted(d) == d \in registered /\ items[minor[d]] = NULL

\* t has unmade its item and has the private data left to free.
Parted(t) == pc[t] \in {"dev_name", "unmade"} /\ ~free_privdata

\* t has the private data of d, which is not a device yet or no longer.
Owns(t, d) == dev[t] = d /\ (pc[t] \in Making \/ Parted(t))

\* t works on an item that nobody else works on.  An item that a prober has made
\* is its own until the group is destroyed.
Busy(t) ==
  \/ pc[t] \in Making \cup Unmaking \cup {"store", "unmake", "clear_item"}
  \/ Parted(t)
  \/ pc[t] = "made" /\ ~Unloading

\* Where an opener can be.
Opening == {"idle", "dev_get_drvdata", "data", "no_data", "test", "oops"}

LoaderLabel ==
  Creating \cup Making \cup Unmaking \cup Emptied
    \cup {"loaded", "store", "made", "not_made", "atomic_set", "running", "next_item",
          "unmake", "clear_item", "dev_name", "unmade"}

Types ==
  /\ group \in {"NULL", "error", "group"}
  /\ items \in [Index -> {NULL} \cup Made]
  /\ registered \subseteq Made /\ attached \subseteq Made /\ freed \subseteq Made
  /\ minor \in [Made -> Index \cup {0}] /\ refs \in [Made -> Nat]
  /\ made \in 0..MaxMade /\ found \in 0..MaxFound
  /\ pc \in [Thread -> Label] /\ at \in [Thread -> 0..max_items]
  /\ dev \in [Thread -> {NULL} \cup Made]
  /\ pc[Loader] \in LoaderLabel
  /\ \A t \in Prober : pc[t] \notin {"dev_get_drvdata"}
  /\ \A t \in Opener : pc[t] \in Opening

\* What the group holds follows from where the loading thread is.
Held ==
  held \in CASE pc[Loader] \in {"idle", "kzalloc_group", "failed", "destroyed", "end"} -> {{}}
             [] pc[Loader] \in {"alloc_region", "kfree_group"} -> {{"group"}}
             [] pc[Loader] = "kzalloc_items" -> {{"group", "region"}}
             [] pc[Loader] \in {"cdev_add", "unregister_region"} ->
                  {{"group", "region", "items"}}
             [] pc[Loader] \in {"class_create", "lbl_del_cdev", "cdev_del"} ->
                  {{"group", "region", "items", "cdev"}}
             [] pc[Loader] = "lbl_unreg_region" ->
                  {{"group", "region"}, {"group", "region", "items"}}
             [] pc[Loader] = "lbl_free_group" -> {{}, {"group"}, {"group", "items"}}
             [] pc[Loader] = "kfree_items" -> {{"group", "items"}}
             [] OTHER -> {{"group", "region", "items", "cdev", "class"}}

\* What an entry of the table is.
Item(i) ==
  /\ items[i] \in attached /\ items[i] \in registered /\ items[i] \notin freed
  /\ minor[items[i]] = i

\* The class, the table and the private data.
Devices ==
  /\ registered \subseteq 1..made /\ freed \subseteq 1..made
  /\ free_privdata => attached \subseteq registered
  /\ ~free_privdata => freed \cap registered = {}
  /\ \A d \in registered : minor[d] \in Index /\ refs[d] >= 1
  /\ \A d, e \in registered : minor[d] = minor[e] => d = e
  /\ \A i \in Index : items[i] # NULL => Item(i)
  /\ \A d \in registered :
       Listed(d) \/ \E t \in Worker : dev[t] = d /\ pc[t] \in Unmaking \cup {"store"}
  /\ \A d \in 1..made : d \in freed \cup registered
                          \/ \E t \in Worker : Owns(t, d)

\* What a thread knows of the item that it works on.
Work(t) ==
  /\ pc[t] \in Making \/ Parted(t) => dev[t] \in 1..made /\ dev[t] \notin registered
  /\ pc[t] \in Making \cup {"store"} => dev[t] \notin freed
  /\ pc[t] = "device_create" => at[t] \in Index
  /\ pc[t] = "store" => Unlisted(dev[t]) /\ dev[t] \in attached /\ minor[dev[t]] = at[t]
  /\ \/ pc[t] = "made" /\ ~Unloading
     \/ pc[t] = "clear_item"
     \/ pc[t] = "unmake" /\ (dev[t] # NULL \/ t # Loader)
     => Listed(dev[t])
  /\ pc[t] \in Unmaking => Unlisted(dev[t])
  /\ pc[t] \in {"free_privdata", "clear_privdata"} => dev[t] \in attached /\ free_privdata
  /\ pc[t] = "clear_privdata" => dev[t] \in freed
  /\ pc[t] = "device_destroy" /\ free_privdata => dev[t] \in freed /\ dev[t] \notin attached
  /\ pc[t] \in Unmaking \cup {"clear_item"} => refs[dev[t]] >= 2
  /\ pc[t] = "dev_name" => dev[t] \in Made /\ refs[dev[t]] >= 1

Works == \A t \in Worker : Work(t)

Apart == \A t, u \in Worker : t # u /\ Busy(t) /\ Busy(u) => dev[t] # dev[u]

\* How far the loading thread has come, and what the others may do meanwhile.
Cleared(n) == \A i \in Index : i < n => items[i] = NULL

Phase ==
  /\ pc[Loader] \in Creating => made = 0 /\ \A t \in Prober : pc[t] = "idle"
  /\ Unloading => \A t \in Prober : pc[t] \in {"idle", "made"}
  /\ pc[Loader] \in Unmaking \cup {"next_item", "dev_name", "unmade"} => Cleared(at[Loader])
  /\ pc[Loader] \in {"unmake", "clear_item"} =>
       /\ at[Loader] >= 1 /\ Cleared(at[Loader] - 1)
       /\ dev[Loader] = NULL => items[at[Loader] - 1] = NULL
       /\ dev[Loader] # NULL => minor[dev[Loader]] = at[Loader] - 1
  /\ pc[Loader] \in Unmaking \cup {"next_item", "unmake", "clear_item", "dev_name", "unmade"} =>
       free_privdata
  /\ pc[Loader] \in Emptied /\ free_privdata => registered = {}

\* The device that an opener has found keeps its memory.
Finds ==
  \A t \in Opener :
    /\ pc[t] = "dev_get_drvdata" => dev[t] \in Made /\ refs[dev[t]] >= 1
    /\ pc[t] \in {"dev_get_drvdata", "data", "test"} => at[t] \in Index

GroupInv == Types /\ Held /\ Devices /\ Works /\ Apart /\ Phase /\ Finds

-----------------------------------------------------------------------------
(* Frames.                                                                 *)

\* A driver keeps the function free_privdata() that it has given, or none.
Same == free_privdata' = free_privdata

\* The labels at which the driver is on its way out.
LEMMA UnloadingLabels ==
  Unloading <=> pc[Loader] \in Unmaking \cup Emptied \cup {"next_item", "unmake", "clear_item",
                                                           "dev_name", "unmade"}
BY DEF Unloading, Unmaking, Emptied

\* A busy prober has the driver loaded.
LEMMA BusyProber ==
  ASSUME Phase, NEW t \in Prober, Busy(t)
  PROVE  ~Unloading /\ pc[Loader] \notin Creating
BY DEF Phase, Busy, Parted, Making, Unmaking

\* What a busy thread works on is an item that has been made, or nothing.
LEMMA BusyDev ==
  ASSUME Types, Devices, Works, NEW u \in Worker, Busy(u)
  PROVE  dev[u] = NULL \/ dev[u] \in 1..made
<1>1. Work(u)
  BY DEF Works
<1>. QED  BY <1>1 DEF Work, Busy, Listed, Unlisted, Devices

\* Only t moves.
OnlyMoves(t) == \A u \in Thread \ {t} : pc'[u] = pc[u] /\ dev'[u] = dev[u] /\ at'[u] = at[u]

\* The others keep what they have.
LEMMA OthersOwn ==
  ASSUME NEW t \in Worker, OnlyMoves(t), Same
  PROVE  \A u \in Worker \ {t} : \A d : Owns(u, d) => Owns(u, d)'
<1>1. \A u \in Worker \ {t} : pc'[u] = pc[u] /\ dev'[u] = dev[u]
  BY DEF OnlyMoves, Worker, Thread
<1>. QED  BY <1>1 DEF Owns, Parted, Same

\* What a thread knows of its item stays true with the item.
LEMMA WorkKept ==
  ASSUME NEW u \in Worker, Work(u), pc'[u] = pc[u], dev'[u] = dev[u], at'[u] = at[u],
         Unloading => Unloading', Same,
         dev[u] \in 1..made => dev[u] \in 1..made',
         dev[u] \notin registered => dev[u] \notin registered',
         dev[u] \notin freed => dev[u] \notin freed',
         Listed(dev[u]) => Listed(dev[u])', Unlisted(dev[u]) => Unlisted(dev[u])',
         dev[u] \in attached' <=> dev[u] \in attached, dev[u] \in freed => dev[u] \in freed',
         minor'[dev[u]] = minor[dev[u]], refs[dev[u]] >= 2 => refs'[dev[u]] >= 2,
         dev[u] \in Made /\ refs[dev[u]] >= 1 => refs'[dev[u]] >= 1
  PROVE  Work(u)'
<1>1. /\ pc'[u] \in Making \/ Parted(u)' => dev'[u] \in 1..made' /\ dev'[u] \notin registered'
      /\ pc'[u] \in Making \cup {"store"} => dev'[u] \notin freed'
      /\ pc'[u] = "device_create" => at'[u] \in Index
  <2>1. Parted(u)' <=> Parted(u)
    BY DEF Parted, Same
  <2>. QED  BY <2>1 DEF Work
<1>2. pc'[u] = "store" => Unlisted(dev[u])' /\ dev'[u] \in attached' /\ minor'[dev'[u]] = at'[u]
  BY DEF Work
<1>3. \/ pc'[u] = "made" /\ ~Unloading'
      \/ pc'[u] = "clear_item"
      \/ pc'[u] = "unmake" /\ (dev'[u] # NULL \/ u # Loader)
      => Listed(dev[u])'
  BY DEF Work
<1>4. /\ pc'[u] \in Unmaking => Unlisted(dev[u])'
      /\ pc'[u] \in {"free_privdata", "clear_privdata"} => dev'[u] \in attached' /\ free_privdata'
      /\ pc'[u] = "clear_privdata" => dev'[u] \in freed'
      /\ pc'[u] = "device_destroy" /\ free_privdata' =>
           dev'[u] \in freed' /\ dev'[u] \notin attached'
  BY DEF Work, Same
<1>5. /\ pc'[u] \in Unmaking \cup {"clear_item"} => refs'[dev'[u]] >= 2
      /\ pc'[u] = "dev_name" => dev'[u] \in Made /\ refs'[dev'[u]] >= 1
  BY DEF Work
<1>. QED  BY <1>1, <1>2, <1>3, <1>4, <1>5 DEF Work

\* A busy thread t changes nothing that another one relies on.
LEMMA OthersWork ==
  ASSUME Types, Devices, Works, Apart, Same, NEW t \in Worker, Busy(t), OnlyMoves(t),
         Unloading => Unloading', made' = made,
         \A d \in Made : d # dev[t] =>
            /\ d \in registered' <=> d \in registered
            /\ d \in attached' <=> d \in attached
            /\ d \in freed' <=> d \in freed
            /\ minor'[d] = minor[d] /\ refs'[d] >= refs[d],
         \A d \in Made : refs[d] >= 1 => refs'[d] >= 1,
         \/ items' = items
         \/ dev[t] \in registered /\ \A i \in Index \ {minor[dev[t]]} : items'[i] = items[i],
         refs' \in [Made -> Nat],
         NEW u \in Worker, u # t
  PROVE  Work(u)'
<1>. USE DEF NULL
<1>1. Work(u) /\ pc'[u] = pc[u] /\ dev'[u] = dev[u] /\ at'[u] = at[u]
  BY DEF Works, OnlyMoves, Worker, Thread
<1>2. CASE ~Busy(u)
  <2>1. pc[u] \notin Making \cup Unmaking \cup {"store", "unmake", "clear_item"}
        /\ ~(pc'[u] = "made" /\ ~Unloading') /\ ~Parted(u)'
    BY <1>1, <1>2 DEF Busy, Parted, Same
  <2>. QED  BY <1>1, <2>1 DEF Work, Making, Unmaking
<1>3. CASE Busy(u)
  <2>1. dev[u] # dev[t]
    BY <1>3 DEF Apart
  <2>2. CASE dev[u] = NULL
    <3>1. 0 \notin registered /\ 0 \notin 1..made
      <4>1. registered \subseteq 1..made
        BY DEF Devices
      <4>2. 0 \notin 1..made
        OBVIOUS
      <4>. QED  BY <4>1, <4>2
    <3>2. pc[u] = "unmake" /\ u = Loader
      BY <1>1, <1>3, <2>2, <3>1 DEF Work, Listed, Unlisted, Busy
    <3>. QED  BY <1>1, <2>2, <3>2 DEF Work, Parted, Making, Unmaking
  <2>3. CASE dev[u] \in Made
    <3>1. /\ dev[u] \in registered' <=> dev[u] \in registered
          /\ dev[u] \in attached' <=> dev[u] \in attached
          /\ dev[u] \in freed' <=> dev[u] \in freed
          /\ minor'[dev[u]] = minor[dev[u]] /\ refs'[dev[u]] >= refs[dev[u]]
      BY <2>1, <2>3
    <3>2. dev[u] \in registered => items'[minor[dev[u]]] = items[minor[dev[u]]]
      BY <2>1, <2>3 DEF Devices
    <3>3. refs[dev[u]] \in Nat /\ refs'[dev[u]] \in Nat
      BY <2>3 DEF Types
    <3>4. refs[dev[u]] >= 2 => refs'[dev[u]] >= 2
      BY <3>1, <3>3
    <3>5. (Listed(dev[u]) => Listed(dev[u])') /\ (Unlisted(dev[u]) => Unlisted(dev[u])')
      BY <1>1, <3>1, <3>2 DEF Listed, Unlisted
    <3>6. dev[u] \in Made /\ refs[dev[u]] >= 1 => refs'[dev[u]] >= 1
      BY <2>3
    <3>. QED  BY <1>1, <3>1, <3>4, <3>5, <3>6, WorkKept
  <2>4. dev[u] = NULL \/ dev[u] \in Made
    BY DEF Types, Worker, Thread
  <2>. QED  BY <2>2, <2>3, <2>4
<1>. QED  BY <1>2, <1>3

\* The threads stay apart as long as they keep to their items.
LEMMA ApartKept ==
  ASSUME Apart, Same, NEW t \in Worker, OnlyMoves(t), Unloading => Unloading',
         Busy(t)' => Busy(t) /\ dev'[t] = dev[t]
  PROVE  Apart'
<1>1. ASSUME NEW u \in Worker, Busy(u)'
      PROVE  Busy(u) /\ dev'[u] = dev[u]
  BY <1>1 DEF Busy, Parted, Same, OnlyMoves, Worker, Thread
<1>. QED  BY <1>1 DEF Apart

\* So do the finds, as long as memory once referred to stays so.
LEMMA FindsKept ==
  ASSUME Finds, NEW t \in Worker, OnlyMoves(t), ChardevAssumption,
         \A d \in Made : refs[d] >= 1 => refs'[d] >= 1
  PROVE  Finds'
BY DEF Finds, OnlyMoves, Worker, Thread, ChardevAssumption

\* A step of a busy prober does not touch what the loading thread relies on.
LEMMA PhaseKept ==
  ASSUME Phase, Same, NEW t \in Prober, Busy(t), OnlyMoves(t), t # Loader
  PROVE  Phase'
<1>1. ~Unloading /\ pc[Loader] \notin Creating /\ pc'[Loader] = pc[Loader]
  BY BusyProber DEF OnlyMoves, Thread
<1>2. ~Unloading'
  BY <1>1 DEF Unloading
<1>. QED  BY <1>1, <1>2, UnloadingLabels DEF Phase, Unloading, Unmaking, Emptied, Same

-----------------------------------------------------------------------------
(* Making an item.                                                         *)

Good == Devices /\ Works /\ Apart /\ Phase /\ Finds

\* Where a thread goes, and that nobody else goes anywhere.
LEMMA Moves ==
  ASSUME Types, NEW t \in Thread, NEW l, Goto(t, l),
         dev' = dev \/ \E x : dev' = [dev EXCEPT ![t] = x],
         at' = at \/ \E x : at' = [at EXCEPT ![t] = x]
  PROVE  /\ pc'[t] = l /\ OnlyMoves(t)
         /\ t # Loader => pc'[Loader] = pc[Loader] /\ (Unloading' <=> Unloading)
<1>1. pc'[t] = l /\ \A u \in Thread \ {t} : pc'[u] = pc[u]
  BY DEF Types, Goto
<1>2. \A u \in Thread \ {t} : dev'[u] = dev[u] /\ at'[u] = at[u]
  BY DEF Types
<1>3. Loader \in Thread
  BY DEF Thread
<1>. QED  BY <1>1, <1>2, <1>3 DEF OnlyMoves, Unloading

\* A thread starts on a new item.
LEMMA CallMakeGood ==
  ASSUME Types, Good, Same, NEW t \in Worker, pc[t] \in {"idle", "loaded"}, pc[Loader] = "loaded",
         CallMake(t)
  PROVE  Good'
<1>1. t \in Thread
  BY DEF Worker, Thread
<1>2. pc'[t] = "scan" /\ OnlyMoves(t)
      /\ (t # Loader => pc'[Loader] = pc[Loader] /\ (Unloading' <=> Unloading))
  <2>1. Goto(t, "scan") /\ dev' = [dev EXCEPT ![t] = made + 1] /\ at' = [at EXCEPT ![t] = 0]
    BY DEF CallMake
  <2>. QED  BY <1>1, <2>1, Moves
<1>3. made' = made + 1 /\ dev'[t] = made + 1 /\ made \in Nat
  <2>1. made \in Nat
    BY ChardevAssumption DEF Types
  <2>2. dev' = [dev EXCEPT ![t] = made + 1] /\ made' = made + 1
    BY DEF CallMake
  <2>3. dev'[t] = made + 1
    BY <1>1, <2>2 DEF Types
  <2>. QED  BY <2>1, <2>2, <2>3
<1>4. UNCHANGED <<items, registered, minor, refs, attached, freed>>
  BY DEF CallMake, kernel
<1>5. ~Unloading /\ ~Unloading' /\ pc'[Loader] \in {"loaded", "scan"}
  BY <1>2 DEF Unloading
<1>6. \A u \in Worker \ {t} : pc'[u] = pc[u] /\ dev'[u] = dev[u] /\ at'[u] = at[u]
  BY <1>2 DEF OnlyMoves, Worker, Thread
<1>7. Devices'
  <2>1. 1..made \subseteq 1..made' /\ \A d \in 1..made' : d \in 1..made \/ d = made + 1
    BY <1>3
  <2>2. /\ registered' \subseteq 1..made' /\ freed' \subseteq 1..made'
        /\ free_privdata' => attached' \subseteq registered'
        /\ ~free_privdata' => freed' \cap registered' = {}
    BY <1>4, <2>1 DEF Good, Devices, Same
  <2>3. \A d \in registered' :
          Listed(d)' \/ \E u \in Worker : dev'[u] = d /\ pc'[u] \in Unmaking \cup {"store"}
    <3>1. ASSUME NEW d \in registered'
          PROVE  Listed(d)' \/ \E u \in Worker : dev'[u] = d /\ pc'[u] \in Unmaking \cup {"store"}
      <4>1. Listed(d) \/ \E u \in Worker : dev[u] = d /\ pc[u] \in Unmaking \cup {"store"}
        BY <1>4, <3>1 DEF Good, Devices
      <4>2. CASE Listed(d)
        BY <1>4, <4>2 DEF Listed
      <4>3. CASE \E u \in Worker : dev[u] = d /\ pc[u] \in Unmaking \cup {"store"}
        BY <1>6, <4>3 DEF Unmaking
      <4>. QED  BY <4>1, <4>2, <4>3
    <3>. QED  BY <3>1
  <2>4. \A d \in 1..made' : d \in freed' \cup registered' \/ \E u \in Worker : Owns(u, d)'
    <3>1. ASSUME NEW d \in 1..made'
          PROVE  d \in freed' \cup registered' \/ \E u \in Worker : Owns(u, d)'
      <4>1. CASE d = made + 1
        BY <1>2, <1>3, <4>1 DEF Owns, Making
      <4>2. CASE d \in 1..made
        <5>1. d \in freed \cup registered \/ \E u \in Worker : Owns(u, d)
          BY <4>2 DEF Good, Devices
        <5>2. CASE \E u \in Worker : Owns(u, d)
          <6>1. ~Owns(t, d)
            BY DEF Owns, Parted, Making
          <6>. QED  BY <1>2, <5>2, <6>1, OthersOwn
        <5>. QED  BY <1>4, <5>1, <5>2
      <4>. QED  BY <2>1, <4>1, <4>2
    <3>. QED  BY <3>1
  <2>5. /\ \A d \in registered' : minor'[d] \in Index /\ refs'[d] >= 1
        /\ \A d, e \in registered' : minor'[d] = minor'[e] => d = e
        /\ \A i \in Index : items'[i] # NULL => Item(i)'
    BY <1>4 DEF Good, Devices, Item
  <2>. QED  BY <2>2, <2>3, <2>4, <2>5 DEF Devices
<1>8. Works'
  <2>1. ASSUME NEW u \in Worker, u # t
        PROVE  Work(u)'
    <3>1. Work(u) /\ pc'[u] = pc[u] /\ dev'[u] = dev[u] /\ at'[u] = at[u]
      BY <1>6, <2>1 DEF Good, Works
    <3>2. dev[u] \in 1..made => dev[u] \in 1..made'
      BY <1>3
    <3>3. (Listed(dev[u])' <=> Listed(dev[u])) /\ (Unlisted(dev[u])' <=> Unlisted(dev[u]))
      BY <1>4, <3>1 DEF Listed, Unlisted
    <3>. QED  BY <1>4, <1>5, <3>1, <3>2, <3>3, WorkKept
  <2>2. Work(t)'
    <3>1. dev'[t] \in 1..made' /\ dev'[t] \notin registered' /\ dev'[t] \notin freed'
      BY <1>3, <1>4 DEF Good, Devices
    <3>. QED  BY <1>2, <3>1 DEF Work, Parted, Unmaking
  <2>. QED  BY <2>1, <2>2 DEF Works
<1>9. Apart'
  <2>1. ASSUME NEW u \in Worker, u # t, Busy(u)'
        PROVE  Busy(u) /\ dev'[u] = dev[u] /\ dev[u] # made + 1
    <3>1. Busy(u) /\ dev'[u] = dev[u]
      BY <1>5, <1>6, <2>1 DEF Busy, Parted, Same
    <3>2. dev[u] = NULL \/ dev[u] \in 1..made
      BY <3>1, BusyDev DEF Good
    <3>. QED  BY <1>3, <3>1, <3>2 DEF NULL
  <2>. QED  BY <1>3, <2>1 DEF Good, Apart
<1>10. Phase'
  BY <1>5 DEF Phase, Creating, Emptied, Unmaking
<1>11. Finds'
  <2>1. ChardevAssumption
    BY ChardevAssumption
  <2>. QED  BY <1>2, <1>4, <2>1, FindsKept DEF Good
<1>. QED  BY <1>7, <1>8, <1>9, <1>10, <1>11 DEF Good

\* The caller frees its private data when no device has been made, or when the device is
\* gone and there is no function that frees them.
LEMMA GivesUpGood ==
  ASSUME Types, Good, Same, NEW t \in Worker, NEW l \in {"not_made", "idle"},
         pc[t] \in Making \/ (Parted(t) /\ t \in Prober), t = Loader => l = "not_made",
         Goto(t, l), freed' = freed \cup {dev[t]}, dev' = [dev EXCEPT ![t] = NULL],
         UNCHANGED <<items, registered, minor, refs, attached, made>>,
         at' = at
  PROVE  Good'
<1>1. t \in Thread /\ Busy(t)
  BY DEF Worker, Thread, Busy
<1>2. pc'[t] = l /\ OnlyMoves(t)
      /\ (t # Loader => pc'[Loader] = pc[Loader] /\ (Unloading' <=> Unloading))
  BY <1>1, Moves
<1>3. ~Unloading /\ ~Unloading'
  <2>1. CASE t \in Prober /\ t # Loader
    BY <1>1, <1>2, <2>1, BusyProber DEF Good
  <2>2. CASE t = Loader
    BY <1>2, <2>2, ChardevAssumption DEF Unloading, Making
  <2>. QED  BY <2>1, <2>2 DEF Worker
<1>4. \A u \in Worker \ {t} : pc'[u] = pc[u] /\ dev'[u] = dev[u] /\ at'[u] = at[u]
  BY <1>2 DEF OnlyMoves, Worker, Thread
<1>5. freed' = freed \cup {dev[t]} /\ dev[t] \in 1..made /\ dev[t] \notin registered
  BY DEF Good, Works, Work
<1>6. Devices'
  <2>1. ASSUME NEW d \in registered
        PROVE  Listed(d)' \/ \E u \in Worker : dev'[u] = d /\ pc'[u] \in Unmaking \cup {"store"}
    <3>1. Listed(d) \/ \E u \in Worker : dev[u] = d /\ pc[u] \in Unmaking \cup {"store"}
      BY DEF Good, Devices
    <3>2. CASE Listed(d)
      BY <3>2 DEF Listed
    <3>3. CASE \E u \in Worker : dev[u] = d /\ pc[u] \in Unmaking \cup {"store"}
      BY <1>4, <3>3 DEF Unmaking, Making, Parted
    <3>. QED  BY <3>1, <3>2, <3>3
  <2>2. ASSUME NEW d \in 1..made
        PROVE  d \in freed' \cup registered \/ \E u \in Worker : Owns(u, d)'
    <3>1. d \in freed \cup registered \/ \E u \in Worker : Owns(u, d)
      BY DEF Good, Devices
    <3>2. CASE d = dev[t]
      BY <1>5, <3>2
    <3>3. CASE d # dev[t]
      <4>1. ~Owns(t, d)
        BY <3>3 DEF Owns
      <4>. QED  BY <1>2, <1>5, <3>1, <4>1, OthersOwn
    <3>. QED  BY <3>2, <3>3
  <2>3. ASSUME NEW i \in Index, items'[i] # NULL
        PROVE  Item(i)'
    <3>1. Item(i)
      BY <2>3 DEF Good, Devices
    <3>. QED  BY <1>5, <3>1 DEF Item
  <2>4. /\ registered' \subseteq 1..made' /\ freed' \subseteq 1..made'
        /\ free_privdata' => attached' \subseteq registered'
        /\ ~free_privdata' => freed' \cap registered' = {}
    <3>1. /\ registered \subseteq 1..made /\ freed \subseteq 1..made
          /\ free_privdata' => attached \subseteq registered
          /\ ~free_privdata' => freed \cap registered = {}
      BY DEF Good, Devices, Same
    <3>2. freed' \subseteq 1..made
      BY <1>5, <3>1
    <3>3. freed \cap registered = {} => freed' \cap registered = {}
      BY <1>5
    <3>. QED  BY <3>1, <3>2, <3>3
  <2>5. /\ \A d \in registered' : minor'[d] \in Index /\ refs'[d] >= 1
        /\ \A d, e \in registered' : minor'[d] = minor'[e] => d = e
    BY DEF Good, Devices
  <2>. QED  BY <2>1, <2>2, <2>3, <2>4, <2>5 DEF Devices
<1>7. Works'
  <2>1. ASSUME NEW u \in Worker, u # t
        PROVE  Work(u)'
    <3>1. \A d \in Made : refs[d] \in Nat /\ refs'[d] >= refs[d]
      BY DEF Types
    <3>2. refs' \in [Made -> Nat]
      BY DEF Types
    <3>3. \A d \in Made : d # dev[t] => (d \in freed' <=> d \in freed)
      BY <1>5
    <3>4. Devices /\ Works /\ Apart
      BY DEF Good
    <3>. QED  BY <1>1, <1>2, <1>3, <2>1, <3>1, <3>2, <3>3, <3>4, OthersWork
  <2>2. Work(t)'
    BY <1>2 DEF Work, Parted, Making, Unmaking
  <2>. QED  BY <2>1, <2>2 DEF Works
<1>8. Apart'
  <2>1. ~Busy(t)'
    BY <1>2 DEF Busy, Parted, Making, Unmaking
  <2>. QED  BY <1>2, <1>3, <2>1, ApartKept DEF Good
<1>9. Phase'
  <2>1. CASE t = Loader
    BY <1>2, <1>3, <2>1 DEF Phase, Creating, Unmaking, Emptied
  <2>2. CASE t # Loader
    BY <1>1, <1>2, <2>2, PhaseKept DEF Worker, Good
  <2>. QED  BY <2>1, <2>2
<1>10. Finds'
  BY <1>2, FindsKept, ChardevAssumption DEF Good
<1>. QED  BY <1>6, <1>7, <1>8, <1>9, <1>10 DEF Good

LEMMA MakeFailsGood ==
  ASSUME Types, Good, Same, NEW t \in Worker, pc[t] \in Making, MakeFails(t),
         UNCHANGED <<items, registered, minor, refs, attached, made>>,
         at' = at
  PROVE  Good'
BY GivesUpGood DEF MakeFails

\* A step of a busy thread that changes nothing but its own item.
LEMMA BusyStep ==
  ASSUME Types, Good, Same, NEW t \in Worker, Busy(t), OnlyMoves(t), Unloading => Unloading',
         made' = made,
         \A d \in Made : d # dev[t] =>
            /\ d \in registered' <=> d \in registered
            /\ d \in attached' <=> d \in attached
            /\ d \in freed' <=> d \in freed
            /\ minor'[d] = minor[d] /\ refs'[d] >= refs[d],
         \A d \in Made : refs[d] >= 1 => refs'[d] >= 1,
         \/ items' = items
         \/ dev[t] \in registered /\ \A i \in Index \ {minor[dev[t]]} : items'[i] = items[i],
         refs' \in [Made -> Nat],
         Devices', Work(t)', Busy(t)' => dev'[t] = dev[t], t = Loader => Phase'
  PROVE  Good'
<1>1. \A u \in Worker : u # t => Work(u)'
  BY OthersWork DEF Good
<1>2. Works'
  BY <1>1 DEF Works
<1>3. Apart'
  BY ApartKept DEF Good
<1>4. Phase'
  BY PhaseKept DEF Good, Worker
<1>5. Finds'
  BY FindsKept, ChardevAssumption DEF Good
<1>. QED  BY <1>2, <1>3, <1>4, <1>5 DEF Good

\* The devices are as they were, and so is what t does with its own.
LEMMA DevicesKept ==
  ASSUME Devices, Same, NEW t \in Worker, OnlyMoves(t),
         UNCHANGED <<items, registered, attached, minor, made>>,
         \A d \in registered : refs[d] >= 1 => refs'[d] >= 1,
         freed' = freed, \A d : Owns(t, d) => Owns(t, d)',
         pc[t] \in Unmaking \cup {"store"} =>
           pc'[t] \in Unmaking \cup {"store"} /\ dev'[t] = dev[t]
  PROVE  Devices'
<1>1. \A u \in Worker : u # t => pc'[u] = pc[u] /\ dev'[u] = dev[u]
  BY DEF OnlyMoves, Worker, Thread
<1>2. ASSUME NEW d \in registered
      PROVE  Listed(d)' \/ \E u \in Worker : dev'[u] = d /\ pc'[u] \in Unmaking \cup {"store"}
  <2>1. Listed(d) \/ \E u \in Worker : dev[u] = d /\ pc[u] \in Unmaking \cup {"store"}
    BY DEF Devices
  <2>2. Listed(d)' <=> Listed(d)
    BY DEF Listed
  <2>. QED  BY <1>1, <2>1, <2>2
<1>3. ASSUME NEW d \in 1..made
      PROVE  d \in freed' \cup registered \/ \E u \in Worker : Owns(u, d)'
  <2>1. d \in freed \cup registered \/ \E u \in Worker : Owns(u, d)
    BY DEF Devices
  <2>. QED  BY <2>1, OthersOwn
<1>4. \A i \in Index : items'[i] # NULL => Item(i)'
  BY DEF Devices, Item
<1>. QED  BY <1>2, <1>3, <1>4 DEF Devices, Same

\* References only grow here.
LEMMA MoreReferences ==
  ASSUME Types, NEW d \in Made, TakeReference(d)
  PROVE  /\ refs' \in [Made -> Nat] /\ refs'[d] = refs[d] + 1
         /\ \A e \in Made : refs'[e] >= refs[e] /\ (refs[e] >= 1 => refs'[e] >= 1)
<1>1. refs \in [Made -> Nat] /\ refs' = [refs EXCEPT ![d] = @ + 1]
  BY DEF Types, TakeReference
<1>2. \A e \in Made : refs[e] \in Nat /\ refs'[e] = IF e = d THEN refs[e] + 1 ELSE refs[e]
  BY <1>1
<1>3. refs' \in [Made -> Nat]
  BY <1>1
<1>4. \A n \in Nat : n >= n /\ n + 1 >= n /\ (n >= 1 => n + 1 >= 1)
  OBVIOUS
<1>5. ASSUME NEW e \in Made
      PROVE  refs'[e] >= refs[e] /\ (refs[e] >= 1 => refs'[e] >= 1)
  BY <1>2, <1>4
<1>. QED  BY <1>2, <1>3, <1>5

LEMMA SameReferences ==
  ASSUME Types, refs' = refs
  PROVE  /\ refs' \in [Made -> Nat]
         /\ \A e \in Made : refs'[e] >= refs[e] /\ (refs[e] >= 1 => refs'[e] >= 1)
<1>1. refs \in [Made -> Nat]
  BY DEF Types
<1>2. \A n \in Nat : n >= n
  OBVIOUS
<1>. QED  BY <1>1, <1>2

LEMMA ScanGood ==
  ASSUME Types, Good, Same, NEW t \in Worker, Scan(t)
  PROVE  Good'
<1>1. t \in Thread /\ pc[t] = "scan" /\ Busy(t) /\ at[t] \in 0..max_items /\ max_items \in Nat
  BY ChardevAssumption DEF Scan, Worker, Thread, Busy, Making, Types
<1>2. ~Unloading
  BY <1>1, BusyProber DEF Good, Worker, Unloading
<1>3. UNCHANGED <<items, registered, minor, attached, made>>
  BY DEF Scan
<1>4. CASE MakeFails(t) /\ UNCHANGED <<refs, at>>
  BY <1>1, <1>3, <1>4, MakeFailsGood DEF Making
<1>5. CASE /\ at[t] < max_items
           /\ Goto(t, "device_create") /\ UNCHANGED <<refs, freed, at, dev>>
  <2>1. pc'[t] = "device_create" /\ OnlyMoves(t)
    BY <1>1, <1>5, Moves
  <2>2. at[t] \in Index
    BY <1>1, <1>5 DEF Index
  <2>3. Work(t)'
    <3>1. dev[t] \in 1..made /\ dev[t] \notin registered \cup freed
      BY <1>1 DEF Good, Works, Work, Making
    <3>. QED  BY <1>3, <1>5, <2>1, <2>2, <3>1 DEF Work, Parted, Making, Unmaking
  <2>4. Devices'
    <3>1. \A d \in registered : refs[d] >= 1 => refs'[d] >= 1
      BY <1>5
    <3>2. Devices /\ freed' = freed /\ \A d : Owns(t, d) => Owns(t, d)'
      BY <1>5, <2>1 DEF Good, Owns, Making
    <3>. QED  BY <1>1, <1>3, <1>5, <2>1, <3>1, <3>2, DevicesKept DEF Making, Unmaking
  <2>5. ~Unloading' /\ (t = Loader => Phase')
    BY <1>1, <1>2, <2>1 DEF Phase, OnlyMoves, Unloading, Creating, Unmaking, Emptied, Thread
  <2>. QED  BY <1>1, <1>2, <1>3, <1>5, <2>1, <2>3, <2>4, <2>5, SameReferences, BusyStep
<1>6. CASE /\ \E d \in AtMinor(at[t]) : TakeReference(d)
           /\ at' = [at EXCEPT ![t] = @ + 1] /\ UNCHANGED <<pc, freed, dev>>
  <2>1. pc'[t] = "scan" /\ OnlyMoves(t)
    BY <1>1, <1>6 DEF OnlyMoves, Types
  <2>2. PICK d \in registered : TakeReference(d)
    BY <1>6 DEF AtMinor
  <2>3. /\ refs' \in [Made -> Nat]
        /\ \A e \in Made : refs'[e] >= refs[e] /\ (refs[e] >= 1 => refs'[e] >= 1)
    <3>1. d \in Made
      BY DEF Types
    <3>. QED  BY <2>2, <3>1, MoreReferences
  <2>4. Work(t)'
    <3>1. dev[t] \in 1..made /\ dev[t] \notin registered \cup freed
      BY <1>1 DEF Good, Works, Work, Making
    <3>. QED  BY <1>3, <1>6, <2>1, <3>1 DEF Work, Parted, Making, Unmaking
  <2>5. Devices'
    <3>1. \A e \in registered : refs[e] >= 1 => refs'[e] >= 1
      BY <2>3 DEF Types
    <3>2. Devices /\ freed' = freed /\ \A e : Owns(t, e) => Owns(t, e)'
      BY <1>6, <2>1 DEF Good, Owns, Making
    <3>. QED  BY <1>1, <1>3, <1>6, <2>1, <3>1, <3>2, DevicesKept DEF Making, Unmaking
  <2>6. ~Unloading' /\ (t = Loader => Phase')
    BY <1>1, <1>2, <1>6, <2>1 DEF Phase, OnlyMoves, Unloading, Creating, Unmaking, Emptied, Thread
  <2>. QED  BY <1>1, <1>2, <1>3, <1>6, <2>1, <2>3, <2>4, <2>5, <2>6, BusyStep
<1>. QED  BY <1>4, <1>5, <1>6 DEF Scan

LEMMA DeviceCreateGood ==
  ASSUME Types, Good, Same, NEW t \in Worker, DeviceCreate(t)
  PROVE  Good'
<1>1. t \in Thread /\ pc[t] = "device_create" /\ Busy(t)
  BY DEF DeviceCreate, Worker, Thread, Busy, Making
<1>2. ~Unloading
  BY <1>1, BusyProber DEF Good, Worker, Unloading
<1>3. UNCHANGED <<items, made, at>>
  BY DEF DeviceCreate
<1>4. CASE MakeFails(t) /\ UNCHANGED <<registered, minor, refs, attached>>
  BY <1>1, <1>3, <1>4, MakeFailsGood DEF Making
<1>5. CASE /\ AtMinor(at[t]) = {}
           /\ registered' = registered \cup {dev[t]}
           /\ attached' = attached \cup {dev[t]}
           /\ minor' = [minor EXCEPT ![dev[t]] = at[t]]
           /\ refs' = [refs EXCEPT ![dev[t]] = 1]
           /\ Goto(t, "store") /\ UNCHANGED <<freed, dev>>
  <2>. DEFINE new == dev[t]
  <2>1. pc'[t] = "store" /\ OnlyMoves(t)
    BY <1>1, <1>3, <1>5, Moves
  <2>2. new \in 1..made /\ new \notin registered \cup freed /\ at[t] \in Index
    BY <1>1 DEF Good, Works, Work, Making
  <2>3. new \in Made /\ new # NULL
    BY <2>2, ChardevAssumption DEF Types, Made, NULL
  <2>4. /\ \A d \in Made : minor'[d] = IF d = new THEN at[t] ELSE minor[d]
        /\ \A d \in Made : refs'[d] = IF d = new THEN 1 ELSE refs[d]
        /\ refs' \in [Made -> Nat] /\ \A d \in Made : refs[d] \in Nat
    BY <1>5, <2>3 DEF Types
  <2>5. registered \subseteq Made
    BY DEF Types
  <2>. HIDE DEF new
  <2>6. \A d \in registered : minor[d] # at[t]
    BY <1>5 DEF AtMinor
  <2>7. items[at[t]] = NULL
    BY <2>2, <2>6 DEF Good, Devices, Item
  <2>8. \A d \in registered : d # new /\ minor'[d] = minor[d] /\ refs'[d] = refs[d]
    BY <2>2, <2>4, <2>5
  <2>9. Devices'
    <3>1. /\ registered' \subseteq 1..made /\ freed' \subseteq 1..made
          /\ free_privdata' => attached' \subseteq registered'
          /\ ~free_privdata' => freed' \cap registered' = {}
      <4>1. /\ registered \subseteq 1..made /\ freed \subseteq 1..made
            /\ free_privdata' => attached \subseteq registered
            /\ ~free_privdata' => freed \cap registered = {}
        BY DEF Good, Devices, Same
      <4>2. /\ registered' = registered \cup {new} /\ attached' = attached \cup {new}
            /\ freed' = freed
        BY <1>5 DEF new
      <4>3. registered' \subseteq 1..made /\ freed' \subseteq 1..made
        BY <2>2, <4>1, <4>2
      <4>4. attached \subseteq registered => attached' \subseteq registered'
        BY <4>2
      <4>5. freed \cap registered = {} => freed' \cap registered' = {}
        BY <2>2, <4>2
      <4>. QED  BY <4>1, <4>3, <4>4, <4>5
    <3>2. \A d \in registered' : minor'[d] \in Index /\ refs'[d] >= 1
      <4>1. \A d \in registered : minor'[d] \in Index /\ refs'[d] >= 1
        BY <2>8 DEF Good, Devices
      <4>2. minor'[new] \in Index /\ refs'[new] >= 1
        BY <2>2, <2>3, <2>4
      <4>. QED  BY <1>5, <4>1, <4>2 DEF new
    <3>3. \A d, e \in registered' : minor'[d] = minor'[e] => d = e
      <4>1. \A d, e \in registered : minor'[d] = minor'[e] => d = e
        BY <2>8 DEF Good, Devices
      <4>2. \A d \in registered : minor'[d] # minor'[new]
        BY <2>3, <2>4, <2>6, <2>8
      <4>3. \A d \in registered' : d \in registered \/ d = new
        BY <1>5 DEF new
      <4>. QED  BY <4>1, <4>2, <4>3
    <3>4. \A i \in Index : items'[i] # NULL => Item(i)'
      <4>1. \A i \in Index : items[i] # NULL => Item(i)
        BY DEF Good, Devices
      <4>. QED  BY <1>3, <1>5, <2>8, <4>1 DEF Item
    <3>5. ASSUME NEW d \in registered'
          PROVE  Listed(d)' \/ \E u \in Worker : dev'[u] = d /\ pc'[u] \in Unmaking \cup {"store"}
      <4>1. CASE d = new
        BY <1>5, <2>1, <4>1 DEF new
      <4>2. CASE d \in registered
        <5>1. Listed(d) \/ \E u \in Worker : dev[u] = d /\ pc[u] \in Unmaking \cup {"store"}
          BY <4>2 DEF Good, Devices
        <5>2. CASE Listed(d)
          BY <1>3, <2>8, <3>5, <4>2, <5>2 DEF Listed
        <5>3. CASE \E u \in Worker : dev[u] = d /\ pc[u] \in Unmaking \cup {"store"}
          <6>1. PICK u \in Worker : dev[u] = d /\ pc[u] \in Unmaking \cup {"store"}
            BY <5>3
          <6>2. u # t /\ u \in Thread
            BY <1>1, <6>1 DEF Unmaking, Worker, Thread
          <6>3. pc'[u] = pc[u] /\ dev'[u] = dev[u]
            BY <2>1, <6>2 DEF OnlyMoves
          <6>. QED  BY <6>1, <6>3
        <5>. QED  BY <5>1, <5>2, <5>3
      <4>. QED  BY <1>5, <3>5, <4>1, <4>2 DEF new
    <3>6. ASSUME NEW d \in 1..made
          PROVE  d \in freed' \cup registered' \/ \E u \in Worker : Owns(u, d)'
      <4>1. d \in freed \cup registered \/ \E u \in Worker : Owns(u, d)
        BY DEF Good, Devices
      <4>2. CASE d = new
        BY <1>5, <4>2 DEF new
      <4>3. CASE d # new
        <5>1. CASE d \in freed \cup registered
          BY <1>5, <5>1
        <5>2. CASE \E u \in Worker : Owns(u, d)
          <6>1. ~Owns(t, d)
            BY <4>3 DEF new, Owns
          <6>. QED  BY <2>1, <5>2, <6>1, OthersOwn
        <5>. QED  BY <4>1, <5>1, <5>2
      <4>. QED  BY <4>2, <4>3
    <3>. QED  BY <1>3, <3>1, <3>2, <3>3, <3>4, <3>5, <3>6 DEF Devices
  <2>10. Work(t)'
    <3>1. dev'[t] = new /\ new \in registered' /\ new \in attached' /\ minor'[new] = at'[t]
          /\ items'[at'[t]] = NULL /\ new \notin freed'
      BY <1>3, <1>5, <2>2, <2>3, <2>4, <2>7 DEF new
    <3>. QED  BY <2>1, <3>1 DEF Work, Parted, Unlisted, Making, Unmaking
  <2>11. ~Unloading' /\ (t = Loader => Phase')
    BY <1>1, <1>2, <2>1 DEF Phase, OnlyMoves, Unloading, Creating, Unmaking, Emptied, Thread
  <2>12. \A d \in Made : d # dev[t] =>
            /\ d \in registered' <=> d \in registered
            /\ d \in attached' <=> d \in attached
            /\ d \in freed' <=> d \in freed
            /\ minor'[d] = minor[d] /\ refs'[d] >= refs[d]
    BY <1>5, <2>4 DEF new
  <2>13. \A d \in Made : refs[d] >= 1 => refs'[d] >= 1
    BY <2>4
  <2>. QED  BY <1>1, <1>2, <1>3, <1>5, <2>1, <2>4, <2>9, <2>10, <2>11, <2>12, <2>13, BusyStep
<1>. QED  BY <1>4, <1>5 DEF DeviceCreate

LEMMA StoreGood ==
  ASSUME Types, Good, Same, NEW t \in Worker, Store(t)
  PROVE  Good'
<1>1. t \in Thread /\ pc[t] = "store" /\ Busy(t)
  BY DEF Store, Worker, Thread, Busy
<1>2. ~Unloading
  BY <1>1, BusyProber DEF Good, Worker, Unloading
<1>3. UNCHANGED <<registered, minor, refs, attached, freed, made, at, dev>>
      /\ items' = [items EXCEPT ![at[t]] = dev[t]]
  BY DEF Store, kernel
<1>4. pc'[t] = "made" /\ OnlyMoves(t)
  BY <1>1, <1>3, Moves DEF Store
<1>5. /\ dev[t] \in registered /\ items[minor[dev[t]]] = NULL /\ dev[t] \in attached
      /\ minor[dev[t]] = at[t] /\ dev[t] \notin freed
  BY <1>1 DEF Good, Works, Work, Unlisted
<1>6. at[t] \in Index
  BY <1>5 DEF Good, Devices
<1>7. items'[at[t]] = dev[t] /\ \A i \in Index \ {at[t]} : items'[i] = items[i]
  BY <1>3, <1>6 DEF Types
<1>8. Devices'
  <2>1. ASSUME NEW d \in registered
        PROVE  Listed(d)' \/ \E u \in Worker : dev'[u] = d /\ pc'[u] \in Unmaking \cup {"store"}
    <3>1. CASE d = dev[t]
      BY <1>3, <1>5, <1>7, <3>1 DEF Listed
    <3>2. CASE d # dev[t]
      <4>1. minor[d] # at[t] /\ minor[d] \in Index
        <5>1. /\ \A e, f \in registered : minor[e] = minor[f] => e = f
              /\ \A e \in registered : minor[e] \in Index
          BY DEF Good, Devices
        <5>2. minor[d] # minor[dev[t]]
          BY <1>5, <3>2, <5>1
        <5>. QED  BY <1>5, <5>1, <5>2
      <4>2. Listed(d) \/ \E u \in Worker : dev[u] = d /\ pc[u] \in Unmaking \cup {"store"}
        BY DEF Good, Devices
      <4>3. CASE Listed(d)
        BY <1>3, <1>7, <4>1, <4>3 DEF Listed
      <4>4. CASE \E u \in Worker : dev[u] = d /\ pc[u] \in Unmaking \cup {"store"}
        BY <1>3, <1>4, <3>2, <4>4 DEF OnlyMoves, Worker, Thread
      <4>. QED  BY <4>2, <4>3, <4>4
    <3>. QED  BY <3>1, <3>2
  <2>2. ASSUME NEW d \in 1..made
        PROVE  d \in freed \cup registered \/ \E u \in Worker : Owns(u, d)'
    <3>1. d \in freed \cup registered \/ \E u \in Worker : Owns(u, d)
      BY DEF Good, Devices
    <3>2. ~Owns(t, d)
      BY <1>1 DEF Owns, Parted, Making
    <3>. QED  BY <1>4, <3>1, <3>2, OthersOwn
  <2>3. \A i \in Index : items'[i] # NULL => Item(i)'
    BY <1>3, <1>5, <1>7 DEF Good, Devices, Item
  <2>. QED  BY <1>3, <2>1, <2>2, <2>3 DEF Good, Devices, Same
<1>9. Work(t)'
  <2>1. Listed(dev[t])'
    BY <1>3, <1>5, <1>7 DEF Listed
  <2>. QED  BY <1>3, <1>4, <2>1 DEF Work, Parted, Making, Unmaking
<1>10. ~Unloading' /\ (t = Loader => Phase')
  BY <1>1, <1>2, <1>4 DEF Phase, OnlyMoves, Unloading, Creating, Unmaking, Emptied, Thread
<1>11. dev[t] \in registered /\ \A i \in Index \ {minor[dev[t]]} : items'[i] = items[i]
  BY <1>5, <1>7
<1>. QED  BY <1>1, <1>2, <1>3, <1>4, <1>8, <1>9, <1>10, <1>11, SameReferences, BusyStep

-----------------------------------------------------------------------------
(* Unmaking an item.                                                       *)

\* The scan for the minor number of a device finds that device.
LEMMA FoundAtMinor ==
  ASSUME Devices, NEW d \in registered
  PROVE  AtMinor(minor[d]) = {d}
BY DEF AtMinor, Devices

\* Only t moves, and the class, the table and the private data stay.
LEMMA QuietMove ==
  ASSUME Types, Good, Same, NEW t \in Worker, OnlyMoves(t), Unloading => Unloading',
         UNCHANGED <<items, registered, minor, refs, attached, freed, made>>,
         pc[t] \notin Making \cup Unmaking \cup {"store"}, ~Parted(t),
         Work(t)', Phase',
         (Busy(t)' => Busy(t) /\ dev'[t] = dev[t]) \/ (t = Loader /\ Unloading)
  PROVE  Good'
<1>1. Devices'
  <2>1. Devices /\ \A d : ~Owns(t, d)
    BY DEF Good, Owns
  <2>. QED  BY <2>1, DevicesKept
<1>2. Works'
  <2>1. ASSUME NEW u \in Worker, u # t
        PROVE  Work(u)'
    <3>1. Work(u) /\ pc'[u] = pc[u] /\ dev'[u] = dev[u] /\ at'[u] = at[u]
      BY <2>1 DEF Good, Works, OnlyMoves, Worker, Thread
    <3>2. (Listed(dev[u]) => Listed(dev[u])') /\ (Unlisted(dev[u]) => Unlisted(dev[u])')
      BY <3>1 DEF Listed, Unlisted
    <3>. QED  BY <3>1, <3>2, WorkKept
  <2>. QED  BY <2>1 DEF Works
<1>3. Apart'
  <2>1. CASE Busy(t)' => Busy(t) /\ dev'[t] = dev[t]
    BY <2>1, ApartKept DEF Good
  <2>2. CASE t = Loader /\ Unloading
    <3>1. \A u \in Prober : pc'[u] \in {"idle", "made"}
      BY <2>2 DEF Good, Phase, OnlyMoves, Thread, Worker
    <3>2. \A u \in Prober : ~Busy(u)'
      BY <2>2, <3>1 DEF Busy, Parted, Making, Unmaking
    <3>. QED  BY <3>2 DEF Apart, Worker
  <2>. QED  BY <2>1, <2>2
<1>4. Finds'
  <2>1. \A d \in Made : refs[d] >= 1 => refs'[d] >= 1
    OBVIOUS
  <2>. QED  BY <2>1, FindsKept, ChardevAssumption DEF Good
<1>. QED  BY <1>1, <1>2, <1>3, <1>4 DEF Good

LEMMA UnmakeGood ==
  ASSUME Types, Good, Same, NEW t \in Worker, Unmake(t)
  PROVE  Good'
<1>1. t \in Thread /\ pc[t] = "unmake" /\ Busy(t)
  BY DEF Unmake, Worker, Thread, Busy
<1>2. UNCHANGED <<items, registered, minor, attached, freed, made, at, dev>>
  BY DEF Unmake
<1>3. NULL \notin registered
  BY DEF Types, Made, NULL
<1>4. dev[t] # NULL \/ t # Loader => Listed(dev[t])
  BY <1>1 DEF Good, Works, Work
<1>5. CASE dev[t] # NULL
  <2>1. dev[t] \in registered /\ Listed(dev[t])
    BY <1>4, <1>5 DEF Listed
  <2>2. AtMinor(minor[dev[t]]) = {dev[t]}
    BY <2>1, FoundAtMinor DEF Good
  <2>3. TakeReference(dev[t]) /\ Goto(t, "clear_item")
    BY <1>5, <2>2 DEF Unmake
  <2>4. pc'[t] = "clear_item" /\ OnlyMoves(t)
    BY <1>1, <1>2, <2>3, Moves
  <2>5. dev[t] \in Made /\ refs[dev[t]] \in Nat /\ refs[dev[t]] >= 1
    BY <2>1 DEF Types, Good, Devices
  <2>6. /\ refs' \in [Made -> Nat] /\ refs'[dev[t]] = refs[dev[t]] + 1
        /\ \A e \in Made : refs'[e] >= refs[e] /\ (refs[e] >= 1 => refs'[e] >= 1)
    BY <2>3, <2>5, MoreReferences
  <2>7. Work(t)'
    <3>1. Listed(dev[t])' /\ refs'[dev'[t]] >= 2
      BY <1>2, <2>1, <2>5, <2>6 DEF Listed
    <3>. QED  BY <2>4, <3>1 DEF Work, Parted, Making, Unmaking
  <2>8. Devices'
    <3>1. \A e \in registered : refs[e] >= 1 => refs'[e] >= 1
      BY <2>6 DEF Types
    <3>2. Devices /\ freed' = freed /\ \A d : ~Owns(t, d)
      BY <1>1, <1>2 DEF Good, Owns, Parted, Making
    <3>. QED  BY <1>1, <1>2, <2>4, <3>1, <3>2, DevicesKept DEF Making, Unmaking
  <2>9. Unloading => Unloading'
    BY <1>1, <2>4 DEF OnlyMoves, Unloading, Thread
  <2>10. t = Loader => Phase'
    <3>1. ASSUME t = Loader
          PROVE  Phase'
      <4>1. Unloading
        BY <1>1, <3>1 DEF Unloading
      <4>2. /\ at'[Loader] >= 1 /\ Cleared(at[Loader] - 1)'
            /\ dev'[Loader] # NULL /\ minor'[dev'[Loader]] = at'[Loader] - 1
        BY <1>1, <1>2, <1>5, <3>1 DEF Good, Phase, Cleared
      <4>3. \A u \in Prober : pc'[u] \in {"idle", "made"}
        BY <2>4, <3>1, <4>1, ChardevAssumption DEF Good, Phase, OnlyMoves, Thread
      <4>4. free_privdata'
        BY <1>1, <3>1 DEF Good, Phase, Same
      <4>. QED  BY <2>4, <3>1, <4>2, <4>3, <4>4 DEF Phase, Creating, Unmaking, Emptied
    <3>. QED  BY <3>1
  <2>11. \A d \in Made : d # dev[t] =>
            /\ d \in registered' <=> d \in registered
            /\ d \in attached' <=> d \in attached
            /\ d \in freed' <=> d \in freed
            /\ minor'[d] = minor[d] /\ refs'[d] >= refs[d]
    BY <1>2, <2>6
  <2>. QED  BY <1>1, <1>2, <2>4, <2>6, <2>7, <2>8, <2>9, <2>10, <2>11, BusyStep
<1>6. CASE dev[t] = NULL
  <2>1. t = Loader
    BY <1>3, <1>4, <1>6 DEF Listed
  <2>2. Goto(t, "unmade") /\ refs' = refs
    BY <1>6 DEF Unmake
  <2>3. pc'[t] = "unmade" /\ OnlyMoves(t)
    BY <1>1, <1>2, <2>2, Moves
  <2>4. Unloading /\ Unloading'
    BY <1>1, <2>1, <2>3 DEF Unloading
  <2>. free_privdata /\ free_privdata'
    BY <1>1, <2>1 DEF Good, Phase, Same
  <2>5. Work(t)'
    BY <2>3 DEF Work, Parted, Making, Unmaking
  <2>6. Phase'
    <3>1. at[Loader] \in Int /\ Cleared(at[Loader] - 1) /\ items[at[Loader] - 1] = NULL
      BY <1>1, <1>6, <2>1, ChardevAssumption DEF Good, Phase, Types, Thread
    <3>2. Cleared(at[Loader])
      BY <3>1 DEF Cleared, Index
    <3>3. \A u \in Prober : pc'[u] \in {"idle", "made"}
      BY <2>1, <2>3, <2>4, ChardevAssumption DEF Good, Phase, OnlyMoves, Thread
    <3>. QED  BY <1>2, <2>1, <2>3, <3>2, <3>3 DEF Phase, Cleared, Creating, Unmaking, Emptied
  <2>7. ~Busy(t)'
    BY <2>3 DEF Busy, Parted, Making, Unmaking
  <2>. QED  BY <1>1, <1>2, <2>2, <2>3, <2>4, <2>5, <2>6, <2>7, QuietMove
            DEF Parted, Making, Unmaking
<1>. QED  BY <1>5, <1>6

\* What the loading thread relies on while it unmakes an item whose table entry is
\* cleared stays true as it goes on.
LEMMA UnmakingPhase ==
  ASSUME Types, Phase, Same, pc[Loader] \in Unmaking \cup {"dev_name"},
         pc'[Loader] \in Unmaking \cup {"dev_name", "unmade"},
         OnlyMoves(Loader), items' = items, at' = at
  PROVE  Phase'
<1>1. \A u \in Prober : pc'[u] \in {"idle", "made"}
  BY ChardevAssumption DEF Phase, OnlyMoves, Thread, Unloading, Unmaking
<1>2. Cleared(at[Loader])'
  BY DEF Phase, Cleared
<1>. QED  BY <1>1, <1>2 DEF Phase, Creating, Unmaking, Emptied, Same

\* A prober that has left its item, or goes back to rest, does not either.
LEMMA RestingPhase ==
  ASSUME Types, Phase, Same, NEW t \in Prober, pc[t] \notin {"idle", "made"}, OnlyMoves(t)
  PROVE  Phase'
<1>1. ~Unloading /\ pc[Loader] \notin Creating /\ pc'[Loader] = pc[Loader]
  BY ChardevAssumption DEF Phase, OnlyMoves, Thread
<1>2. ~Unloading'
  BY <1>1 DEF Unloading
<1>. QED  BY <1>1, <1>2, UnloadingLabels DEF Phase, Unloading, Unmaking, Emptied, Same

LEMMA ClearItemGood ==
  ASSUME Types, Good, Same, NEW t \in Worker, ClearItem(t)
  PROVE  Good'
<1>1. t \in Thread /\ pc[t] = "clear_item" /\ Busy(t)
  BY DEF ClearItem, Worker, Thread, Busy
<1>2. UNCHANGED <<registered, minor, refs, attached, freed, made, at, dev>>
      /\ items' = [items EXCEPT ![minor[dev[t]]] = NULL]
  BY DEF ClearItem, kernel
<1>3. pc'[t] = (IF free_privdata THEN "free_privdata" ELSE "device_destroy") /\ OnlyMoves(t)
  BY <1>1, <1>2, Moves DEF ClearItem
<1>4. dev[t] \in registered /\ items[minor[dev[t]]] = dev[t] /\ refs[dev[t]] >= 2
  BY <1>1 DEF Good, Works, Work, Listed
<1>5. minor[dev[t]] \in Index /\ dev[t] # NULL
  <2>1. NULL \notin registered
    BY DEF Types, Made, NULL
  <2>. QED  BY <1>4, <2>1 DEF Good, Devices
<1>6. dev[t] \in attached
  BY <1>4, <1>5 DEF Good, Devices, Item
<1>7. items'[minor[dev[t]]] = NULL /\ \A i \in Index \ {minor[dev[t]]} : items'[i] = items[i]
  BY <1>2, <1>5 DEF Types
<1>8. Devices'
  <2>1. ASSUME NEW d \in registered
        PROVE  Listed(d)' \/ \E u \in Worker : dev'[u] = d /\ pc'[u] \in Unmaking \cup {"store"}
    <3>1. CASE d = dev[t]
      BY <1>2, <1>3, <3>1 DEF Unmaking
    <3>2. CASE d # dev[t]
      <4>1. minor[d] # minor[dev[t]] /\ minor[d] \in Index
        <5>1. /\ \A e, f \in registered : minor[e] = minor[f] => e = f
              /\ \A e \in registered : minor[e] \in Index
          BY DEF Good, Devices
        <5>. QED  BY <1>4, <3>2, <5>1
      <4>2. Listed(d) \/ \E u \in Worker : dev[u] = d /\ pc[u] \in Unmaking \cup {"store"}
        BY DEF Good, Devices
      <4>3. CASE Listed(d)
        BY <1>2, <1>7, <4>1, <4>3 DEF Listed
      <4>4. CASE \E u \in Worker : dev[u] = d /\ pc[u] \in Unmaking \cup {"store"}
        BY <1>2, <1>3, <3>2, <4>4 DEF OnlyMoves, Worker, Thread
      <4>. QED  BY <4>2, <4>3, <4>4
    <3>. QED  BY <3>1, <3>2
  <2>2. ASSUME NEW d \in 1..made
        PROVE  d \in freed \cup registered \/ \E u \in Worker : Owns(u, d)'
    <3>1. d \in freed \cup registered \/ \E u \in Worker : Owns(u, d)
      BY DEF Good, Devices
    <3>2. ~Owns(t, d)
      BY <1>1 DEF Owns, Parted, Making
    <3>. QED  BY <1>3, <3>1, <3>2, OthersOwn
  <2>3. \A i \in Index : items'[i] # NULL => Item(i)'
    BY <1>2, <1>5, <1>7 DEF Good, Devices, Item
  <2>. QED  BY <1>2, <2>1, <2>2, <2>3 DEF Good, Devices, Same
<1>9. Work(t)'
  <2>1. Unlisted(dev[t])'
    BY <1>2, <1>4, <1>7 DEF Unlisted
  <2>. QED  BY <1>2, <1>3, <1>4, <1>6, <2>1 DEF Work, Parted, Making, Unmaking, Same
<1>10. Unloading => Unloading'
  BY <1>1, <1>3 DEF OnlyMoves, Unloading, Thread
<1>11. t = Loader => Phase'
  <2>1. ASSUME t = Loader
        PROVE  Phase'
    <3>1. \A u \in Prober : pc'[u] \in {"idle", "made"}
      BY <1>1, <1>3, <2>1, ChardevAssumption DEF Good, Phase, OnlyMoves, Thread, Unloading
    <3>2. at[Loader] \in Int /\ Cleared(at[Loader] - 1) /\ minor[dev[Loader]] = at[Loader] - 1
      BY <1>1, <1>5, <2>1, ChardevAssumption DEF Good, Phase, Types
    <3>3. Cleared(at[Loader])'
      <4>1. ASSUME NEW i \in Index, i < at[Loader]
            PROVE  items'[i] = NULL
        <5>1. CASE i = at[Loader] - 1
          BY <1>7, <2>1, <3>2, <5>1
        <5>2. CASE i # at[Loader] - 1
          <6>1. i < at[Loader] - 1
            BY <3>2, <4>1, <5>2 DEF Index
          <6>. QED  BY <1>7, <2>1, <3>2, <5>2, <6>1 DEF Cleared
        <5>. QED  BY <5>1, <5>2
      <4>. QED  BY <1>2, <4>1 DEF Cleared
    <3>4. free_privdata'
      BY <1>1, <2>1 DEF Good, Phase, Same
    <3>. QED  BY <1>3, <2>1, <3>1, <3>3, <3>4 DEF Phase, Creating, Unmaking, Emptied, Same
  <2>. QED  BY <2>1
<1>. QED  BY <1>1, <1>2, <1>3, <1>4, <1>7, <1>8, <1>9, <1>10, <1>11, SameReferences, BusyStep

LEMMA FreePrivdataGood ==
  ASSUME Types, Good, Same, NEW t \in Worker, FreePrivdata(t)
  PROVE  Good'
<1>1. t \in Thread /\ pc[t] = "free_privdata" /\ Busy(t)
  BY DEF FreePrivdata, Worker, Thread, Busy, Unmaking
<1>2. UNCHANGED <<items, registered, minor, refs, attached, made, at, dev>>
  BY DEF FreePrivdata
<1>3. pc'[t] = "clear_privdata" /\ OnlyMoves(t)
  BY <1>1, <1>2, Moves DEF FreePrivdata
<1>4. Unlisted(dev[t]) /\ dev[t] \in attached /\ refs[dev[t]] >= 2 /\ free_privdata
  BY <1>1 DEF Good, Works, Work, Unmaking
<1>5. freed' = freed \cup {dev[t]}
  BY <1>4 DEF FreePrivdata
<1>6. Devices'
  <2>1. \A u \in Worker : pc[u] \in Unmaking \cup {"store"} =>
          dev'[u] = dev[u] /\ pc'[u] \in Unmaking \cup {"store"}
    BY <1>1, <1>2, <1>3 DEF OnlyMoves, Worker, Thread, Unmaking
  <2>2. ASSUME NEW d \in registered
        PROVE  Listed(d)' \/ \E u \in Worker : dev'[u] = d /\ pc'[u] \in Unmaking \cup {"store"}
    <3>1. Listed(d) \/ \E u \in Worker : dev[u] = d /\ pc[u] \in Unmaking \cup {"store"}
      BY DEF Good, Devices
    <3>2. Listed(d)' <=> Listed(d)
      BY <1>2 DEF Listed
    <3>. QED  BY <2>1, <3>1, <3>2
  <2>3. ASSUME NEW d \in 1..made
        PROVE  d \in freed' \cup registered \/ \E u \in Worker : Owns(u, d)'
    <3>1. d \in freed \cup registered \/ \E u \in Worker : Owns(u, d)
      BY DEF Good, Devices
    <3>2. ~Owns(t, d)
      BY <1>1 DEF Owns, Parted, Making
    <3>. QED  BY <1>3, <1>5, <3>1, <3>2, OthersOwn
  <2>4. ASSUME NEW i \in Index, items[i] # NULL
        PROVE  Item(i)'
    <3>1. Item(i)
      BY <2>4 DEF Good, Devices
    <3>2. items[i] # dev[t]
      BY <1>4, <2>4, <3>1 DEF Item, Unlisted
    <3>. QED  BY <1>2, <1>5, <3>1, <3>2 DEF Item
  <2>5. freed' \subseteq 1..made
    BY <1>4, <1>5 DEF Good, Devices, Unlisted
  <2>. QED  BY <1>2, <1>4, <2>2, <2>3, <2>4, <2>5 DEF Good, Devices, Same
<1>7. Work(t)'
  <2>1. Unlisted(dev[t])'
    BY <1>2, <1>4 DEF Unlisted
  <2>. QED  BY <1>2, <1>3, <1>4, <1>5, <2>1 DEF Work, Parted, Making, Unmaking, Same
<1>8. Unloading => Unloading'
  BY <1>1, <1>3 DEF OnlyMoves, Unloading, Thread
<1>9. t = Loader => Phase'
  BY <1>1, <1>2, <1>3, UnmakingPhase DEF Good, Unmaking
<1>. QED  BY <1>1, <1>2, <1>3, <1>5, <1>6, <1>7, <1>8, <1>9, SameReferences, BusyStep

LEMMA ClearPrivdataGood ==
  ASSUME Types, Good, Same, NEW t \in Worker, ClearPrivdata(t)
  PROVE  Good'
<1>1. t \in Thread /\ pc[t] = "clear_privdata" /\ Busy(t)
  BY DEF ClearPrivdata, Worker, Thread, Busy, Unmaking
<1>2. UNCHANGED <<items, registered, minor, refs, freed, made, at, dev>>
      /\ attached' = attached \ {dev[t]}
  BY DEF ClearPrivdata
<1>3. pc'[t] = "device_destroy" /\ OnlyMoves(t)
  BY <1>1, <1>2, Moves DEF ClearPrivdata
<1>4. Unlisted(dev[t]) /\ dev[t] \in freed /\ refs[dev[t]] >= 2 /\ free_privdata
  BY <1>1 DEF Good, Works, Work, Unmaking
<1>5. Devices'
  <2>1. \A u \in Worker : pc[u] \in Unmaking \cup {"store"} =>
          dev'[u] = dev[u] /\ pc'[u] \in Unmaking \cup {"store"}
    BY <1>1, <1>2, <1>3 DEF OnlyMoves, Worker, Thread, Unmaking
  <2>2. ASSUME NEW d \in registered
        PROVE  Listed(d)' \/ \E u \in Worker : dev'[u] = d /\ pc'[u] \in Unmaking \cup {"store"}
    <3>1. Listed(d) \/ \E u \in Worker : dev[u] = d /\ pc[u] \in Unmaking \cup {"store"}
      BY DEF Good, Devices
    <3>2. Listed(d)' <=> Listed(d)
      BY <1>2 DEF Listed
    <3>. QED  BY <2>1, <3>1, <3>2
  <2>3. ASSUME NEW d \in 1..made
        PROVE  d \in freed \cup registered \/ \E u \in Worker : Owns(u, d)'
    <3>1. d \in freed \cup registered \/ \E u \in Worker : Owns(u, d)
      BY DEF Good, Devices
    <3>2. ~Owns(t, d)
      BY <1>1 DEF Owns, Parted, Making
    <3>. QED  BY <1>3, <3>1, <3>2, OthersOwn
  <2>4. ASSUME NEW i \in Index, items[i] # NULL
        PROVE  Item(i)'
    <3>1. Item(i)
      BY <2>4 DEF Good, Devices
    <3>2. items[i] # dev[t]
      BY <1>4, <2>4, <3>1 DEF Item, Unlisted
    <3>. QED  BY <1>2, <3>1, <3>2 DEF Item
  <2>5. attached' \subseteq registered'
    BY <1>2, <1>4 DEF Good, Devices
  <2>. QED  BY <1>2, <1>4, <2>2, <2>3, <2>4, <2>5 DEF Good, Devices, Same
<1>6. Work(t)'
  <2>1. Unlisted(dev[t])'
    BY <1>2, <1>4 DEF Unlisted
  <2>. QED  BY <1>2, <1>3, <1>4, <2>1 DEF Work, Parted, Making, Unmaking
<1>7. Unloading => Unloading'
  BY <1>1, <1>3 DEF OnlyMoves, Unloading, Thread
<1>8. t = Loader => Phase'
  BY <1>1, <1>2, <1>3, UnmakingPhase DEF Good, Unmaking
<1>. QED  BY <1>1, <1>2, <1>3, <1>5, <1>6, <1>7, <1>8, SameReferences, BusyStep

LEMMA DeviceDestroyGood ==
  ASSUME Types, Good, Same, NEW t \in Worker, DeviceDestroy(t)
  PROVE  Good'
<1>1. t \in Thread /\ pc[t] = "device_destroy" /\ Busy(t)
  BY DEF DeviceDestroy, Worker, Thread, Busy, Unmaking
<1>2. UNCHANGED <<items, minor, attached, freed, made, at, dev>>
  BY DEF DeviceDestroy
<1>3. pc'[t] = "dev_name" /\ OnlyMoves(t)
  BY <1>1, <1>2, Moves DEF DeviceDestroy
<1>4. /\ dev[t] \in registered /\ items[minor[dev[t]]] = NULL /\ refs[dev[t]] >= 2
      /\ free_privdata => dev[t] \in freed /\ dev[t] \notin attached
  BY <1>1 DEF Good, Works, Work, Unmaking, Unlisted
<1>5. AtMinor(minor[dev[t]]) = {dev[t]}
  BY <1>4, FoundAtMinor DEF Good
<1>6. registered' = registered \ {dev[t]} /\ refs' = [refs EXCEPT ![dev[t]] = @ - 1]
  BY <1>5 DEF DeviceDestroy
<1>7. dev[t] \in Made /\ registered \subseteq Made
  BY <1>4 DEF Types
<1>8. /\ refs' \in [Made -> Nat] /\ refs'[dev[t]] >= 1
      /\ \A d \in Made : refs[d] \in Nat /\ (d # dev[t] => refs'[d] = refs[d])
  <2>1. refs \in [Made -> Nat]
    BY DEF Types
  <2>2. refs[dev[t]] - 1 \in Nat /\ refs[dev[t]] - 1 >= 1
    BY <1>4, <1>7, <2>1
  <2>. QED  BY <1>6, <1>7, <2>1, <2>2
<1>9. Devices'
  <2>1. \A u \in Worker : u # t => pc'[u] = pc[u] /\ dev'[u] = dev[u]
    BY <1>3 DEF OnlyMoves, Worker, Thread
  <2>2. ASSUME NEW d \in registered'
        PROVE  Listed(d)' \/ \E u \in Worker : dev'[u] = d /\ pc'[u] \in Unmaking \cup {"store"}
    <3>1. d \in registered /\ d # dev[t]
      BY <1>6, <2>2
    <3>2. Listed(d) \/ \E u \in Worker : dev[u] = d /\ pc[u] \in Unmaking \cup {"store"}
      BY <3>1 DEF Good, Devices
    <3>3. Listed(d)' <=> Listed(d)
      BY <1>2, <2>2, <3>1 DEF Listed
    <3>. QED  BY <2>1, <3>1, <3>2, <3>3
  <2>3. ASSUME NEW d \in 1..made
        PROVE  d \in freed \cup registered' \/ \E u \in Worker : Owns(u, d)'
    <3>1. d \in freed \cup registered \/ \E u \in Worker : Owns(u, d)
      BY DEF Good, Devices
    <3>2. CASE d = dev[t]
      BY <1>2, <1>3, <1>4, <3>2 DEF Owns, Parted, Same
    <3>3. CASE d # dev[t]
      <4>1. ~Owns(t, d)
        BY <3>3 DEF Owns
      <4>. QED  BY <1>3, <1>6, <3>1, <3>3, <4>1, OthersOwn
    <3>. QED  BY <3>2, <3>3
  <2>4. \A d \in registered' : minor'[d] \in Index /\ refs'[d] >= 1
    BY <1>2, <1>6, <1>7, <1>8 DEF Good, Devices
  <2>5. \A d, e \in registered' : minor'[d] = minor'[e] => d = e
    BY <1>2, <1>6 DEF Good, Devices
  <2>6. /\ registered' \subseteq 1..made /\ freed \subseteq 1..made
        /\ free_privdata' => attached \subseteq registered'
        /\ ~free_privdata' => freed \cap registered' = {}
    BY <1>4, <1>6 DEF Good, Devices, Same
  <2>7. ASSUME NEW i \in Index, items[i] # NULL
        PROVE  Item(i)'
    <3>1. Item(i)
      BY <2>7 DEF Good, Devices
    <3>2. items[i] # dev[t]
      BY <1>4, <2>7, <3>1 DEF Item
    <3>. QED  BY <1>2, <1>6, <3>1, <3>2 DEF Item
  <2>. QED  BY <1>2, <2>2, <2>3, <2>4, <2>5, <2>6, <2>7 DEF Devices
<1>10. Work(t)'
  <2>1. dev[t] \in 1..made /\ dev[t] \notin registered'
    BY <1>4, <1>6 DEF Good, Devices
  <2>. QED  BY <1>2, <1>3, <1>7, <1>8, <2>1 DEF Work, Making, Unmaking
<1>11. Unloading => Unloading'
  BY <1>1, <1>3 DEF OnlyMoves, Unloading, Thread
<1>12. t = Loader => Phase'
  BY <1>1, <1>2, <1>3, UnmakingPhase DEF Good, Unmaking
<1>13. \A d \in Made : d # dev[t] =>
            /\ d \in registered' <=> d \in registered
            /\ d \in attached' <=> d \in attached
            /\ d \in freed' <=> d \in freed
            /\ minor'[d] = minor[d] /\ refs'[d] >= refs[d]
  BY <1>2, <1>6, <1>8
<1>14. \A d \in Made : refs[d] >= 1 => refs'[d] >= 1
  BY <1>8
<1>. QED  BY <1>1, <1>2, <1>3, <1>8, <1>9, <1>10, <1>11, <1>12, <1>13, <1>14, BusyStep

\* The message at the end changes nothing.
LEMMA DevNameGood ==
  ASSUME Types, Good, Same, NEW t \in Worker, DevName(t)
  PROVE  Good'
<1>1. t \in Thread /\ pc[t] = "dev_name"
  BY DEF DevName, Worker, Thread
<1>2. UNCHANGED <<items, registered, minor, refs, attached, freed, made, at, dev>>
  BY DEF DevName, kernel
<1>3. pc'[t] = "unmade" /\ OnlyMoves(t)
  BY <1>1, <1>2, Moves DEF DevName
<1>4. Unloading => Unloading'
  BY <1>1, <1>3 DEF OnlyMoves, Unloading, Thread
<1>5. Phase'
  <2>1. CASE t = Loader
    BY <1>1, <1>2, <1>3, <2>1, UnmakingPhase DEF Good
  <2>2. CASE t # Loader
    BY <1>1, <1>2, <1>3, <2>2, RestingPhase DEF Good, Worker
  <2>. QED  BY <2>1, <2>2
<1>6. CASE free_privdata
  <2>1. Work(t)' /\ ~Busy(t)'
    BY <1>3, <1>6 DEF Work, Busy, Parted, Making, Unmaking, Same
  <2>. QED  BY <1>1, <1>2, <1>3, <1>4, <1>5, <1>6, <2>1, QuietMove DEF Parted, Making, Unmaking
<1>7. CASE ~free_privdata
  <2>1. Parted(t) /\ Parted(t)' /\ Busy(t)
    BY <1>1, <1>3, <1>7 DEF Parted, Busy, Same
  <2>2. Work(t)'
    <3>1. dev[t] \in 1..made /\ dev[t] \notin registered
      BY <2>1 DEF Good, Works, Work
    <3>. QED  BY <1>2, <1>3, <3>1 DEF Work, Making, Unmaking
  <2>3. Devices'
    <3>1. \A d : Owns(t, d) => Owns(t, d)'
      BY <1>2, <2>1 DEF Owns
    <3>2. \A d \in registered : refs[d] >= 1 => refs'[d] >= 1
      BY <1>2
    <3>. QED  BY <1>1, <1>2, <1>3, <3>1, <3>2, DevicesKept DEF Good, Making, Unmaking
  <2>. QED  BY <1>1, <1>2, <1>3, <1>4, <1>5, <2>1, <2>2, <2>3, SameReferences, BusyStep
<1>. QED  BY <1>6, <1>7

-----------------------------------------------------------------------------
(* The steps of ChardevGroup at which no item is being made or unmade, and *)
(* all of its steps together.                                              *)

\* The loading thread between items: it may go to any label at which it works on
\* none, and neither makes nor unmakes anything on the way.
LoaderRests(l) == l \notin Making \cup Unmaking \cup {"store", "made", "unmake", "clear_item",
                                                      "dev_name", "unmade"}

LEMMA LoaderMoves ==
  ASSUME Types, Good, Same, OnlyMoves(Loader), Unloading => Unloading',
         UNCHANGED <<items, registered, minor, refs, attached, freed, made>>,
         pc[Loader] \notin Making \cup Unmaking \cup {"store"},
         LoaderRests(pc'[Loader]), Phase'
  PROVE  Good'
<1>1. Work(Loader)' /\ ~Busy(Loader)'
  BY DEF LoaderRests, Work, Busy, Parted, Making, Unmaking
<1>2. ~Parted(Loader)
  BY DEF Good, Phase, Parted
<1>. QED  BY <1>1, <1>2, QuietMove DEF Worker

\* While the group is created there is nothing in it and nobody at work.
LEMMA CreatingGood ==
  ASSUME Types, Good, Same, OnlyMoves(Loader), pc[Loader] \in Creating,
         UNCHANGED <<items, registered, minor, refs, attached, freed, made>>,
         pc'[Loader] \in Creating \cup {"loaded", "end"}
  PROVE  Good'
<1>1. \A u \in Prober : pc[u] = "idle" /\ pc'[u] = "idle"
  BY ChardevAssumption DEF Good, Phase, OnlyMoves, Thread
<1>2. ~Unloading
  BY DEF Unloading, Creating
<1>3. registered = {}
  BY ChardevAssumption DEF Good, Phase, Devices
<1>4. Phase'
  <2>1. made' = 0 /\ pc'[Loader] \notin Unmaking \cup {"next_item", "dev_name", "unmade",
                                                       "unmake", "clear_item"}
    BY DEF Good, Phase, Creating, Unmaking
  <2>. QED  BY <1>1, <1>3, <2>1 DEF Phase
<1>5. LoaderRests(pc'[Loader]) /\ pc[Loader] \notin Making \cup Unmaking \cup {"store"}
  BY DEF LoaderRests, Creating, Making, Unmaking
<1>. QED  BY <1>2, <1>4, <1>5, LoaderMoves

\* The labels from which and to which chardev_group_create() goes.
LEMMA CreateSteps ==
  ASSUME Types, Good, Same, CallCreate \/ chardev_group_create
  PROVE  /\ pc[Loader] \in Creating /\ pc'[Loader] \in Creating \cup {"loaded", "end"}
         /\ OnlyMoves(Loader) /\ Good'
<1>1. /\ pc[Loader] \in Creating
      /\ \E l \in Creating \cup {"loaded", "end"} : Goto(Loader, l)
      /\ UNCHANGED <<items, registered, minor, refs, attached, freed, made, at, dev>>
  BY DEF CallCreate, chardev_group_create, Get, GiveBack, CreateReturns, Creating, kernel
<1>2. PICK l \in Creating \cup {"loaded", "end"} : Goto(Loader, l)
  BY <1>1
<1>3. pc'[Loader] = l /\ OnlyMoves(Loader)
  BY <1>1, <1>2, Moves DEF Thread
<1>. QED  BY <1>1, <1>3, CreatingGood

\* The group is destroyed once the probers have come to rest.
LEMMA StartUnloading ==
  ASSUME Types, Good, Same, free_privdata, pc[Loader] \in {"loaded", "running", "not_made"}, Goto(Loader, "next_item"),
         at' = [at EXCEPT ![Loader] = 0] \/ (at[Loader] = 0 /\ at' = at),
         UNCHANGED <<items, registered, minor, refs, attached, freed, made, dev>>,
         \A t \in Prober : pc[t] \in {"idle", "made"}
  PROVE  Good'
<1>1. pc'[Loader] = "next_item" /\ OnlyMoves(Loader)
  BY Moves DEF Thread
<1>2. at'[Loader] = 0
  BY DEF Types, Thread
<1>3. Phase'
  <2>1. Cleared(at[Loader])'
    BY <1>2 DEF Cleared, Index
  <2>2. \A t \in Prober : pc'[t] \in {"idle", "made"}
    BY <1>1, ChardevAssumption DEF OnlyMoves, Thread
  <2>. QED  BY <1>1, <2>1, <2>2 DEF Phase, Creating, Unmaking, Emptied, Same
<1>4. ~Unloading /\ LoaderRests(pc'[Loader])
  BY <1>1 DEF Unloading, LoaderRests, Making, Unmaking
<1>. QED  BY <1>1, <1>3, <1>4, LoaderMoves DEF Making, Unmaking

\* Without a function free_privdata() its items are left to the driver.
LEMMA LeaveItems ==
  ASSUME Types, Good, Same, ~free_privdata, pc[Loader] = "loaded", Goto(Loader, "class_destroy"),
         at' = [at EXCEPT ![Loader] = 0],
         UNCHANGED <<items, registered, minor, refs, attached, freed, made, dev>>,
         \A t \in Prober : pc[t] \in {"idle", "made"}
  PROVE  Good'
<1>1. pc'[Loader] = "class_destroy" /\ OnlyMoves(Loader)
  BY Moves DEF Thread
<1>2. Phase'
  <2>1. \A t \in Prober : pc'[t] \in {"idle", "made"}
    BY <1>1, ChardevAssumption DEF OnlyMoves, Thread
  <2>. QED  BY <1>1, <2>1 DEF Phase, Creating, Unmaking, Emptied, Same
<1>3. ~Unloading /\ LoaderRests(pc'[Loader])
  BY <1>1 DEF Unloading, LoaderRests, Making, Unmaking
<1>. QED  BY <1>1, <1>2, <1>3, LoaderMoves DEF Making, Unmaking

\* The loop over the items: at its end no item is left, so no device either.
LEMMA NextItemGood ==
  ASSUME Types, Good, Same, NextItem
  PROVE  Good'
<1>1. pc[Loader] = "next_item" /\ Unloading
      /\ UNCHANGED <<items, registered, minor, refs, attached, freed, made>>
  BY DEF NextItem, Unloading, kernel
<1>2. Cleared(at[Loader]) /\ at[Loader] \in 0..max_items /\ Loader \in Thread
      /\ max_items \in Nat
  BY <1>1, ChardevAssumption DEF Good, Phase, Types, Thread
<1>3. (\A u \in Prober : pc[u] \in {"idle", "made"}) /\ free_privdata /\ free_privdata'
  BY <1>1 DEF Good, Phase, Same
<1>4. CASE at[Loader] = max_items
  <2>1. Goto(Loader, "class_destroy") /\ UNCHANGED <<at, dev>>
    BY <1>4 DEF NextItem
  <2>2. pc'[Loader] = "class_destroy" /\ OnlyMoves(Loader)
    BY <1>2, <2>1, Moves
  <2>3. registered = {}
    <3>1. \A d \in registered : items[minor[d]] = NULL
      <4>1. \A d \in registered : minor[d] \in Index
        BY DEF Good, Devices
      <4>2. \A i \in Index : items[i] = NULL
        BY <1>2, <1>4 DEF Cleared, Index
      <4>. QED  BY <4>1, <4>2
    <3>2. \A d \in registered : ~Listed(d)
      <4>1. NULL \notin registered
        BY DEF Types, Made, NULL
      <4>. QED  BY <3>1, <4>1 DEF Listed
    <3>3. \A u \in Worker : pc[u] \notin Unmaking \cup {"store"}
      BY <1>1, <1>3 DEF Worker, Unmaking
    <3>. QED  BY <3>2, <3>3 DEF Good, Devices
  <2>4. \A u \in Prober : pc'[u] \in {"idle", "made"}
    BY <1>3, <2>2, ChardevAssumption DEF OnlyMoves, Thread
  <2>5. Phase'
    BY <1>1, <2>2, <2>3, <2>4 DEF Phase, Creating, Unmaking, Emptied
  <2>6. LoaderRests(pc'[Loader]) /\ Unloading'
    BY <2>2 DEF LoaderRests, Making, Unmaking, Unloading
  <2>. QED  BY <1>1, <2>2, <2>5, <2>6, LoaderMoves DEF Making, Unmaking
<1>5. CASE at[Loader] # max_items
  <2>1. /\ dev' = [dev EXCEPT ![Loader] = items[at[Loader]]]
        /\ at' = [at EXCEPT ![Loader] = @ + 1] /\ Goto(Loader, "unmake")
    BY <1>5 DEF NextItem
  <2>2. pc'[Loader] = "unmake" /\ OnlyMoves(Loader)
    BY <1>2, <2>1, Moves
  <2>3. dev'[Loader] = items[at[Loader]] /\ at'[Loader] = at[Loader] + 1 /\ at[Loader] \in Index
    BY <1>2, <1>5, <2>1 DEF Types, Index
  <2>4. dev'[Loader] # NULL => /\ dev'[Loader] \in registered
                               /\ minor[dev'[Loader]] = at[Loader]
                               /\ items[minor[dev'[Loader]]] = dev'[Loader]
    BY <2>3 DEF Good, Devices, Item
  <2>5. Work(Loader)'
    BY <1>1, <2>2, <2>4 DEF Work, Listed, Parted, Making, Unmaking
  <2>6. \A u \in Prober : pc'[u] \in {"idle", "made"}
    BY <1>3, <2>2, ChardevAssumption DEF OnlyMoves, Thread
  <2>7. Phase'
    <3>1. at'[Loader] >= 1 /\ at'[Loader] - 1 = at[Loader]
      BY <1>2, <2>3
    <3>2. Cleared(at[Loader] - 1)'
      BY <1>1, <1>2, <3>1 DEF Cleared
    <3>. QED  BY <1>1, <1>3, <2>2, <2>3, <2>4, <2>6, <3>1, <3>2
              DEF Phase, Creating, Unmaking, Emptied
  <2>8. Unloading'
    BY <2>2 DEF Unloading
  <2>. QED  BY <1>1, <2>2, <2>5, <2>7, <2>8, QuietMove DEF Parted, Making, Unmaking, Worker
<1>. QED  BY <1>4, <1>5

LEMMA ItemUnmadeGood ==
  ASSUME Types, Good, Same, ItemUnmade
  PROVE  Good'
<1>1. pc[Loader] = "unmade" /\ Unloading /\ Goto(Loader, "next_item")
      /\ UNCHANGED <<items, registered, minor, refs, attached, freed, made, at, dev>>
  BY DEF ItemUnmade, Unloading, kernel
<1>2. pc'[Loader] = "next_item" /\ OnlyMoves(Loader)
  BY <1>1, Moves DEF Thread
<1>3. Phase'
  <2>1. Cleared(at[Loader])'
    BY <1>1 DEF Good, Phase, Cleared
  <2>2. \A t \in Prober : pc'[t] \in {"idle", "made"}
    BY <1>1, <1>2, ChardevAssumption DEF Good, Phase, OnlyMoves, Thread
  <2>3. free_privdata'
    BY <1>1 DEF Good, Phase, Same
  <2>. QED  BY <1>2, <2>1, <2>2, <2>3 DEF Phase, Creating, Unmaking, Emptied
<1>4. Unloading' /\ LoaderRests(pc'[Loader])
  BY <1>2 DEF Unloading, LoaderRests, Making, Unmaking
<1>. QED  BY <1>1, <1>2, <1>3, <1>4, LoaderMoves DEF Making, Unmaking

\* What is left after the loop is given back one by one.
GivesBack ==
  \/ GiveBack("class_destroy", {"class"}, "cdev_del")
  \/ GiveBack("cdev_del", {"cdev"}, "unregister_region")
  \/ GiveBack("unregister_region", {"region"}, "kfree_items")
  \/ GiveBack("kfree_items", {"items"}, "kfree_group")
  \/ GiveBack("kfree_group", {"group"}, "destroyed")
  \/ CreateReturns("destroyed", "NULL", "end")

LEMMA GivesBackGood ==
  ASSUME Types, Good, Same, GivesBack
  PROVE  Good'
<1>1. /\ pc[Loader] \in Emptied /\ \E l \in Emptied : Goto(Loader, l)
      /\ UNCHANGED <<items, registered, minor, refs, attached, freed, made, at, dev>>
  BY DEF GivesBack, GiveBack, CreateReturns, Emptied, kernel
<1>2. PICK l \in Emptied : Goto(Loader, l)
  BY <1>1
<1>3. pc'[Loader] = l /\ OnlyMoves(Loader)
  BY <1>1, <1>2, Moves DEF Thread
<1>4. Unloading /\ Unloading'
  BY <1>1, <1>3, UnloadingLabels DEF Unloading, Emptied
<1>5. Phase'
  <2>1. \A t \in Prober : pc'[t] \in {"idle", "made"}
    BY <1>3, <1>4, ChardevAssumption DEF Good, Phase, OnlyMoves, Thread
  <2>2. free_privdata' => registered' = {}
    BY <1>1 DEF Good, Phase, Same
  <2>. QED  BY <1>3, <2>1, <2>2 DEF Phase, Creating, Unmaking, Emptied
<1>6. LoaderRests(pc'[Loader]) /\ pc[Loader] \notin Making \cup Unmaking \cup {"store"}
  BY <1>1, <1>3 DEF LoaderRests, Making, Unmaking, Emptied
<1>. QED  BY <1>1, <1>3, <1>4, <1>5, <1>6, LoaderMoves

\* A prober that has got no item rests.
LEMMA LeaveGood ==
  ASSUME Types, Good, Same, NEW t \in Prober, Leave(t, "not_made")
  PROVE  Good'
<1>1. t \in Thread /\ t \in Worker /\ pc[t] = "not_made"
  BY DEF Leave, Worker, Thread
<1>2. UNCHANGED <<items, registered, minor, refs, attached, freed, made, at>>
  BY DEF Leave, kernel
<1>3. pc'[t] = "idle" /\ OnlyMoves(t)
  <2>1. Goto(t, "idle") /\ dev' = [dev EXCEPT ![t] = NULL]
    BY DEF Leave
  <2>. QED  BY <1>1, <1>2, <2>1, Moves
<1>4. Phase'
  BY <1>1, <1>3, RestingPhase DEF Good
<1>5. ~Unloading
  BY <1>1 DEF Good, Phase
<1>6. Work(t)' /\ ~Busy(t)'
  BY <1>3 DEF Work, Busy, Parted, Making, Unmaking
<1>. QED  BY <1>1, <1>2, <1>3, <1>4, <1>5, <1>6, QuietMove DEF Parted, Making, Unmaking

\* So does one that has unmade its item, having freed the private data if that is left to it.
LEMMA UnmadeGood ==
  ASSUME Types, Good, Same, NEW t \in Prober, Unmade(t)
  PROVE  Good'
<1>1. t \in Thread /\ t \in Worker /\ pc[t] = "unmade" /\ t # Loader
  BY ChardevAssumption DEF Unmade, Worker, Thread
<1>2. /\ UNCHANGED <<items, registered, minor, refs, attached, made, at>>
      /\ Goto(t, "idle") /\ dev' = [dev EXCEPT ![t] = NULL]
      /\ free_privdata => freed' = freed
      /\ ~free_privdata => freed' = freed \cup {dev[t]}
  BY DEF Unmade
<1>3. CASE free_privdata
  <2>1. pc'[t] = "idle" /\ OnlyMoves(t)
    BY <1>1, <1>2, Moves
  <2>2. Phase'
    BY <1>1, <2>1, RestingPhase DEF Good
  <2>3. ~Unloading
    BY <1>1 DEF Good, Phase
  <2>4. Work(t)' /\ ~Busy(t)'
    BY <2>1 DEF Work, Busy, Parted, Making, Unmaking
  <2>. QED  BY <1>1, <1>2, <1>3, <2>1, <2>2, <2>3, <2>4, QuietMove DEF Parted, Making, Unmaking
<1>4. CASE ~free_privdata
  <2>1. Parted(t)
    BY <1>1, <1>4 DEF Parted
  <2>. QED  BY <1>1, <1>2, <1>4, <2>1, GivesUpGood
<1>. QED  BY <1>3, <1>4

\* A prober sets out to unmake the item that it has made.
RemoveBegins(t) ==
  /\ pc[t] = "made" /\ pc[Loader] = "loaded" /\ Goto(t, "unmake")
  /\ UNCHANGED <<group, held, items, kernel, made, found, at, dev>>

LEMMA RemoveBeginsGood ==
  ASSUME Types, Good, Same, NEW t \in Prober, RemoveBegins(t)
  PROVE  Good'
<1>1. t \in Thread /\ t \in Worker /\ pc[t] = "made" /\ ~Unloading /\ t # Loader
  BY ChardevAssumption DEF RemoveBegins, Worker, Thread, Unloading
<1>2. UNCHANGED <<items, registered, minor, refs, attached, freed, made, at, dev>>
  BY DEF RemoveBegins, kernel
<1>3. pc'[t] = "unmake" /\ OnlyMoves(t)
  BY <1>1, <1>2, Moves DEF RemoveBegins
<1>4. Busy(t) /\ ~Unloading'
  BY <1>1, <1>3 DEF Busy, OnlyMoves, Thread, Unloading
<1>5. Listed(dev[t])'
  BY <1>1, <1>2 DEF Good, Works, Work, Listed
<1>6. Work(t)'
  BY <1>3, <1>5 DEF Work, Parted, Making, Unmaking
<1>7. Phase'
  BY <1>1, <1>3, <1>4, PhaseKept DEF Good
<1>. QED  BY <1>1, <1>2, <1>3, <1>4, <1>6, <1>7, QuietMove DEF Parted, Making, Unmaking

\* An opener changes nothing but where it is itself.
LEMMA OpenerMoves ==
  ASSUME Types, Good, Same, NEW t \in Opener, OnlyMoves(t),
         UNCHANGED <<items, registered, minor, refs, attached, freed, made>>,
         pc'[t] = "dev_get_drvdata" => dev'[t] \in Made /\ refs[dev'[t]] >= 1,
         pc'[t] \in {"dev_get_drvdata", "data", "test"} => at'[t] \in Index
  PROVE  Good'
<1>1. \A u \in Worker : pc'[u] = pc[u] /\ dev'[u] = dev[u] /\ at'[u] = at[u]
  BY ChardevAssumption DEF OnlyMoves, Worker, Thread
<1>2. pc'[Loader] = pc[Loader] /\ (Unloading' <=> Unloading)
  BY <1>1 DEF Worker, Unloading
<1>3. \A d : (Listed(d)' <=> Listed(d)) /\ (Unlisted(d)' <=> Unlisted(d))
  BY DEF Listed, Unlisted
<1>4. Devices'
  <2>1. \A u \in Worker : \A d : Owns(u, d) => Owns(u, d)'
    BY <1>1 DEF Owns, Parted, Same
  <2>2. ASSUME NEW d \in 1..made
        PROVE  d \in freed \cup registered \/ \E u \in Worker : Owns(u, d)'
    BY <2>1 DEF Good, Devices
  <2>3. \A i \in Index : items'[i] # NULL => Item(i)'
    BY DEF Good, Devices, Item
  <2>4. ASSUME NEW d \in registered
        PROVE  Listed(d)' \/ \E u \in Worker : dev'[u] = d /\ pc'[u] \in Unmaking \cup {"store"}
    BY <1>1, <1>3 DEF Good, Devices
  <2>. QED  BY <2>2, <2>3, <2>4 DEF Good, Devices, Same
<1>5. Works'
  <2>1. ASSUME NEW u \in Worker
        PROVE  Work(u)'
    BY <1>1, <1>2, <1>3, WorkKept DEF Good, Works
  <2>. QED  BY <2>1 DEF Works
<1>6. Apart'
  <2>1. \A u \in Worker : Busy(u)' <=> Busy(u)
    BY <1>1, <1>2 DEF Busy, Parted, Same
  <2>. QED  BY <1>1, <2>1 DEF Good, Apart
<1>7. Phase'
  BY <1>1, <1>2 DEF Good, Phase, Cleared, Worker, Same
<1>8. Finds'
  BY DEF Good, Finds, OnlyMoves, Thread
<1>. QED  BY <1>4, <1>5, <1>6, <1>7, <1>8 DEF Good

\* What an opener finds in the table is in the class.
LEMMA FindItemGood ==
  ASSUME Types, Good, Same, NEW t \in Opener, NEW i \in Index, FindItem(t, i)
  PROVE  Good'
<1>1. t \in Thread
  BY DEF Thread
<1>2. UNCHANGED <<items, registered, minor, refs, attached, freed, made>>
  BY DEF FindItem, kernel
<1>3. /\ dev' = [dev EXCEPT ![t] = IF group = "group" THEN items[i] ELSE NULL]
      /\ at' = [at EXCEPT ![t] = i]
      /\ Goto(t, IF dev'[t] = NULL THEN "no_data" ELSE "dev_get_drvdata")
  BY DEF FindItem
<1>4. pc'[t] = (IF dev'[t] = NULL THEN "no_data" ELSE "dev_get_drvdata") /\ OnlyMoves(t)
  BY <1>1, <1>3, Moves
<1>5. dev'[t] \in {NULL, items[i]} /\ at'[t] = i
  BY <1>1, <1>3 DEF Types
<1>6. items[i] # NULL => items[i] \in Made /\ refs[items[i]] >= 1
  BY DEF Good, Devices, Types, Item
<1>. QED  BY <1>2, <1>4, <1>5, <1>6, OpenerMoves

LEMMA FindGood ==
  ASSUME Types, Good, Same, NEW t \in Opener,
         DevGetDrvdata(t) \/ Leave(t, "data") \/ Leave(t, "no_data")
  PROVE  Good'
<1>1. /\ \E l \in {"data", "no_data", "idle"} : Goto(t, l)
      /\ dev' = dev \/ \E x : dev' = [dev EXCEPT ![t] = x]
      /\ UNCHANGED <<items, registered, minor, refs, attached, freed, made, at>>
  <2>1. CASE DevGetDrvdata(t)
    BY <2>1 DEF DevGetDrvdata, kernel
  <2>2. CASE Leave(t, "data") \/ Leave(t, "no_data")
    BY <2>2 DEF Leave, kernel
  <2>. QED  BY <2>1, <2>2
<1>2. PICK l \in {"data", "no_data", "idle"} : Goto(t, l)
  BY <1>1
<1>3. pc'[t] = l /\ OnlyMoves(t)
  BY <1>1, <1>2, Moves DEF Thread
<1>4. pc'[t] = "data" => at'[t] \in Index
  <2>1. CASE DevGetDrvdata(t)
    BY <1>1, <2>1 DEF DevGetDrvdata, Good, Finds
  <2>2. CASE Leave(t, "data") \/ Leave(t, "no_data")
    BY <2>2 DEF Leave, Goto, Types, Thread
  <2>. QED  BY <2>1, <2>2
<1>. QED  BY <1>1, <1>3, <1>4, OpenerMoves

\* All the steps of the workers on their items.
LEMMA WorkGood ==
  ASSUME Types, Good, Same, NEW t \in Worker, chardev_group_make_item(t) \/ chardev_group_unmake_item(t)
  PROVE  Good'
BY ScanGood, DeviceCreateGood, StoreGood, UnmakeGood, ClearItemGood, FreePrivdataGood,
   ClearPrivdataGood, DeviceDestroyGood, DevNameGood
   DEF chardev_group_make_item, chardev_group_unmake_item

LEMMA DestroyGood ==
  ASSUME Types, Good, Same, chardev_group_destroy
  PROVE  Good'
<1>1. NextItem \/ chardev_group_unmake_item(Loader) \/ ItemUnmade \/ GivesBack
  BY DEF chardev_group_destroy, GivesBack
<1>. QED  BY <1>1, NextItemGood, WorkGood, ItemUnmadeGood, GivesBackGood DEF Worker

LEMMA NextGood ==
  ASSUME Types, Good, Same, Next
  PROVE  Good'
<1>1. CASE CallCreate \/ chardev_group_create
  BY <1>1, CreateSteps
<1>2. CASE CallDestroy
  <2>1. \A t \in Prober : pc[t] \in {"idle", "made"}
    BY <1>2, ChardevAssumption DEF CallDestroy, Thread
  <2>2. /\ UNCHANGED <<items, registered, minor, refs, attached, freed, made, dev>>
        /\ at' = [at EXCEPT ![Loader] = 0] /\ pc[Loader] = "loaded"
        /\ free_privdata => Goto(Loader, "next_item")
        /\ ~free_privdata => Goto(Loader, "class_destroy")
    BY <1>2 DEF CallDestroy, kernel
  <2>3. CASE free_privdata
    BY <2>1, <2>2, <2>3, StartUnloading
  <2>4. CASE ~free_privdata
    BY <2>1, <2>2, <2>4, LeaveItems
  <2>. QED  BY <2>3, <2>4
<1>3. CASE chardev_group_destroy
  BY <1>3, DestroyGood
<1>4. ASSUME NEW t \in Prober, Probe(t)
      PROVE  Good'
  <2>1. CASE pc[t] = "idle" /\ pc[Loader] = "loaded" /\ CallMake(t)
    BY <2>1, CallMakeGood DEF Worker
  <2>2. CASE chardev_group_make_item(t)
    BY <2>2, WorkGood DEF Worker
  <2>3. CASE Leave(t, "not_made")
    BY <2>3, LeaveGood
  <2>. QED  BY <1>4, <2>1, <2>2, <2>3 DEF Probe
<1>5. ASSUME NEW t \in Prober, Remove(t)
      PROVE  Good'
  <2>1. CASE RemoveBegins(t)
    BY <2>1, RemoveBeginsGood
  <2>2. CASE chardev_group_unmake_item(t)
    BY <2>2, WorkGood DEF Worker
  <2>3. CASE Unmade(t)
    BY <2>3, UnmadeGood
  <2>. QED  BY <1>5, <2>1, <2>2, <2>3 DEF Remove, RemoveBegins
<1>6. ASSUME NEW t \in Opener, Find(t)
      PROVE  Good'
  BY <1>6, FindItemGood, FindGood DEF Find, CallFind
<1>. QED  BY <1>1, <1>2, <1>3, <1>4, <1>5, <1>6 DEF Next

-----------------------------------------------------------------------------
(* Types, and what the group holds.                                        *)

\* A step of t that keeps the values in their ranges keeps the types.
LEMMA TypesKept ==
  ASSUME Types, NEW t \in Thread,
         NEW l \in LoaderLabel \cup Opening, Goto(t, l),
         t \in Worker => l \in LoaderLabel, t \in Opener => l \in Opening,
         dev' = dev \/ \E d \in {NULL} \cup Made : dev' = [dev EXCEPT ![t] = d],
         at' = at \/ \E i \in 0..max_items : at' = [at EXCEPT ![t] = i],
         group' \in {"NULL", "error", "group"}, items' \in [Index -> {NULL} \cup Made],
         registered' \subseteq Made, attached' \subseteq Made, freed' \subseteq Made,
         minor' \in [Made -> Index \cup {0}], refs' \in [Made -> Nat],
         made' \in 0..MaxMade, found' \in 0..MaxFound
  PROVE  Types'
<1>1. l \in Label
  BY DEF Label, LoaderLabel, Opening, Creating, Making, Unmaking, Emptied
<1>2. pc' = [pc EXCEPT ![t] = l] /\ pc \in [Thread -> Label]
  BY DEF Goto, Types
<1>3. pc' \in [Thread -> Label]
  BY <1>1, <1>2
<1>4. at' \in [Thread -> 0..max_items] /\ dev' \in [Thread -> {NULL} \cup Made]
  BY DEF Types
<1>5. \A u \in Thread : pc'[u] = IF u = t THEN l ELSE pc[u]
  BY <1>2
<1>6. pc'[Loader] \in LoaderLabel
  BY <1>5 DEF Types, Thread, Worker
<1>7. \A u \in Prober : pc'[u] \notin {"dev_get_drvdata"}
  <2>1. "dev_get_drvdata" \notin LoaderLabel
    BY DEF LoaderLabel, Creating, Making, Unmaking, Emptied
  <2>. QED  BY <1>5, <2>1 DEF Types, Thread, Worker
<1>8. \A u \in Opener : pc'[u] \in Opening
  BY <1>5 DEF Types, Thread
<1>. QED  BY <1>3, <1>4, <1>6, <1>7, <1>8 DEF Types

\* A step that changes neither the table nor the devices.
LEMMA TypesKeptQuiet ==
  ASSUME Types, NEW t \in Thread,
         NEW l \in LoaderLabel \cup Opening, Goto(t, l),
         t \in Worker => l \in LoaderLabel, t \in Opener => l \in Opening,
         dev' = dev \/ \E d \in {NULL} \cup Made : dev' = [dev EXCEPT ![t] = d],
         at' = at \/ \E i \in 0..max_items : at' = [at EXCEPT ![t] = i],
         group' \in {"NULL", "error", "group"}, UNCHANGED <<items, kernel>>,
         made' \in 0..MaxMade, found' \in 0..MaxFound
  PROVE  Types'
<1>1. /\ items' \in [Index -> {NULL} \cup Made]
      /\ registered' \subseteq Made /\ attached' \subseteq Made /\ freed' \subseteq Made
      /\ minor' \in [Made -> Index \cup {0}] /\ refs' \in [Made -> Nat]
  BY DEF Types, kernel
<1>. QED  BY <1>1, TypesKept

LEMMA CreateTypes ==
  ASSUME Types, CallCreate \/ chardev_group_create
  PROVE  Types'
<1>1. /\ \E l \in Creating \cup {"loaded", "end"} : Goto(Loader, l)
      /\ group' \in {"NULL", "error", "group"} /\ UNCHANGED <<items, kernel, made, found, at, dev>>
  BY DEF CallCreate, chardev_group_create, Get, GiveBack, CreateReturns, Creating, Types
<1>2. Creating \cup {"loaded", "end"} \subseteq LoaderLabel
  BY DEF LoaderLabel, Emptied
<1>. QED  BY <1>1, <1>2, TypesKeptQuiet, ChardevAssumption DEF Thread, Types

\* The loading thread goes somewhere, and nothing else happens.
LEMMA LoaderTypes ==
  ASSUME Types, NEW l \in LoaderLabel, Goto(Loader, l), group' \in {"NULL", "error", "group"},
         at' = at \/ at' = [at EXCEPT ![Loader] = 0],
         UNCHANGED <<items, kernel, made, found, dev>>
  PROVE  Types'
<1>1. 0 \in 0..max_items /\ made' \in 0..MaxMade /\ found' \in 0..MaxFound
  BY ChardevAssumption DEF Types
<1>. QED  BY <1>1, TypesKeptQuiet, ChardevAssumption DEF Thread

LEMMA CallMakeTypes ==
  ASSUME Types, NEW t \in Worker, CallMake(t)
  PROVE  Types'
<1>1. /\ made + 1 \in Made /\ made' \in 0..MaxMade /\ 0 \in 0..max_items
  BY ChardevAssumption DEF CallMake, Types, Made
<1>2. /\ dev' = [dev EXCEPT ![t] = made + 1] /\ at' = [at EXCEPT ![t] = 0] /\ Goto(t, "scan")
      /\ UNCHANGED <<group, items, kernel, found>>
  BY DEF CallMake
<1>3. "scan" \in LoaderLabel /\ group' \in {"NULL", "error", "group"} /\ found' \in 0..MaxFound
  BY <1>2 DEF LoaderLabel, Making, Types
<1>. QED  BY <1>1, <1>2, <1>3, TypesKeptQuiet, ChardevAssumption DEF Thread, Worker

LEMMA MakeTypes ==
  ASSUME Types, Good, NEW t \in Worker, chardev_group_make_item(t)
  PROVE  Types'
<1>1. {"not_made", "device_create", "scan", "store", "made"} \subseteq LoaderLabel
  BY DEF LoaderLabel, Making
<1>2. t \in Thread /\ t \notin Opener
  BY ChardevAssumption DEF Worker, Thread
<1>3. UNCHANGED <<group, made, found>>
  BY DEF chardev_group_make_item, Scan, DeviceCreate, Store
<1>4. /\ group' \in {"NULL", "error", "group"} /\ made' \in 0..MaxMade /\ found' \in 0..MaxFound
      /\ NULL \in {NULL} \cup Made
  BY <1>3 DEF Types
<1>5. ASSUME MakeFails(t), pc[t] \in Making,
             UNCHANGED <<items, registered, attached, minor, refs, at>>
      PROVE  Types'
  <2>1. Goto(t, "not_made") /\ dev' = [dev EXCEPT ![t] = NULL] /\ freed' = freed \cup {dev[t]}
    BY <1>5 DEF MakeFails
  <2>2. dev[t] \in 1..made
    BY <1>5 DEF Good, Works, Work
  <2>3. dev[t] \in Made
    BY <2>2, ChardevAssumption DEF Types, Made
  <2>4. /\ items' \in [Index -> {NULL} \cup Made]
        /\ registered' \subseteq Made /\ attached' \subseteq Made /\ freed' \subseteq Made
        /\ minor' \in [Made -> Index \cup {0}] /\ refs' \in [Made -> Nat]
    BY <1>5, <2>1, <2>3 DEF Types
  <2>. QED  BY <1>1, <1>2, <1>4, <1>5, <2>1, <2>4, TypesKept
<1>6. CASE Scan(t)
  <2>1. UNCHANGED <<items, registered, minor, attached>> /\ pc[t] \in Making
    BY <1>6 DEF Scan, Making
  <2>2. CASE MakeFails(t) /\ UNCHANGED <<refs, at>>
    BY <1>5, <2>1, <2>2
  <2>3. CASE Goto(t, "device_create") /\ UNCHANGED <<refs, taken, freed, at, dev>>
    <3>1. UNCHANGED kernel
      BY <2>1, <2>3 DEF kernel
    <3>. QED  BY <1>1, <1>2, <1>4, <2>1, <2>3, <3>1, TypesKeptQuiet
  <2>4. CASE /\ at[t] < max_items /\ \E d \in AtMinor(at[t]) : TakeReference(d)
             /\ at' = [at EXCEPT ![t] = @ + 1] /\ UNCHANGED <<pc, freed, dev>>
    <3>1. PICK d \in Made : TakeReference(d)
      BY <2>4 DEF AtMinor, Types
    <3>2. refs' \in [Made -> Nat]
      BY <3>1, MoreReferences
    <3>3. at' \in [Thread -> 0..max_items]
      <4>1. at[t] + 1 \in 0..max_items
        BY <1>2, <2>4, ChardevAssumption DEF Types
      <4>. QED  BY <1>2, <2>4, <4>1 DEF Types
    <3>. QED  BY <1>3, <2>1, <2>4, <3>2, <3>3 DEF Types
  <2>. QED  BY <1>6, <2>2, <2>3, <2>4 DEF Scan
<1>7. CASE DeviceCreate(t)
  <2>1. UNCHANGED <<items, at>> /\ pc[t] = "device_create"
    BY <1>7 DEF DeviceCreate
  <2>2. CASE MakeFails(t) /\ UNCHANGED <<registered, minor, refs, attached>>
    BY <1>5, <2>1, <2>2 DEF Making
  <2>3. CASE /\ registered' = registered \cup {dev[t]} /\ attached' = attached \cup {dev[t]}
             /\ minor' = [minor EXCEPT ![dev[t]] = at[t]]
             /\ refs' = [refs EXCEPT ![dev[t]] = 1] /\ Goto(t, "store") /\ UNCHANGED <<freed, dev>>
    <3>1. dev[t] \in 1..made /\ at[t] \in Index
      BY <2>1 DEF Good, Works, Work, Making
    <3>2. dev[t] \in Made
      BY <3>1, ChardevAssumption DEF Types, Made
    <3>3. /\ items' \in [Index -> {NULL} \cup Made]
          /\ registered' \subseteq Made /\ attached' \subseteq Made /\ freed' \subseteq Made
      BY <2>1, <2>3, <3>2 DEF Types
    <3>4. minor' \in [Made -> Index \cup {0}] /\ refs' \in [Made -> Nat]
      BY <2>3, <3>1, <3>2 DEF Types
    <3>. QED  BY <1>1, <1>2, <1>4, <2>1, <2>3, <3>3, <3>4, TypesKept
  <2>. QED  BY <1>7, <2>2, <2>3 DEF DeviceCreate
<1>8. CASE Store(t)
  <2>1. /\ items' = [items EXCEPT ![at[t]] = dev[t]] /\ Goto(t, "made")
        /\ UNCHANGED <<kernel, at, dev>>
    BY <1>8 DEF Store
  <2>2. items' \in [Index -> {NULL} \cup Made]
    BY <1>2, <2>1 DEF Types
  <2>3. /\ registered' \subseteq Made /\ attached' \subseteq Made /\ freed' \subseteq Made
        /\ minor' \in [Made -> Index \cup {0}] /\ refs' \in [Made -> Nat]
    BY <2>1 DEF Types, kernel
  <2>. QED  BY <1>1, <1>2, <1>4, <2>1, <2>2, <2>3, TypesKept
<1>. QED  BY <1>6, <1>7, <1>8 DEF chardev_group_make_item

LEMMA UnmakeTypes ==
  ASSUME Types, Good, NEW t \in Worker, chardev_group_unmake_item(t)
  PROVE  Types'
<1>1. {"clear_item", "unmade", "free_privdata", "clear_privdata", "device_destroy", "dev_name"}
        \subseteq LoaderLabel
  BY DEF LoaderLabel, Unmaking
<1>2. t \in Thread /\ t \notin Opener
  BY ChardevAssumption DEF Worker, Thread
<1>3. UNCHANGED <<group, made, found, at, dev, minor>>
  BY DEF chardev_group_unmake_item, Unmake, ClearItem, FreePrivdata, ClearPrivdata, DeviceDestroy,
         DevName, kernel
<1>4. \E l \in {"clear_item", "unmade", "free_privdata", "clear_privdata", "device_destroy",
                "dev_name"} : Goto(t, l)
  BY DEF chardev_group_unmake_item, Unmake, ClearItem, FreePrivdata, ClearPrivdata, DeviceDestroy,
         DevName
<1>5. items' \in [Index -> {NULL} \cup Made]
  <2>1. items' = items \/ items' = [items EXCEPT ![minor[dev[t]]] = NULL]
    BY DEF chardev_group_unmake_item, Unmake, ClearItem, FreePrivdata, ClearPrivdata,
           DeviceDestroy, DevName
  <2>. QED  BY <2>1 DEF Types
<1>6. registered' \subseteq registered
  BY DEF chardev_group_unmake_item, Unmake, ClearItem, FreePrivdata, ClearPrivdata, DeviceDestroy,
         DevName, kernel
<1>7. attached' \subseteq attached
  BY DEF chardev_group_unmake_item, Unmake, ClearItem, FreePrivdata, ClearPrivdata, DeviceDestroy,
         DevName, kernel
<1>8. freed' \subseteq Made
  <2>1. freed' = freed \/ (freed' = freed \cup {dev[t]} /\ dev[t] \in attached)
    BY DEF chardev_group_unmake_item, Unmake, ClearItem, FreePrivdata, ClearPrivdata,
           DeviceDestroy, DevName, kernel
  <2>. QED  BY <2>1 DEF Types
<1>9. refs' \in [Made -> Nat]
  <2>1. CASE Unmake(t)
    <3>1. refs' = refs \/ \E d \in Made : TakeReference(d)
      BY <2>1 DEF Unmake, AtMinor, Types
    <3>. QED  BY <3>1, MoreReferences DEF Types
  <2>2. CASE DeviceDestroy(t)
    <3>1. PICK d \in registered : refs' = [refs EXCEPT ![d] = @ - 1]
      BY <2>2 DEF DeviceDestroy, AtMinor
    <3>2. d \in Made /\ refs[d] \in Nat /\ refs[d] >= 1
      BY DEF Types, Good, Devices
    <3>3. refs[d] - 1 \in Nat
      BY <3>2
    <3>. QED  BY <3>1, <3>2, <3>3 DEF Types
  <2>3. CASE ClearItem(t) \/ FreePrivdata(t) \/ ClearPrivdata(t) \/ DevName(t)
    BY <2>3 DEF ClearItem, FreePrivdata, ClearPrivdata, DevName, kernel, Types
  <2>. QED  BY <2>1, <2>2, <2>3 DEF chardev_group_unmake_item
<1>10. registered' \subseteq Made /\ attached' \subseteq Made /\ minor' \in [Made -> Index \cup {0}]
  BY <1>3, <1>6, <1>7 DEF Types
<1>11. group' \in {"NULL", "error", "group"} /\ made' \in 0..MaxMade /\ found' \in 0..MaxFound
  BY <1>3 DEF Types
<1>. QED  BY <1>1, <1>2, <1>3, <1>4, <1>5, <1>8, <1>9, <1>10, <1>11, TypesKept

LEMMA DestroyTypes ==
  ASSUME Types, Good, chardev_group_destroy
  PROVE  Types'
<1>1. CASE NextItem
  <2>1. CASE at[Loader] = max_items
    <3>1. "class_destroy" \in LoaderLabel
      BY DEF LoaderLabel, Emptied
    <3>. QED  BY <1>1, <2>1, <3>1, LoaderTypes DEF NextItem, Types
  <2>2. CASE at[Loader] # max_items
    <3>1. /\ dev' = [dev EXCEPT ![Loader] = items[at[Loader]]]
          /\ at' = [at EXCEPT ![Loader] = at[Loader] + 1] /\ Goto(Loader, "unmake")
          /\ UNCHANGED <<group, items, kernel, made, found>>
      BY <1>1, <2>2 DEF NextItem
    <3>2. Loader \in Thread /\ Loader \notin Opener /\ at[Loader] \in 0..max_items /\ max_items \in Nat
      BY ChardevAssumption DEF Thread, Types
    <3>3. at[Loader] + 1 \in 0..max_items /\ at[Loader] \in Index
      BY <2>2, <3>2 DEF Index
    <3>4. items[at[Loader]] \in {NULL} \cup Made /\ "unmake" \in LoaderLabel
          /\ group' \in {"NULL", "error", "group"} /\ made' \in 0..MaxMade /\ found' \in 0..MaxFound
      BY <3>1, <3>3 DEF Types, LoaderLabel
    <3>. QED  BY <3>1, <3>2, <3>3, <3>4, TypesKeptQuiet
  <2>. QED  BY <2>1, <2>2
<1>2. CASE chardev_group_unmake_item(Loader)
  BY <1>2, UnmakeTypes DEF Worker
<1>3. CASE ItemUnmade
  <2>1. "next_item" \in LoaderLabel
    BY DEF LoaderLabel
  <2>. QED  BY <1>3, <2>1, LoaderTypes DEF ItemUnmade, Types
<1>4. CASE GivesBack
  <2>1. /\ \E l \in Emptied : Goto(Loader, l)
        /\ group' \in {"NULL", "error", "group"} /\ UNCHANGED <<items, kernel, made, found, at, dev>>
    BY <1>4 DEF GivesBack, GiveBack, CreateReturns, Emptied, Types
  <2>2. Emptied \subseteq LoaderLabel
    BY DEF LoaderLabel
  <2>. QED  BY <2>1, <2>2, LoaderTypes
<1>. QED  BY <1>1, <1>2, <1>3, <1>4 DEF chardev_group_destroy, GivesBack

\* A prober, or an opener, that comes back.
LEMMA LeaveTypes ==
  ASSUME Types, NEW t \in Prober \cup Opener, NEW l, Leave(t, l)
  PROVE  Types'
<1>1. t \in Thread /\ "idle" \in LoaderLabel \cap Opening /\ NULL \in {NULL} \cup Made
  BY DEF Thread, LoaderLabel, Creating, Opening
<1>2. dev' = [dev EXCEPT ![t] = NULL] /\ Goto(t, "idle")
      /\ UNCHANGED <<group, items, kernel, made, found, at>>
  BY DEF Leave
<1>3. group' \in {"NULL", "error", "group"} /\ made' \in 0..MaxMade /\ found' \in 0..MaxFound
  BY <1>2 DEF Types
<1>. QED  BY <1>1, <1>2, <1>3, TypesKeptQuiet

LEMMA FindItemTypes ==
  ASSUME Types, NEW t \in Opener, NEW i \in Index, FindItem(t, i), found' \in 0..MaxFound
  PROVE  Types'
<1>1. t \in Thread /\ t \notin Worker /\ i \in 0..max_items
  BY ChardevAssumption DEF Thread, Worker, Index
<1>2. /\ \E d \in {NULL} \cup Made : dev' = [dev EXCEPT ![t] = d]
      /\ at' = [at EXCEPT ![t] = i]
      /\ \E l \in {"no_data", "dev_get_drvdata"} : Goto(t, l)
      /\ UNCHANGED <<group, items, kernel, made>>
  BY DEF FindItem, Types
<1>3. group' \in {"NULL", "error", "group"} /\ made' \in 0..MaxMade
  BY <1>2 DEF Types
<1>. QED  BY <1>1, <1>2, <1>3, TypesKeptQuiet DEF Opening

LEMMA DevGetDrvdataTypes ==
  ASSUME Types, NEW t \in Opener, DevGetDrvdata(t)
  PROVE  Types'
<1>1. t \in Thread /\ t \notin Worker
  BY ChardevAssumption DEF Thread, Worker
<1>2. /\ \E l \in {"data", "no_data"} : Goto(t, l)
      /\ UNCHANGED <<group, items, kernel, made, found, at, dev>>
  BY DEF DevGetDrvdata
<1>3. group' \in {"NULL", "error", "group"} /\ made' \in 0..MaxMade /\ found' \in 0..MaxFound
  BY <1>2 DEF Types
<1>. QED  BY <1>1, <1>2, <1>3, TypesKeptQuiet DEF Opening

\* A prober has unmade its item.
LEMMA UnmadeTypes ==
  ASSUME Types, Good, NEW t \in Prober, Unmade(t)
  PROVE  Types'
<1>1. /\ t \in Thread /\ t \notin Opener /\ t \in Worker
      /\ "idle" \in LoaderLabel /\ NULL \in {NULL} \cup Made
  BY ChardevAssumption DEF Thread, Worker, LoaderLabel, Creating
<1>2. /\ dev' = [dev EXCEPT ![t] = NULL] /\ Goto(t, "idle") /\ pc[t] = "unmade"
      /\ UNCHANGED <<group, items, registered, attached, minor, refs, made, found, at>>
      /\ freed' = freed \/ (~free_privdata /\ freed' = freed \cup {dev[t]})
  BY DEF Unmade
<1>3. freed' \subseteq Made
  <2>1. CASE ~free_privdata
    <3>1. dev[t] \in 1..made
      BY <1>1, <1>2, <2>1 DEF Good, Works, Work, Parted
    <3>2. dev[t] \in Made
      BY <3>1, ChardevAssumption DEF Types, Made
    <3>. QED  BY <1>2, <3>2 DEF Types
  <2>2. CASE free_privdata
    BY <1>2, <2>2 DEF Types
  <2>. QED  BY <2>1, <2>2
<1>4. /\ group' \in {"NULL", "error", "group"} /\ items' \in [Index -> {NULL} \cup Made]
      /\ registered' \subseteq Made /\ attached' \subseteq Made
      /\ minor' \in [Made -> Index \cup {0}] /\ refs' \in [Made -> Nat]
      /\ made' \in 0..MaxMade /\ found' \in 0..MaxFound
  BY <1>2 DEF Types
<1>. QED  BY <1>1, <1>2, <1>3, <1>4, TypesKept

LEMMA NextTypes ==
  ASSUME Types, Good, Next
  PROVE  Types'
<1>1. CASE CallCreate \/ chardev_group_create
  BY <1>1, CreateTypes
<1>2. CASE CallDestroy
  <2>1. {"next_item", "class_destroy"} \subseteq LoaderLabel
    BY DEF LoaderLabel, Emptied
  <2>2. /\ \E l \in {"next_item", "class_destroy"} : Goto(Loader, l)
        /\ at' = [at EXCEPT ![Loader] = 0] /\ UNCHANGED <<group, items, kernel, made, found, dev>>
    BY <1>2 DEF CallDestroy
  <2>3. group' \in {"NULL", "error", "group"}
    BY <2>2 DEF Types
  <2>. QED  BY <2>1, <2>2, <2>3, LoaderTypes
<1>3. CASE chardev_group_destroy
  BY <1>3, DestroyTypes
<1>4. ASSUME NEW t \in Prober, Probe(t)
      PROVE  Types'
  BY <1>4, CallMakeTypes, MakeTypes, LeaveTypes DEF Probe, Worker
<1>5. ASSUME NEW t \in Prober, Remove(t)
      PROVE  Types'
  <2>1. CASE RemoveBegins(t)
    <3>1. "unmake" \in LoaderLabel /\ t \in Thread /\ t \notin Opener
      BY ChardevAssumption DEF LoaderLabel, Thread
    <3>2. group' \in {"NULL", "error", "group"} /\ made' \in 0..MaxMade /\ found' \in 0..MaxFound
      BY <2>1 DEF RemoveBegins, Types
    <3>. QED  BY <2>1, <3>1, <3>2, TypesKeptQuiet DEF RemoveBegins
  <2>2. CASE chardev_group_unmake_item(t)
    BY <2>2, UnmakeTypes DEF Worker
  <2>3. CASE Unmade(t)
    BY <2>3, UnmadeTypes
  <2>. QED  BY <1>5, <2>1, <2>2, <2>3 DEF Remove, RemoveBegins
<1>6. ASSUME NEW t \in Opener, Find(t)
      PROVE  Types'
  <2>1. CASE CallFind(t)
    <3>1. found' \in 0..MaxFound
      BY <2>1, ChardevAssumption DEF CallFind, Types
    <3>. QED  BY <2>1, <3>1, FindItemTypes DEF CallFind
  <2>2. CASE DevGetDrvdata(t)
    BY <2>2, DevGetDrvdataTypes
  <2>3. CASE Leave(t, "data") \/ Leave(t, "no_data")
    BY <2>3, LeaveTypes
  <2>. QED  BY <1>6, <2>1, <2>2, <2>3 DEF Find
<1>. QED  BY <1>1, <1>2, <1>3, <1>4, <1>5, <1>6 DEF Next

-----------------------------------------------------------------------------
\* Everything that a group has.
Full == {"group", "region", "items", "cdev", "class"}

\* The labels at which the group has less.
Partial == {"idle", "kzalloc_group", "failed", "destroyed", "end", "alloc_region", "kfree_group",
            "kzalloc_items", "cdev_add", "unregister_region", "class_create", "lbl_del_cdev",
            "cdev_del", "lbl_unreg_region", "lbl_free_group", "kfree_items"}

LEMMA HeldKept ==
  ASSUME Held, held' = held,
         pc'[Loader] = pc[Loader] \/ (pc[Loader] \notin Partial /\ pc'[Loader] \notin Partial)
  PROVE  Held'
BY DEF Held, Partial

\* What is got and given back on the way.
LEMMA CreateHeld ==
  ASSUME Types, Held, CallCreate \/ chardev_group_create
  PROVE  Held'
<1>. Loader \in Thread
  BY DEF Thread
<1>1. \A l : Goto(Loader, l) => pc'[Loader] = l
  BY DEF Goto, Types
<1>2. CASE CallCreate
  BY <1>1, <1>2 DEF CallCreate, Held
<1>3. CASE Get("kzalloc_group", "group", "alloc_region", "lbl_free_group")
  BY <1>1, <1>3 DEF Get, Held
<1>4. CASE Get("alloc_region", "region", "kzalloc_items", "lbl_free_group")
  BY <1>1, <1>4 DEF Get, Held
<1>5. CASE Get("kzalloc_items", "items", "cdev_add", "lbl_unreg_region")
  BY <1>1, <1>5 DEF Get, Held
<1>6. CASE Get("cdev_add", "cdev", "class_create", "lbl_unreg_region")
  BY <1>1, <1>6 DEF Get, Held
<1>7. CASE Get("class_create", "class", "created", "lbl_del_cdev")
  BY <1>1, <1>7 DEF Get, Held
<1>8. CASE GiveBack("lbl_del_cdev", {"cdev"}, "lbl_unreg_region")
  BY <1>1, <1>8 DEF GiveBack, Held
<1>9. CASE GiveBack("lbl_unreg_region", {"region"}, "lbl_free_group")
  BY <1>1, <1>9 DEF GiveBack, Held
<1>10. CASE GiveBack("lbl_free_group", {"items", "group"}, "failed")
  BY <1>1, <1>10 DEF GiveBack, Held
<1>11. CASE CreateReturns("created", "group", "loaded")
  BY <1>1, <1>11 DEF CreateReturns, Held
<1>12. CASE CreateReturns("failed", "error", "end")
  BY <1>1, <1>12 DEF CreateReturns, Held
<1>. QED  BY <1>2, <1>3, <1>4, <1>5, <1>6, <1>7, <1>8, <1>9, <1>10, <1>11, <1>12
             DEF chardev_group_create

\* Making and unmaking items takes nothing from the group.
LEMMA WorkHeld ==
  ASSUME Types, Held, NEW t \in Worker, chardev_group_make_item(t) \/ chardev_group_unmake_item(t)
  PROVE  Held'
<1>1. held' = held /\ pc[t] \notin Partial /\ pc'[t] \notin Partial
      /\ \A u \in Thread \ {t} : pc'[u] = pc[u]
  <2>1. CASE chardev_group_make_item(t)
    BY <2>1 DEF chardev_group_make_item, Scan, MakeFails, DeviceCreate, Store, Partial, Types,
                Goto, Worker, Thread
  <2>2. CASE chardev_group_unmake_item(t)
    BY <2>2 DEF chardev_group_unmake_item, Unmake, ClearItem, FreePrivdata, ClearPrivdata,
                DeviceDestroy, DevName, Partial, Types, Goto, Worker, Thread
  <2>. QED  BY <2>1, <2>2
<1>. QED  BY <1>1, HeldKept DEF Thread

LEMMA DestroyHeld ==
  ASSUME Types, Held, chardev_group_destroy
  PROVE  Held'
<1>. Loader \in Thread
  BY DEF Thread
<1>1. \A l : Goto(Loader, l) => pc'[Loader] = l
  BY DEF Goto, Types
<1>2. CASE NextItem
  BY <1>1, <1>2, HeldKept DEF NextItem, Partial
<1>3. CASE chardev_group_unmake_item(Loader)
  BY <1>3, WorkHeld DEF Worker
<1>4. CASE ItemUnmade
  BY <1>1, <1>4, HeldKept DEF ItemUnmade, Partial
<1>5. CASE GiveBack("class_destroy", {"class"}, "cdev_del")
  BY <1>1, <1>5 DEF GiveBack, Held
<1>6. CASE GiveBack("cdev_del", {"cdev"}, "unregister_region")
  BY <1>1, <1>6 DEF GiveBack, Held
<1>7. CASE GiveBack("unregister_region", {"region"}, "kfree_items")
  BY <1>1, <1>7 DEF GiveBack, Held
<1>8. CASE GiveBack("kfree_items", {"items"}, "kfree_group")
  BY <1>1, <1>8 DEF GiveBack, Held
<1>9. CASE GiveBack("kfree_group", {"group"}, "destroyed")
  BY <1>1, <1>9 DEF GiveBack, Held
<1>10. CASE CreateReturns("destroyed", "NULL", "end")
  BY <1>1, <1>10 DEF CreateReturns, Held
<1>. QED  BY <1>2, <1>3, <1>4, <1>5, <1>6, <1>7, <1>8, <1>9, <1>10 DEF chardev_group_destroy

LEMMA NextHeld ==
  ASSUME Types, Held, Next
  PROVE  Held'
<1>. Loader \in Thread /\ \A t \in Prober \cup Opener : t \in Thread /\ t # Loader
  BY ChardevAssumption DEF Thread
<1>1. \A t \in Thread : \A l : Goto(t, l) => pc'[t] = l /\ \A u \in Thread \ {t} : pc'[u] = pc[u]
  BY DEF Goto, Types
<1>2. CASE CallCreate \/ chardev_group_create
  BY <1>2, CreateHeld
<1>3. CASE CallDestroy
  BY <1>1, <1>3, HeldKept DEF CallDestroy, Partial
<1>4. CASE chardev_group_destroy
  BY <1>4, DestroyHeld
<1>5. ASSUME NEW t \in Prober, Probe(t) \/ Remove(t)
      PROVE  Held'
  <2>1. CASE chardev_group_make_item(t) \/ chardev_group_unmake_item(t)
    BY <2>1, WorkHeld DEF Worker
  <2>2. CASE CallMake(t) \/ Leave(t, "not_made") \/ Unmade(t) \/ RemoveBegins(t)
    <3>1. held' = held /\ \E l : Goto(t, l)
      BY <2>2 DEF CallMake, Leave, Unmade, RemoveBegins
    <3>. QED  BY <1>1, <3>1, HeldKept
  <2>. QED  BY <1>5, <2>1, <2>2 DEF Probe, Remove, RemoveBegins
<1>6. ASSUME NEW t \in Opener, Find(t)
      PROVE  Held'
  <2>1. held' = held /\ \E l : Goto(t, l)
    BY <1>6 DEF Find, CallFind, FindItem, DevGetDrvdata, Leave
  <2>. QED  BY <1>1, <2>1, HeldKept
<1>. QED  BY <1>2, <1>3, <1>4, <1>5, <1>6 DEF Next

-----------------------------------------------------------------------------
(* The references.                                                         *)

\* The class has a reference to each of its devices, and class_find_device() has taken
\* all the others.
Counted ==
  /\ taken \in [Made -> Nat] /\ free_privdata \in BOOLEAN
  /\ \A d \in Made : refs[d] = taken[d] + (IF d \in registered THEN 1 ELSE 0)

LEMMA QuietCounted ==
  ASSUME Counted, Same, UNCHANGED <<refs, taken, registered>>
  PROVE  Counted'
BY DEF Counted, Same

\* A device found in the class.
LEMMA TakeCounted ==
  ASSUME Types, Counted, Same, registered' = registered, NEW i, \E d \in AtMinor(i) : TakeReference(d)
  PROVE  Counted'
<1>1. PICK d \in Made : TakeReference(d)
  BY DEF AtMinor, Types
<1>2. /\ \A e \in Made : refs'[e] = IF e = d THEN refs[e] + 1 ELSE refs[e]
      /\ \A e \in Made : taken'[e] = IF e = d THEN taken[e] + 1 ELSE taken[e]
      /\ taken' \in [Made -> Nat]
  BY <1>1 DEF TakeReference, Types, Counted
<1>3. free_privdata' \in BOOLEAN
  BY DEF Counted, Same
<1>4. \A e \in Made : taken[e] \in Nat /\ refs[e] = taken[e] + (IF e \in registered THEN 1 ELSE 0)
  BY DEF Counted
<1>5. \A e \in Made : refs'[e] = taken'[e] + (IF e \in registered' THEN 1 ELSE 0)
  BY <1>2, <1>4
<1>. QED  BY <1>2, <1>3, <1>5 DEF Counted

LEMMA DeviceCreateCounted ==
  ASSUME Types, Good, Counted, Same, NEW t \in Worker, DeviceCreate(t)
  PROVE  Counted'
<1>1. CASE MakeFails(t) /\ UNCHANGED <<registered, minor, refs, taken, attached>>
  BY <1>1, QuietCounted
<1>2. CASE /\ registered' = registered \cup {dev[t]}
           /\ refs' = [refs EXCEPT ![dev[t]] = 1] /\ taken' = [taken EXCEPT ![dev[t]] = 0]
  <2>1. dev[t] \in Made /\ dev[t] \notin registered
    <3>1. pc[t] = "device_create" /\ Work(t)
      BY DEF DeviceCreate, Good, Works
    <3>2. dev[t] \in 1..made /\ dev[t] \notin registered
      BY <3>1 DEF Work, Making
    <3>. QED  BY <3>2, ChardevAssumption DEF Types, Made
  <2>2. /\ \A e \in Made : refs'[e] = IF e = dev[t] THEN 1 ELSE refs[e]
        /\ \A e \in Made : taken'[e] = IF e = dev[t] THEN 0 ELSE taken[e]
        /\ taken' \in [Made -> Nat]
    BY <1>2 DEF Types, Counted
  <2>3. \A e \in Made : e # dev[t] => (e \in registered' <=> e \in registered)
    BY <1>2
  <2>4. free_privdata' \in BOOLEAN /\ dev[t] \in registered'
    BY <1>2 DEF Counted, Same
  <2>5. \A e \in Made : refs[e] = taken[e] + (IF e \in registered THEN 1 ELSE 0)
    BY DEF Counted
  <2>6. \A e \in Made : refs'[e] = taken'[e] + (IF e \in registered' THEN 1 ELSE 0)
    BY <2>2, <2>3, <2>4, <2>5
  <2>. QED  BY <2>2, <2>4, <2>6 DEF Counted
<1>. QED  BY <1>1, <1>2 DEF DeviceCreate

LEMMA DeviceDestroyCounted ==
  ASSUME Types, Counted, Same, NEW t \in Worker, DeviceDestroy(t)
  PROVE  Counted'
<1>1. PICK d \in registered : registered' = registered \ {d} /\ refs' = [refs EXCEPT ![d] = @ - 1]
  BY DEF DeviceDestroy, AtMinor
<1>2. d \in Made /\ taken' = taken
  BY DEF DeviceDestroy, Types
<1>3. \A e \in Made : refs'[e] = IF e = d THEN refs[e] - 1 ELSE refs[e]
  BY <1>1 DEF Types
<1>4. \A e \in Made : taken[e] \in Nat /\ refs[e] = taken[e] + (IF e \in registered THEN 1 ELSE 0)
  BY DEF Counted
<1>5. \A e \in Made : refs'[e] = taken[e] + (IF e \in registered' THEN 1 ELSE 0)
  BY <1>1, <1>3, <1>4
<1>. QED  BY <1>2, <1>5 DEF Counted, Same

LEMMA WorkCounted ==
  ASSUME Types, Good, Counted, Same, NEW t \in Worker,
         chardev_group_make_item(t) \/ chardev_group_unmake_item(t)
  PROVE  Counted'
<1>1. CASE Scan(t)
  <2>1. registered' = registered
    BY <1>1 DEF Scan
  <2>2. CASE \E d \in AtMinor(at[t]) : TakeReference(d)
    BY <2>1, <2>2, TakeCounted
  <2>3. CASE UNCHANGED <<refs, taken>>
    BY <2>1, <2>3, QuietCounted
  <2>. QED  BY <1>1, <2>2, <2>3 DEF Scan
<1>2. CASE DeviceCreate(t)
  BY <1>2, DeviceCreateCounted
<1>3. CASE Unmake(t)
  <2>1. registered' = registered
    BY <1>3 DEF Unmake
  <2>2. CASE \E d \in AtMinor(minor[dev[t]]) : TakeReference(d)
    BY <2>1, <2>2, TakeCounted
  <2>3. CASE UNCHANGED <<refs, taken>>
    BY <2>1, <2>3, QuietCounted
  <2>. QED  BY <1>3, <2>2, <2>3 DEF Unmake
<1>4. CASE DeviceDestroy(t)
  BY <1>4, DeviceDestroyCounted
<1>5. CASE Store(t) \/ ClearItem(t) \/ FreePrivdata(t) \/ ClearPrivdata(t) \/ DevName(t)
  <2>1. UNCHANGED <<refs, taken, registered>>
    BY <1>5 DEF Store, ClearItem, FreePrivdata, ClearPrivdata, DevName, kernel
  <2>. QED  BY <2>1, QuietCounted
<1>. QED  BY <1>1, <1>2, <1>3, <1>4, <1>5 DEF chardev_group_make_item, chardev_group_unmake_item

\* The loading thread creates and destroys the group.
LEMMA LoaderCounted ==
  ASSUME Types, Good, Counted, Same, CallCreate \/ chardev_group_create \/ chardev_group_destroy
  PROVE  Counted'
<1>1. CASE chardev_group_unmake_item(Loader)
  BY <1>1, WorkCounted DEF Worker
<1>2. CASE CallCreate \/ chardev_group_create \/ NextItem \/ ItemUnmade \/ GivesBack
  <2>1. UNCHANGED <<refs, taken, registered>>
    BY <1>2 DEF CallCreate, chardev_group_create, NextItem, ItemUnmade, GivesBack, Get, GiveBack,
                CreateReturns, kernel
  <2>. QED  BY <2>1, QuietCounted
<1>. QED  BY <1>1, <1>2 DEF chardev_group_destroy, GivesBack

LEMMA NextCounted ==
  ASSUME Types, Good, Counted, Same, Next
  PROVE  Counted'
<1>1. CASE CallCreate \/ chardev_group_create \/ chardev_group_destroy
  BY <1>1, LoaderCounted
<1>2. CASE CallDestroy
  <2>1. UNCHANGED <<refs, taken, registered>>
    BY <1>2 DEF CallDestroy, kernel
  <2>. QED  BY <2>1, QuietCounted
<1>3. ASSUME NEW t \in Prober, Probe(t) \/ Remove(t)
      PROVE  Counted'
  <2>1. CASE chardev_group_make_item(t) \/ chardev_group_unmake_item(t)
    BY <2>1, WorkCounted DEF Worker
  <2>2. CASE CallMake(t) \/ Leave(t, "not_made") \/ Unmade(t) \/ RemoveBegins(t)
    <3>1. UNCHANGED <<refs, taken, registered>>
      BY <2>2 DEF CallMake, Leave, Unmade, RemoveBegins, kernel
    <3>. QED  BY <3>1, QuietCounted
  <2>. QED  BY <1>3, <2>1, <2>2 DEF Probe, Remove, RemoveBegins
<1>4. ASSUME NEW t \in Opener, Find(t)
      PROVE  Counted'
  <2>1. UNCHANGED <<refs, taken, registered>>
    BY <1>4 DEF Find, CallFind, FindItem, DevGetDrvdata, Leave, kernel
  <2>. QED  BY <2>1, QuietCounted
<1>. QED  BY <1>1, <1>2, <1>3, <1>4 DEF Next

-----------------------------------------------------------------------------
(* ChardevGroup.                                                           *)

LEMMA InitGroup ==
  ASSUME Init
  PROVE  GroupInv /\ Counted
<1>1. Loader \in Thread /\ 0 \in 0..max_items /\ 0 \in 0..MaxMade /\ 0 \in 0..MaxFound
  BY ChardevAssumption DEF Thread
<1>2. /\ \A t \in Thread : pc[t] = "idle" /\ dev[t] = NULL /\ at[t] = 0
      /\ \A i \in Index : items[i] = NULL
      /\ registered = {} /\ attached = {} /\ freed = {} /\ made = 0 /\ held = {}
  BY DEF Init
<1>3. Types
  <2>1. "idle" \in LoaderLabel /\ "idle" \in Label
    BY DEF LoaderLabel, Creating, Label
  <2>2. /\ items \in [Index -> {NULL} \cup Made] /\ minor \in [Made -> Index \cup {0}]
        /\ refs \in [Made -> Nat] /\ pc \in [Thread -> Label] /\ at \in [Thread -> 0..max_items]
        /\ dev \in [Thread -> {NULL} \cup Made]
    BY <1>1, <2>1 DEF Init
  <2>. QED  BY <1>1, <1>2, <2>1, <2>2 DEF Types, Init, Thread, Opening
<1>4. Held
  BY <1>1, <1>2 DEF Held
<1>5. ~Unloading /\ \A t \in Worker : t \in Thread
  BY <1>1, <1>2 DEF Unloading, Worker, Thread
<1>6. Devices
  BY <1>2 DEF Devices
<1>7. Works /\ Apart
  BY <1>2, <1>5 DEF Works, Work, Apart, Busy, Parted, Making, Unmaking
<1>8. Phase /\ Finds
  BY <1>1, <1>2, <1>5 DEF Phase, Finds, Unmaking, Emptied, Thread
<1>9. Counted
  BY <1>2 DEF Init, Counted
<1>. QED  BY <1>3, <1>4, <1>6, <1>7, <1>8, <1>9 DEF GroupInv

LEMMA StutterGroup ==
  ASSUME GroupInv, Counted, UNCHANGED vars
  PROVE  GroupInv' /\ Counted'
<1>1. UNCHANGED <<group, held, items, registered, minor, refs, attached, freed, made, found,
                  pc, at, dev>>
      /\ Same /\ taken' = taken
  BY DEF vars, kernel, thread, Same
<1>2. /\ \A d : (Listed(d)' <=> Listed(d)) /\ (Unlisted(d)' <=> Unlisted(d))
      /\ \A n : Cleared(n)' <=> Cleared(n)
      /\ \A i : Item(i)' <=> Item(i)
      /\ Unloading' <=> Unloading
      /\ \A t : Busy(t)' <=> Busy(t)
      /\ \A t, d : Owns(t, d)' <=> Owns(t, d)
  BY <1>1 DEF Listed, Unlisted, Cleared, Item, Unloading, Busy, Owns, Parted, Same
<1>3. Types' /\ Held'
  BY <1>1 DEF GroupInv, Types, Held
<1>4. Devices'
  <2>1. Devices
    BY DEF GroupInv
  <2>. QED  BY <1>1, <1>2, <2>1 DEF Devices, Same
<1>5. Works'
  <2>1. ASSUME NEW t \in Worker
        PROVE  Work(t)'
    <3>1. Work(t)
      BY DEF GroupInv, Works
    <3>2. (Listed(dev[t]) => Listed(dev[t])') /\ (Unlisted(dev[t]) => Unlisted(dev[t])')
      BY <1>1 DEF Listed, Unlisted
    <3>3. Unloading => Unloading'
      BY <1>2
    <3>. QED  BY <1>1, <3>1, <3>2, <3>3, WorkKept
  <2>. QED  BY <2>1 DEF Works
<1>6. Apart'
  <2>1. \A t \in Worker : Busy(t)' <=> Busy(t)
    BY <1>2
  <2>2. ASSUME NEW t \in Worker, NEW u \in Worker, t # u, Busy(t)', Busy(u)'
        PROVE  dev'[t] # dev'[u]
    <3>1. Apart /\ dev' = dev
      BY <1>1 DEF GroupInv
    <3>. QED  BY <2>1, <2>2, <3>1 DEF Apart
  <2>. QED  BY <2>2 DEF Apart
<1>7. Phase'
  BY <1>1, <1>2 DEF GroupInv, Phase, Same
<1>8. Finds'
  BY <1>1 DEF GroupInv, Finds
<1>9. Counted'
  BY <1>1, QuietCounted
<1>. QED  BY <1>3, <1>4, <1>5, <1>6, <1>7, <1>8, <1>9 DEF GroupInv

\* What the properties of ChardevGroup follow from.
LEMMA GroupProperties ==
  ASSUME GroupInv, Counted
  PROVE  TypeOK /\ DeviceIsAlive /\ ItemsMatchClass /\ LeftAtEnd
<1>1. TypeOK
  <2>1. held \subseteq Full /\ ("cdev" \in held => {"group", "region", "items"} \subseteq held)
    BY DEF GroupInv, Held, Full
  <2>2. taken \in [Made -> Nat] /\ free_privdata \in BOOLEAN
    BY DEF Counted
  <2>. QED  BY <2>1, <2>2 DEF GroupInv, Types, TypeOK, Full
<1>2. DeviceIsAlive
  <2>1. ASSUME NEW t \in Thread, dev[t] # NULL,
               pc[t] \in {"unmake", "clear_item", "free_privdata", "clear_privdata",
                          "device_destroy", "dev_name", "dev_get_drvdata"}
        PROVE  refs[dev[t]] > 0
    <3>1. CASE t \in Worker
      <4>1. Work(t) /\ dev[t] \in Made /\ refs[dev[t]] \in Nat /\ pc[t] # "dev_get_drvdata"
        <5>1. "dev_get_drvdata" \notin LoaderLabel
          BY DEF LoaderLabel, Creating, Making, Unmaking, Emptied
        <5>2. Work(t) /\ pc[t] # "dev_get_drvdata"
          BY <2>1, <3>1, <5>1 DEF GroupInv, Works, Types, Worker
        <5>3. dev[t] \in {NULL} \cup Made /\ \A d \in Made : refs[d] \in Nat
          BY DEF GroupInv, Types
        <5>. QED  BY <2>1, <5>2, <5>3
      <4>2. CASE pc[t] = "unmake"
        <5>1. dev[t] \in registered
          BY <2>1, <4>1, <4>2 DEF Work, Listed
        <5>2. \A d \in registered : refs[d] >= 1
          BY DEF GroupInv, Devices
        <5>. QED  BY <4>1, <5>1, <5>2
      <4>3. CASE pc[t] \in Unmaking \cup {"clear_item"}
        BY <4>1, <4>3 DEF Work
      <4>4. CASE pc[t] = "dev_name"
        BY <4>1, <4>4 DEF Work
      <4>. QED  BY <2>1, <4>1, <4>2, <4>3, <4>4 DEF Unmaking
    <3>2. CASE t \in Opener
      <4>1. pc[t] = "dev_get_drvdata" /\ refs[dev[t]] \in Nat
        BY <2>1, <3>2 DEF GroupInv, Types, Opening
      <4>. QED  BY <3>2, <4>1 DEF GroupInv, Finds
    <3>. QED  BY <3>1, <3>2 DEF Thread, Worker
  <2>2. ASSUME NEW t \in Opener, pc[t] \in {"dev_get_drvdata", "data", "test"}, dev[t] \in freed,
               items[at[t]] = dev[t]
        PROVE  FALSE
    <3>1. at[t] \in Index
      BY <2>2 DEF GroupInv, Finds
    <3>2. dev[t] # NULL
      BY <2>2 DEF GroupInv, Types, Made, NULL
    <3>3. Item(at[t])
      BY <2>2, <3>1, <3>2 DEF GroupInv, Devices
    <3>. QED  BY <2>2, <3>3 DEF Item
  <2>. QED  BY <2>1, <2>2 DEF DeviceIsAlive
<1>3. ItemsMatchClass
  <2>1. ASSUME NEW i \in Index, items[i] # NULL
        PROVE  AtMinor(i) = {items[i]}
    <3>1. items[i] \in registered /\ minor[items[i]] = i
      BY <2>1 DEF GroupInv, Devices, Item
    <3>. QED  BY <3>1, FoundAtMinor DEF GroupInv
  <2>2. ASSUME NEW d \in registered,
               \A t \in Thread : dev[t] = d => pc[t] \in {"made", "data", "no_data",
                                                          "dev_get_drvdata", "next_item"}
        PROVE  items[minor[d]] = d
    <3>1. \A t \in Worker : dev[t] = d => pc[t] \notin Unmaking \cup {"store"}
      BY <2>2 DEF Unmaking, Worker, Thread
    <3>. QED  BY <3>1 DEF GroupInv, Devices, Listed
  <2>. QED  BY <2>1, <2>2 DEF ItemsMatchClass
<1>4. LeftAtEnd
  <2>1. ASSUME pc[Loader] = "end"
        PROVE  /\ held = {} /\ freed = 1..made \ registered
               /\ registered = IF free_privdata THEN {} ELSE {items[i] : i \in Index} \ {NULL}
               /\ free_privdata => attached = {}
    <3>1. held = {}
      BY <2>1 DEF GroupInv, Held
    <3>2. free_privdata => registered = {} /\ attached = {}
      BY <2>1 DEF GroupInv, Phase, Devices, Emptied
    <3>3. \A t \in Worker : pc[t] \in {"idle", "made", "end"}
      BY <2>1 DEF GroupInv, Phase, Unloading, Worker
    <3>4. freed \subseteq 1..made \ registered
      <4>1. free_privdata => freed \cap registered = {}
        BY <3>2
      <4>2. freed \subseteq 1..made /\ (~free_privdata => freed \cap registered = {})
        BY DEF GroupInv, Devices
      <4>. QED  BY <4>1, <4>2
    <3>5. 1..made \ registered \subseteq freed
      <4>1. \A t \in Worker : \A d : ~Owns(t, d)
        BY <3>3 DEF Owns, Parted, Making
      <4>. QED  BY <4>1 DEF GroupInv, Devices
    <3>6. registered = {items[i] : i \in Index} \ {NULL}
      <4>1. ASSUME NEW d \in registered
            PROVE  \E i \in Index : items[i] = d
        <5>1. Listed(d) /\ minor[d] \in Index
          BY <3>3 DEF GroupInv, Devices, Unmaking
        <5>. QED  BY <5>1 DEF Listed
      <4>2. NULL \notin registered
        BY DEF GroupInv, Types, Made, NULL
      <4>3. \A i \in Index : items[i] # NULL => items[i] \in registered
        BY DEF GroupInv, Devices, Item
      <4>. QED  BY <4>1, <4>2, <4>3
    <3>. QED  BY <3>1, <3>2, <3>4, <3>5, <3>6
  <2>. QED  BY <2>1 DEF LeftAtEnd, Counted
<1>. QED  BY <1>1, <1>2, <1>3, <1>4

\* The invariant of the group with probers and openers at work at the same time,
\* from chardev_group_create() to chardev_group_destroy().
THEOREM GroupInvariance == Spec => [](GroupInv /\ Counted)
<1>1. Init => GroupInv /\ Counted
  BY InitGroup
<1>2. GroupInv /\ Counted /\ [Next]_vars => (GroupInv /\ Counted)'
  <2>1. ASSUME GroupInv, Counted, Next
        PROVE  GroupInv' /\ Counted'
    <3>1. Types /\ Good /\ Held /\ Same
      BY <2>1 DEF GroupInv, Good, Next, Same
    <3>. QED  BY <2>1, <3>1, NextGood, NextTypes, NextHeld, NextCounted DEF GroupInv, Good
  <2>. QED  BY <2>1, StutterGroup
<1>. QED  BY <1>1, <1>2, PTL DEF Spec

\* Whatever probers and openers do at the same time, each variable keeps its type; the
\* steps of chardev_group.c that read a device find its memory, and private data is freed
\* under a thread that looks it up only if the item has left the table since; the table
\* and the class agree; and what a failed or destroyed group leaves is the items that a
\* driver without free_privdata() has not unmade, and the memory of every device that
\* class_find_device() has ever found, which stays for good.
THEOREM GroupCorrect == Spec => [](TypeOK /\ DeviceIsAlive /\ ItemsMatchClass /\ LeftAtEnd)
BY GroupInvariance, GroupProperties, PTL

-----------------------------------------------------------------------------
(* ChardevDemo.                                                            *)

Active(t) == pc[t] # "idle" \/ file[t] # NoFile

\* The device that an opener has opened stays where it was found.  Without private
\* data its open count is not that of a finished item.
Opened(t) ==
  /\ at[t] \in Index /\ AtMinor(at[t]) # {} /\ AtMinor(at[t]) \subseteq ready \cup early
  /\ file[t] \in Made => items[at[t]] = file[t]
  /\ pc[t] \in {"dev_get_drvdata", "data", "test"} => dev[t] # NULL /\ items[at[t]] = dev[t]
  /\ file[t] = NULL \/ pc[t] = "no_data" => AtMinor(at[t]) \subseteq early
  /\ pc[t] = "no_data" => file[t] \notin Made
  /\ pc[t] = "test" => file[t] = NoFile

DemoTypes ==
  /\ driver \in {"demo", "hotplug"} /\ open_count \in [Made -> Int] /\ ready \subseteq 1..made
  /\ file \in [Opener -> {NoFile, NULL} \cup Made] /\ count \in [Opener -> Int]

\* The items of probers are not those of the demo driver.
Apartness ==
  /\ driver = "demo" => free_privdata /\ \A t \in Prober : pc[t] = "idle"
  /\ driver = "hotplug" => ready = {} /\ \A t \in Opener : file[t] = NoFile

\* The init function is at work on the last item made.
Loading ==
  /\ pc[Loader] \in Making \cup {"store", "made", "atomic_set"} => dev[Loader] = made /\ made > 0
  /\ pc[Loader] \in Making \cup {"store", "made", "atomic_set", "not_made"} => made \notin ready
  /\ pc[Loader] = "not_made" => made \notin registered
  /\ pc[Loader] = "running" => at[Loader] = 0
  /\ made > 0 /\ pc[Loader] # "end" => group = "group"
  /\ Unloading => \A t \in Opener : ~Active(t)

Openings == \A t \in Opener : Active(t) => Opened(t)

\* The threads that the open count of d counts, and those that it lets in.
Holds(t, d)  == file[t] = d \/ (pc[t] = "test" /\ dev[t] = d)
Enters(t, d) == file[t] = d \/ (pc[t] = "test" /\ dev[t] = d /\ count[t] <= 1)
OneEnters == \A d \in ready \ early : \A t, u \in Opener : Enters(t, d) /\ Enters(u, d) => t = u

DemoInv ==
  /\ GroupInv /\ DemoTypes /\ Apartness
  /\ driver = "demo" => Loading /\ Openings /\ CountMatchesOpeners /\ OneEnters

-----------------------------------------------------------------------------
(* The group under the demo driver.                                        *)

LEMMA Numbers ==
  /\ \A d \in Made : d # NULL /\ d # NoFile
  /\ NULL # NoFile
  /\ Types => 1..made \subseteq Made
BY ChardevAssumption DEF Made, NULL, NoFile, Types

\* The loading thread goes to a label of the demo driver.
LEMMA DemoLoaderGroup ==
  ASSUME GroupInv, Same, pc[Loader] \in {"loaded", "not_made", "made", "atomic_set"},
         NEW l \in {"running", "atomic_set", "loaded"}, Goto(Loader, l),
         at' = at \/ at' = [at EXCEPT ![Loader] = 0],
         UNCHANGED <<group, held, items, kernel, made, found, dev>>
  PROVE  GroupInv'
<1>1. UNCHANGED <<items, registered, minor, refs, attached, freed, made, dev, held>>
  BY DEF kernel
<1>2. pc'[Loader] = l /\ OnlyMoves(Loader)
  BY <1>1, Moves DEF GroupInv, Thread
<1>3. ~Unloading /\ ~Unloading'
  BY <1>2 DEF Unloading
<1>4. Phase'
  BY <1>2, <1>3 DEF Phase, Creating, Unmaking, Emptied, Same
<1>5. Good
  BY DEF GroupInv, Good
<1>6. Good'
  <2>1. LoaderRests(pc'[Loader])
    BY <1>2 DEF LoaderRests, Making, Unmaking
  <2>. QED  BY <1>1, <1>2, <1>3, <1>4, <1>5, <2>1, LoaderMoves DEF Making, Unmaking, GroupInv
<1>7. Types'
  <2>1. l \in LoaderLabel /\ group' \in {"NULL", "error", "group"}
    BY DEF LoaderLabel, GroupInv, Types
  <2>. QED  BY <2>1, LoaderTypes DEF GroupInv
<1>8. Held'
  BY <1>1, <1>2, HeldKept DEF GroupInv, Partial
<1>. QED  BY <1>6, <1>7, <1>8 DEF GroupInv, Good

\* It sets out to destroy the group.
LEMMA DemoUnloadGroup ==
  ASSUME GroupInv, Same, free_privdata, pc[Loader] \in {"loaded", "running", "not_made"},
         Goto(Loader, "next_item"),
         at' = [at EXCEPT ![Loader] = 0] \/ (at[Loader] = 0 /\ at' = at),
         UNCHANGED <<group, held, items, kernel, made, found, dev>>,
         \A t \in Prober : pc[t] \in {"idle", "made"}
  PROVE  GroupInv'
<1>1. UNCHANGED <<items, registered, minor, refs, attached, freed, made, dev>>
  BY DEF kernel
<1>2. Good'
  BY <1>1, StartUnloading DEF GroupInv, Good
<1>3. Types'
  <2>1. "next_item" \in LoaderLabel /\ group' \in {"NULL", "error", "group"}
    BY DEF LoaderLabel, GroupInv, Types
  <2>. QED  BY <2>1, LoaderTypes DEF GroupInv
<1>4. Held'
  <2>1. pc'[Loader] = "next_item"
    BY DEF Goto, GroupInv, Types, Thread
  <2>. QED  BY <2>1, HeldKept DEF GroupInv, Partial
<1>. QED  BY <1>2, <1>3, <1>4 DEF GroupInv, Good

\* It starts on the next item.
LEMMA DemoMakeGroup ==
  ASSUME GroupInv, Same, pc[Loader] = "loaded", CallMake(Loader)
  PROVE  GroupInv'
<1>1. Types' /\ Good'
  BY CallMakeGood, CallMakeTypes DEF GroupInv, Good, Worker
<1>2. Held'
  <2>1. pc'[Loader] = "scan" /\ held' = held
    BY DEF CallMake, Goto, GroupInv, Types, Thread
  <2>. QED  BY <2>1, HeldKept DEF GroupInv, Partial
<1>. QED  BY <1>1, <1>2 DEF GroupInv, Good

\* It is in a function of the group.
LEMMA DemoCallGroup ==
  ASSUME GroupInv, Same,
         CallCreate \/ chardev_group_create \/ chardev_group_make_item(Loader)
           \/ chardev_group_destroy
  PROVE  GroupInv'
<1>1. Types /\ Good /\ Held /\ Loader \in Worker
  BY DEF GroupInv, Good, Worker
<1>2. CASE CallCreate \/ chardev_group_create
  BY <1>1, <1>2, CreateSteps, CreateTypes, CreateHeld DEF GroupInv, Good
<1>3. CASE chardev_group_make_item(Loader)
  BY <1>1, <1>3, WorkGood, MakeTypes, WorkHeld DEF GroupInv, Good
<1>4. CASE chardev_group_destroy
  BY <1>1, <1>4, DestroyGood, DestroyTypes, DestroyHeld DEF GroupInv, Good
<1>. QED  BY <1>2, <1>3, <1>4

\* An opener moves.
LEMMA OpenerHeld ==
  ASSUME Types, Held, NEW t \in Opener, NEW l, Goto(t, l), held' = held
  PROVE  Held'
BY HeldKept, ChardevAssumption DEF Goto, Types, Thread

LEMMA DemoFindGroup ==
  ASSUME GroupInv, Same, NEW t \in Opener, NEW i \in Index, FindItem(t, i), found' \in 0..MaxFound
  PROVE  GroupInv'
<1>1. Types' /\ Good'
  BY FindItemGood, FindItemTypes DEF GroupInv, Good
<1>2. Held'
  BY OpenerHeld DEF FindItem, GroupInv
<1>. QED  BY <1>1, <1>2 DEF GroupInv, Good

LEMMA DemoOpenerGroup ==
  ASSUME GroupInv, Same, NEW t \in Opener,
         \/ DevGetDrvdata(t)
         \/ \E l : Leave(t, l)
         \/ /\ Goto(t, "oops") \/ (pc[t] = "data" /\ Goto(t, "test"))
            /\ UNCHANGED <<group, held, items, kernel, made, found, at, dev>>
  PROVE  GroupInv'
<1>. t \in Thread /\ t \notin Worker
  BY ChardevAssumption DEF Thread, Worker
<1>1. CASE DevGetDrvdata(t)
  <2>1. Types' /\ Good'
    BY <1>1, FindGood, DevGetDrvdataTypes DEF GroupInv, Good
  <2>2. Held'
    BY <1>1, OpenerHeld DEF DevGetDrvdata, GroupInv
  <2>. QED  BY <2>1, <2>2 DEF GroupInv, Good
<1>2. CASE \E l : Leave(t, l)
  <2>1. /\ Goto(t, "idle") /\ dev' = [dev EXCEPT ![t] = NULL]
        /\ UNCHANGED <<held, items, registered, minor, refs, attached, freed, made, at>>
    BY <1>2 DEF Leave, kernel
  <2>2. pc'[t] = "idle" /\ OnlyMoves(t)
    BY <2>1, Moves DEF GroupInv
  <2>3. Good'
    BY <2>1, <2>2, OpenerMoves DEF GroupInv, Good
  <2>4. Types'
    BY <1>2, LeaveTypes DEF GroupInv
  <2>5. Held'
    BY <2>1, OpenerHeld DEF GroupInv
  <2>. QED  BY <2>3, <2>4, <2>5 DEF GroupInv, Good
<1>3. CASE /\ Goto(t, "oops") \/ (pc[t] = "data" /\ Goto(t, "test"))
           /\ UNCHANGED <<group, held, items, kernel, made, found, at, dev>>
  <2>1. UNCHANGED <<items, registered, minor, refs, attached, freed, made, at, dev>>
    BY <1>3 DEF kernel
  <2>2. PICK l \in {"test", "oops"} : Goto(t, l) /\ (l = "oops" \/ pc[t] = "data")
    BY <1>3
  <2>3. pc'[t] = l /\ OnlyMoves(t)
    BY <2>1, <2>2, Moves DEF GroupInv
  <2>4. pc'[t] \in {"dev_get_drvdata", "data", "test"} => at'[t] \in Index
    BY <2>1, <2>2, <2>3 DEF GroupInv, Finds
  <2>5. Good'
    BY <2>1, <2>3, <2>4, OpenerMoves DEF GroupInv, Good
  <2>6. Types'
    <3>1. group' \in {"NULL", "error", "group"} /\ made' \in 0..MaxMade /\ found' \in 0..MaxFound
      BY <1>3 DEF GroupInv, Types
    <3>2. l \in Opening
      BY DEF Opening
    <3>. QED  BY <1>3, <2>2, <3>1, <3>2, TypesKeptQuiet DEF GroupInv
  <2>7. Held'
    BY <1>3, <2>2, OpenerHeld DEF GroupInv
  <2>. QED  BY <2>5, <2>6, <2>7 DEF GroupInv, Good
<1>. QED  BY <1>1, <1>2, <1>3

-----------------------------------------------------------------------------
(* The loading thread of the demo driver.                                  *)

OpenersStay ==
  \A t \in Opener : pc'[t] = pc[t] /\ dev'[t] = dev[t] /\ at'[t] = at[t] /\ file'[t] = file[t]
                    /\ count'[t] = count[t]

LEMMA LoaderAlone ==
  ASSUME OnlyMoves(Loader), UNCHANGED opening
  PROVE  OpenersStay /\ \A t \in Opener : (Active(t)' <=> Active(t))
BY ChardevAssumption DEF OnlyMoves, OpenersStay, Active, Thread, opening

\* The open counts are those of the openers.
LEMMA CountKept ==
  ASSUME CountMatchesOpeners, OneEnters, OpenersStay, UNCHANGED <<open_count, ready, early>>
  PROVE  CountMatchesOpeners' /\ OneEnters'
<1>1. ASSUME NEW d \in ready \ early
      PROVE  open_count'[d] =
               Cardinality({t \in Opener : file'[t] = d \/ (pc'[t] = "test" /\ dev'[t] = d)})
  <2>1. {t \in Opener : file'[t] = d \/ (pc'[t] = "test" /\ dev'[t] = d)} =
        {t \in Opener : file[t] = d \/ (pc[t] = "test" /\ dev[t] = d)}
    BY DEF OpenersStay
  <2>. QED  BY <2>1 DEF CountMatchesOpeners
<1>2. \A t \in Opener : \A d : Enters(t, d)' <=> Enters(t, d)
  BY DEF OpenersStay, Enters
<1>3. OneEnters'
  BY <1>2 DEF OneEnters
<1>. QED  BY <1>1, <1>3 DEF CountMatchesOpeners

\* What the openers have found stays where it is.
LEMMA OpeningsKept ==
  ASSUME Openings, OpenersStay, ready \subseteq ready', early' = early,
         \A t \in Opener : Active(t) =>
            /\ \A d : (d \in registered' /\ minor'[d] = at[t]) <=> (d \in registered /\ minor[d] = at[t])
            /\ items[at[t]] # NULL => items'[at[t]] = items[at[t]]
  PROVE  Openings'
<1>1. ASSUME NEW t \in Opener, Active(t)'
      PROVE  Opened(t)'
  <2>1. /\ pc'[t] = pc[t] /\ dev'[t] = dev[t] /\ at'[t] = at[t] /\ file'[t] = file[t]
        /\ Active(t)
    BY <1>1 DEF OpenersStay, Active
  <2>2. Opened(t)
    BY <2>1 DEF Openings
  <2>3. {d \in registered' : minor'[d] = at[t]} = {d \in registered : minor[d] = at[t]}
    BY <2>1
  <2>4. /\ file[t] \in Made => items'[at[t]] = file[t]
        /\ pc[t] \in {"dev_get_drvdata", "data", "test"} => items'[at[t]] = dev[t]
    BY <2>1, <2>2, Numbers DEF Opened
  <2>. QED  BY <2>1, <2>2, <2>3, <2>4 DEF Opened, AtMinor
<1>. QED  BY <1>1 DEF Openings

\* Without a device there is nobody who has opened one.
LEMMA NobodyActive ==
  ASSUME Openings, registered = {}
  PROVE  \A t \in Opener : ~Active(t)
BY DEF Openings, Opened, AtMinor

\* A finished item is in the table.
LEMMA ReadyListed ==
  ASSUME DemoInv, driver = "demo", ~Unloading, NEW d \in registered \cap ready
  PROVE  items[minor[d]] = d
<1>1. \A t \in Worker : pc[t] \in Unmaking \cup {"store"} => t = Loader /\ pc[t] = "store"
  BY DEF DemoInv, Apartness, Worker, Unloading, Unmaking
<1>2. pc[Loader] = "store" => dev[Loader] # d
  BY DEF DemoInv, Loading
<1>. QED  BY <1>1, <1>2 DEF DemoInv, GroupInv, Devices, Listed

\* What stays of the invariant when the loading thread neither touches a device nor
\* finishes an item.
LEMMA LoaderKeepsDemo ==
  ASSUME DemoInv, driver = "demo", driver' = driver, Same, OnlyMoves(Loader), GroupInv',
         UNCHANGED <<items, registered, minor, open_count, ready, opening>>,
         made \in Nat, made' \in {made, made + 1}, Loading'
  PROVE  DemoInv'
<1>1. OpenersStay /\ UNCHANGED <<file, count, early>>
  BY LoaderAlone DEF opening
<1>2. DemoTypes'
  BY <1>1 DEF DemoInv, DemoTypes
<1>3. Apartness'
  BY ChardevAssumption DEF DemoInv, Apartness, OnlyMoves, Thread, Same
<1>4. Openings'
  BY <1>1, OpeningsKept DEF DemoInv
<1>5. CountMatchesOpeners' /\ OneEnters'
  BY <1>1, CountKept DEF DemoInv
<1>. QED  BY <1>2, <1>3, <1>4, <1>5 DEF DemoInv

LEMMA InitNextDemo ==
  ASSUME DemoInv, driver = "demo", driver' = driver, Same, InitNext
  PROVE  DemoInv'
<1>. /\ GroupInv /\ Types /\ Loader \in Thread /\ pc[Loader] = "loaded" /\ made \in Nat
     /\ UNCHANGED <<open_count, ready, opening>>
  BY ChardevAssumption DEF DemoInv, GroupInv, Types, Thread, InitNext, demo
<1>1. CASE CallMake(Loader)
  <2>1. /\ Goto(Loader, "scan") /\ made' = made + 1 /\ dev' = [dev EXCEPT ![Loader] = made + 1]
        /\ at' = [at EXCEPT ![Loader] = 0] /\ group = "group"
        /\ UNCHANGED <<group, items, registered, minor>>
    BY <1>1 DEF CallMake, kernel
  <2>2. pc'[Loader] = "scan" /\ OnlyMoves(Loader)
    BY <2>1, Moves
  <2>3. dev'[Loader] = made' /\ made' > 0
    BY <2>1 DEF Types
  <2>4. Loading'
    <3>1. made' \notin ready'
      BY <2>1 DEF DemoInv, DemoTypes
    <3>2. ~Unloading'
      BY <2>2 DEF Unloading
    <3>. QED  BY <2>1, <2>2, <2>3, <3>1, <3>2 DEF Loading
  <2>5. GroupInv'
    BY <1>1, DemoMakeGroup
  <2>. QED  BY <2>1, <2>2, <2>4, <2>5, LoaderKeepsDemo
<1>2. CASE /\ Goto(Loader, IF made = 0 THEN "next_item" ELSE "running")
           /\ at' = [at EXCEPT ![Loader] = 0]
           /\ UNCHANGED <<group, held, items, kernel, made, found, dev>>
  <2>1. /\ Goto(Loader, IF made = 0 THEN "next_item" ELSE "running")
        /\ at' = [at EXCEPT ![Loader] = 0]
        /\ UNCHANGED <<group, items, registered, minor, made, dev>>
    BY <1>2 DEF kernel
  <2>2. pc'[Loader] = (IF made = 0 THEN "next_item" ELSE "running") /\ OnlyMoves(Loader)
    BY <2>1, Moves
  <2>3. GroupInv'
    <3>1. CASE made = 0
      BY <1>2, <3>1, DemoUnloadGroup DEF DemoInv, Apartness
    <3>2. CASE made # 0
      BY <1>2, <3>2, DemoLoaderGroup
    <3>. QED  BY <3>1, <3>2
  <2>4. Loading'
    <3>1. ASSUME Unloading', NEW t \in Opener
          PROVE  ~Active(t)'
      <4>1. made = 0
        BY <2>2, <3>1 DEF Unloading
      <4>2. registered = {}
        BY <4>1 DEF GroupInv, Devices
      <4>. QED  BY <2>2, <4>2, NobodyActive, LoaderAlone DEF DemoInv
    <3>2. made' > 0 /\ pc'[Loader] # "end" => group' = "group"
      BY <2>1 DEF DemoInv, Loading
    <3>3. at'[Loader] = 0
      BY <2>1, ChardevAssumption DEF Types
    <3>. QED  BY <2>2, <3>1, <3>2, <3>3 DEF Loading, Making
  <2>. QED  BY <2>1, <2>2, <2>3, <2>4, LoaderKeepsDemo
<1>. QED  BY <1>1, <1>2 DEF InitNext

LEMMA InitBreaksDemo ==
  ASSUME DemoInv, driver = "demo", driver' = driver, Same, InitBreaks
  PROVE  DemoInv'
<1>. /\ GroupInv /\ Types /\ Loader \in Thread /\ made \in Nat
     /\ UNCHANGED <<open_count, ready, opening>>
  BY ChardevAssumption DEF DemoInv, GroupInv, Types, Thread, InitBreaks, demo
<1>1. /\ pc[Loader] = "not_made" /\ Goto(Loader, IF made = 1 THEN "next_item" ELSE "running")
      /\ at' = [at EXCEPT ![Loader] = 0]
      /\ UNCHANGED <<group, held, items, kernel, made, found, dev>>
      /\ UNCHANGED <<group, items, registered, minor, made, dev>>
  BY DEF InitBreaks, kernel
<1>2. pc'[Loader] = (IF made = 1 THEN "next_item" ELSE "running") /\ OnlyMoves(Loader)
  BY <1>1, Moves
<1>3. GroupInv'
  <2>1. CASE made = 1
    BY <1>1, <2>1, DemoUnloadGroup DEF DemoInv, Apartness
  <2>2. CASE made # 1
    BY <1>1, <2>2, DemoLoaderGroup
  <2>. QED  BY <2>1, <2>2
<1>4. Loading'
  <2>1. ASSUME Unloading', NEW t \in Opener
        PROVE  ~Active(t)'
    <3>1. made = 1
      BY <1>2, <2>1 DEF Unloading
    <3>2. registered \subseteq 1..1 /\ 1 \notin registered
      BY <1>1, <3>1 DEF GroupInv, Devices, DemoInv, Loading
    <3>3. registered = {}
      BY <3>2
    <3>. QED  BY <1>2, <3>3, NobodyActive, LoaderAlone DEF DemoInv
  <2>2. made' > 0 /\ pc'[Loader] # "end" => group' = "group"
    BY <1>1 DEF DemoInv, Loading
  <2>3. at'[Loader] = 0
    BY <1>1, ChardevAssumption DEF Types
  <2>. QED  BY <1>2, <2>1, <2>2, <2>3 DEF Loading, Making
<1>. QED  BY <1>1, <1>2, <1>3, <1>4, LoaderKeepsDemo

LEMMA SetDeviceDemo ==
  ASSUME DemoInv, driver = "demo", driver' = driver, Same, SetDevice
  PROVE  DemoInv'
<1>. /\ GroupInv /\ Types /\ Loader \in Thread /\ made \in Nat
     /\ UNCHANGED <<open_count, ready, opening>>
  BY ChardevAssumption DEF DemoInv, GroupInv, Types, Thread, SetDevice
<1>1. /\ pc[Loader] = "made" /\ Goto(Loader, "atomic_set")
      /\ UNCHANGED <<group, held, items, kernel, made, found, at, dev>>
      /\ UNCHANGED <<group, items, registered, minor, made, at, dev>>
  BY DEF SetDevice, kernel
<1>2. pc'[Loader] = "atomic_set" /\ OnlyMoves(Loader)
  BY <1>1, Moves
<1>3. GroupInv'
  BY <1>1, DemoLoaderGroup
<1>4. Loading'
  <2>1. ~Unloading'
    BY <1>2 DEF Unloading
  <2>. QED  BY <1>1, <1>2, <2>1 DEF DemoInv, Loading
<1>. QED  BY <1>1, <1>2, <1>3, <1>4, LoaderKeepsDemo

\* The item is finished: the openers that came early do not count.
LEMMA SetOpenCountDemo ==
  ASSUME DemoInv, driver = "demo", driver' = driver, Same, SetOpenCount
  PROVE  DemoInv'
<1>. /\ GroupInv /\ Types /\ Loader \in Thread /\ made \in Nat /\ UNCHANGED opening
  BY ChardevAssumption DEF DemoInv, GroupInv, Types, Thread, SetOpenCount
<1>1. /\ pc[Loader] = "atomic_set" /\ Goto(Loader, "loaded")
      /\ open_count' = [open_count EXCEPT ![dev[Loader]] = 0]
      /\ ready' = ready \cup {dev[Loader]}
      /\ UNCHANGED <<group, held, items, kernel, made, found, at, dev>>
      /\ UNCHANGED <<group, items, registered, minor, made, at, dev>>
  BY DEF SetOpenCount, kernel
<1>2. pc'[Loader] = "loaded" /\ OnlyMoves(Loader)
  BY <1>1, Moves
<1>3. GroupInv'
  BY <1>1, DemoLoaderGroup
<1>4. OpenersStay /\ UNCHANGED <<file, count, early>>
  BY <1>2, LoaderAlone DEF opening
<1>5. Loading'
  <2>1. ~Unloading'
    BY <1>2 DEF Unloading
  <2>2. made' > 0 /\ pc'[Loader] # "end" => group' = "group"
    BY <1>1 DEF DemoInv, Loading
  <2>. QED  BY <1>2, <2>1, <2>2 DEF Loading, Making
<1>6. dev[Loader] = made /\ made \notin ready
  BY <1>1 DEF DemoInv, Loading
<1>7. made > 0
  BY <1>1 DEF DemoInv, Loading
<1>8. made \in Made
  BY <1>7, ChardevAssumption DEF Made, Types
<1>9. DemoTypes'
  <2>1. ready' \subseteq 1..made'
    BY <1>1, <1>6, <1>8 DEF DemoInv, DemoTypes, Made
  <2>2. open_count' \in [Made -> Int]
    <3>1. open_count \in [Made -> Int] /\ open_count' = [open_count EXCEPT ![dev[Loader]] = 0]
      BY <1>1 DEF DemoInv, DemoTypes
    <3>2. dev[Loader] \in Made /\ 0 \in Int
      BY <1>6, <1>8
    <3>. QED  BY <3>1, <3>2
  <2>. QED  BY <1>4, <2>1, <2>2 DEF DemoInv, DemoTypes
<1>10. Apartness'
  BY <1>2, ChardevAssumption DEF DemoInv, Apartness, OnlyMoves, Thread, Same
<1>11. Openings'
  BY <1>1, <1>4, OpeningsKept DEF DemoInv
<1>12. \A t \in Opener : made \notin early => ~Holds(t, made)
  <2>1. ASSUME NEW t \in Opener, Holds(t, made)
        PROVE  made \in early
    <3>1. Opened(t)
      <4>1. Active(t)
        BY <1>8, <2>1, Numbers DEF Holds, Active
      <4>. QED  BY <4>1 DEF DemoInv, Openings
    <3>2. items[at[t]] = made /\ made # NULL /\ at[t] \in Index
      BY <1>8, <2>1, <3>1, Numbers DEF Holds, Opened
    <3>3. made \in AtMinor(at[t])
      BY <3>2 DEF GroupInv, Devices, Item, AtMinor
    <3>. QED  BY <1>6, <3>1, <3>3 DEF Opened
  <2>. QED  BY <2>1
<1>13. CountMatchesOpeners'
  <2>1. ASSUME NEW d \in ready' \ early
        PROVE  open_count'[d] =
                 Cardinality({t \in Opener : file[t] = d \/ (pc[t] = "test" /\ dev[t] = d)})
    <3>1. CASE d = made
      <4>1. {t \in Opener : file[t] = d \/ (pc[t] = "test" /\ dev[t] = d)} = {}
        BY <1>12, <2>1, <3>1 DEF Holds
      <4>2. open_count'[d] = 0
        BY <1>1, <1>6, <1>8, <3>1 DEF DemoInv, DemoTypes
      <4>. QED  BY <4>1, <4>2, FS_EmptySet
    <3>2. CASE d # made
      <4>1. d \in ready \ early /\ open_count'[d] = open_count[d]
        BY <1>1, <1>6, <2>1, <3>2 DEF DemoInv, DemoTypes
      <4>. QED  BY <4>1 DEF DemoInv, CountMatchesOpeners
    <3>. QED  BY <3>1, <3>2
  <2>2. \A d : {t \in Opener : file'[t] = d \/ (pc'[t] = "test" /\ dev'[t] = d)} =
               {t \in Opener : file[t] = d \/ (pc[t] = "test" /\ dev[t] = d)}
    BY <1>4 DEF OpenersStay
  <2>. QED  BY <1>4, <2>1, <2>2 DEF CountMatchesOpeners
<1>14. OneEnters'
  <2>1. \A t \in Opener : \A d : (Enters(t, d)' <=> Enters(t, d)) /\ (Enters(t, d) => Holds(t, d))
    BY <1>4 DEF OpenersStay, Enters, Holds
  <2>2. ASSUME NEW d \in ready' \ early, NEW t \in Opener, NEW u \in Opener,
               Enters(t, d), Enters(u, d)
        PROVE  t = u
    <3>1. d # made
      BY <1>12, <2>1, <2>2
    <3>2. d \in ready \ early
      BY <1>1, <1>6, <2>2, <3>1
    <3>. QED  BY <2>2, <3>2 DEF DemoInv, OneEnters
  <2>. QED  BY <1>4, <2>1, <2>2 DEF OneEnters
<1>. QED  BY <1>3, <1>5, <1>9, <1>10, <1>11, <1>13, <1>14 DEF DemoInv

LEMMA DemoExitDemo ==
  ASSUME DemoInv, driver = "demo", driver' = driver, Same, chardev_group_demo_exit
  PROVE  DemoInv'
<1>. /\ GroupInv /\ Types /\ Loader \in Thread /\ made \in Nat
     /\ UNCHANGED <<open_count, ready, opening>>
  BY ChardevAssumption DEF DemoInv, GroupInv, Types, Thread, chardev_group_demo_exit, demo
<1>1. /\ pc[Loader] = "running" /\ Goto(Loader, "next_item")
      /\ UNCHANGED <<group, held, items, kernel, made, found, at, dev>>
      /\ UNCHANGED <<group, items, registered, minor, made, at, dev>>
      /\ \A t \in Opener : ~Active(t)
  BY DEF chardev_group_demo_exit, kernel, Active
<1>2. pc'[Loader] = "next_item" /\ OnlyMoves(Loader)
  BY <1>1, Moves
<1>3. GroupInv'
  <2>1. at[Loader] = 0
    BY <1>1 DEF DemoInv, Loading
  <2>. QED  BY <1>1, <2>1, DemoUnloadGroup DEF DemoInv, Apartness
<1>4. Loading'
  <2>1. \A t \in Opener : ~Active(t)'
    BY <1>1, <1>2, LoaderAlone
  <2>2. made' > 0 /\ pc'[Loader] # "end" => group' = "group"
    BY <1>1 DEF DemoInv, Loading
  <2>. QED  BY <1>2, <2>1, <2>2 DEF Loading, Making
<1>. QED  BY <1>1, <1>2, <1>3, <1>4, LoaderKeepsDemo

\* The group is created: nobody has opened anything.
LEMMA DemoCreates ==
  ASSUME DemoInv, driver = "demo", driver' = driver, Same, CallCreate \/ chardev_group_create,
         UNCHANGED <<demo, opening>>
  PROVE  DemoInv'
<1>1. GroupInv /\ Types /\ Good /\ made \in Nat /\ GroupInv'
  BY ChardevAssumption, DemoCallGroup DEF DemoInv, GroupInv, Good, Types
<1>2. /\ pc[Loader] \in Creating /\ pc'[Loader] \in Creating \cup {"loaded", "end"}
      /\ OnlyMoves(Loader)
  BY <1>1, CreateSteps
<1>3. UNCHANGED <<items, registered, minor, made, open_count, ready>>
  BY DEF CallCreate, chardev_group_create, Get, GiveBack, CreateReturns, kernel, demo
<1>4. Loading'
  <2>1. made = 0
    BY <1>1, <1>2 DEF Good, Phase
  <2>2. registered = {}
    BY <1>1, <2>1 DEF Good, Devices
  <2>3. \A t \in Opener : ~Active(t)'
    BY <1>2, <2>2, NobodyActive, LoaderAlone DEF DemoInv
  <2>. QED  BY <1>2, <1>3, <2>1, <2>3 DEF Loading, Creating, Making
<1>. QED  BY <1>1, <1>2, <1>3, <1>4, LoaderKeepsDemo

\* The group is destroyed: nobody has anything open.
LEMMA DemoDestroys ==
  ASSUME DemoInv, driver = "demo", driver' = driver, Same, chardev_group_destroy,
         UNCHANGED <<demo, opening>>
  PROVE  DemoInv'
<1>1. GroupInv /\ Types /\ Good /\ made \in Nat /\ GroupInv'
  BY ChardevAssumption, DemoCallGroup DEF DemoInv, GroupInv, Good, Types
<1>2. /\ pc[Loader] \in Unmaking \cup Emptied \cup {"next_item", "unmake", "clear_item",
                                                    "dev_name", "unmade"}
      /\ \E l \in Unmaking \cup Emptied \cup {"next_item", "unmake", "clear_item", "dev_name",
                                              "unmade"} : Goto(Loader, l) /\ (group' = group \/ l = "end")
      /\ dev' = dev \/ \E x : dev' = [dev EXCEPT ![Loader] = x]
      /\ at' = at \/ \E x : at' = [at EXCEPT ![Loader] = x]
      /\ made' = made
  <2>1. CASE NextItem
    BY <2>1 DEF NextItem, Emptied
  <2>2. CASE chardev_group_unmake_item(Loader)
    BY <2>2 DEF chardev_group_unmake_item, Unmake, ClearItem, FreePrivdata, ClearPrivdata,
                DeviceDestroy, DevName, Unmaking
  <2>3. CASE ItemUnmade
    BY <2>3 DEF ItemUnmade
  <2>4. CASE GivesBack
    BY <2>4 DEF GivesBack, GiveBack, CreateReturns, Emptied
  <2>. QED  BY <2>1, <2>2, <2>3, <2>4 DEF chardev_group_destroy, GivesBack
<1>3. PICK l \in Unmaking \cup Emptied \cup {"next_item", "unmake", "clear_item", "dev_name",
                                             "unmade"} : Goto(Loader, l) /\ (group' = group \/ l = "end")
  BY <1>2
<1>4. pc'[Loader] = l /\ OnlyMoves(Loader)
  BY <1>1, <1>2, <1>3, Moves DEF Thread
<1>5. OpenersStay /\ \A t \in Opener : (Active(t)' <=> Active(t))
  BY <1>4, LoaderAlone
<1>6. \A t \in Opener : ~Active(t) /\ ~Active(t)'
  BY <1>2, <1>5, UnloadingLabels DEF DemoInv, Loading
<1>7. UNCHANGED <<open_count, ready, file, count, early>>
  BY DEF demo, opening
<1>8. DemoTypes'
  BY <1>2, <1>7 DEF DemoInv, DemoTypes
<1>9. Apartness'
  BY <1>4, <1>7, ChardevAssumption DEF DemoInv, Apartness, OnlyMoves, Thread, Same
<1>10. Loading'
  <2>1. pc[Loader] # "end"
    <3>1. CASE NextItem \/ ItemUnmade \/ GivesBack
      BY <3>1 DEF NextItem, ItemUnmade, GivesBack, GiveBack, CreateReturns
    <3>2. CASE chardev_group_unmake_item(Loader)
      BY <3>2 DEF chardev_group_unmake_item, Unmake, ClearItem, FreePrivdata, ClearPrivdata,
                  DeviceDestroy, DevName
    <3>. QED  BY <3>1, <3>2 DEF chardev_group_destroy, GivesBack
  <2>2. made' > 0 /\ pc'[Loader] # "end" => group' = "group"
    BY <1>2, <1>3, <1>4, <2>1 DEF DemoInv, Loading
  <2>. QED  BY <1>4, <1>6, <2>2 DEF Loading, Making, Unmaking, Emptied
<1>11. Openings'
  BY <1>6 DEF Openings
<1>12. CountMatchesOpeners' /\ OneEnters'
  BY <1>5, <1>7, CountKept DEF DemoInv
<1>. QED  BY <1>1, <1>8, <1>9, <1>10, <1>11, <1>12 DEF DemoInv

\* An item is made under the eyes of the openers.
LEMMA DemoMakes ==
  ASSUME DemoInv, driver = "demo", driver' = driver, Same, chardev_group_make_item(Loader),
         UNCHANGED <<demo, opening>>
  PROVE  DemoInv'
<1>1. GroupInv /\ Types /\ Good /\ made \in Nat /\ GroupInv' /\ Loader \in Thread
  BY ChardevAssumption, DemoCallGroup DEF DemoInv, GroupInv, Good, Types, Thread
<1>2. UNCHANGED <<group, made, open_count, ready, file, count, early>>
  BY DEF chardev_group_make_item, Scan, DeviceCreate, Store, demo, opening
<1>3. pc[Loader] \in Making \cup {"store"} /\ Work(Loader) /\ dev[Loader] = made /\ made > 0
  <2>1. pc[Loader] \in Making \cup {"store"}
    BY DEF chardev_group_make_item, Scan, DeviceCreate, Store, Making
  <2>. QED  BY <1>1, <2>1 DEF DemoInv, Loading, Good, Works, Worker
<1>4. made \notin ready
  BY <1>3 DEF DemoInv, Loading
<1>5. DemoTypes'
  BY <1>2 DEF DemoInv, DemoTypes
<1>6. ASSUME OnlyMoves(Loader), pc'[Loader] \in Making \cup {"store", "made", "not_made"},
             pc'[Loader] # "not_made" => dev'[Loader] = made,
             pc'[Loader] = "not_made" => made \notin registered',
             \A t \in Opener : Active(t) =>
                /\ \A d : (d \in registered' /\ minor'[d] = at[t])
                            <=> (d \in registered /\ minor[d] = at[t])
                /\ items[at[t]] # NULL => items'[at[t]] = items[at[t]]
      PROVE  DemoInv'
  <2>1. OpenersStay
    BY <1>6, LoaderAlone
  <2>2. Apartness'
    BY <1>2, <1>6, ChardevAssumption DEF DemoInv, Apartness, OnlyMoves, Thread, Same
  <2>3. Loading'
    <3>1. ~Unloading'
      BY <1>6 DEF Unloading, Making
    <3>2. group = "group"
      BY <1>3 DEF DemoInv, Loading, Making
    <3>. QED  BY <1>2, <1>3, <1>4, <1>6, <3>1, <3>2 DEF Loading, Making
  <2>4. Openings'
    BY <1>2, <1>6, <2>1, OpeningsKept DEF DemoInv
  <2>5. CountMatchesOpeners' /\ OneEnters'
    BY <1>2, <2>1, CountKept DEF DemoInv
  <2>. QED  BY <1>1, <1>5, <2>2, <2>3, <2>4, <2>5 DEF DemoInv
<1>7. CASE Scan(Loader)
  <2>1. UNCHANGED <<items, registered, minor>> /\ pc[Loader] = "scan"
    BY <1>7 DEF Scan
  <2>2. made \notin registered
    BY <1>3, <2>1 DEF Work, Making
  <2>3. CASE MakeFails(Loader) /\ UNCHANGED <<refs, taken, at>>
    <3>1. pc'[Loader] = "not_made" /\ OnlyMoves(Loader)
      BY <1>1, <2>3, Moves DEF MakeFails
    <3>. QED  BY <1>6, <2>1, <2>2, <3>1
  <2>4. CASE Goto(Loader, "device_create") /\ UNCHANGED <<refs, taken, freed, at, dev>>
    <3>1. pc'[Loader] = "device_create" /\ OnlyMoves(Loader)
      BY <1>1, <2>4, Moves
    <3>. QED  BY <1>3, <1>6, <2>1, <2>4, <3>1 DEF Making
  <2>5. CASE at' = [at EXCEPT ![Loader] = @ + 1] /\ UNCHANGED <<pc, freed, dev>>
    <3>1. pc'[Loader] = "scan" /\ OnlyMoves(Loader)
      BY <1>1, <2>1, <2>5 DEF OnlyMoves, Types
    <3>. QED  BY <1>3, <1>6, <2>1, <2>5, <3>1 DEF Making
  <2>. QED  BY <1>7, <2>3, <2>4, <2>5 DEF Scan
<1>8. CASE DeviceCreate(Loader)
  <2>1. UNCHANGED <<items, at>> /\ pc[Loader] = "device_create"
    BY <1>8 DEF DeviceCreate
  <2>2. made \notin registered
    BY <1>3, <2>1 DEF Work, Making
  <2>3. CASE MakeFails(Loader) /\ UNCHANGED <<registered, minor, refs, taken, attached>>
    <3>1. pc'[Loader] = "not_made" /\ OnlyMoves(Loader)
      BY <1>1, <2>1, <2>3, Moves DEF MakeFails
    <3>. QED  BY <1>6, <2>1, <2>2, <2>3, <3>1
  <2>4. CASE /\ AtMinor(at[Loader]) = {} /\ registered' = registered \cup {dev[Loader]}
             /\ minor' = [minor EXCEPT ![dev[Loader]] = at[Loader]]
             /\ Goto(Loader, "store") /\ UNCHANGED <<freed, dev>>
    <3>1. pc'[Loader] = "store" /\ OnlyMoves(Loader)
      BY <1>1, <2>1, <2>4, Moves
    <3>2. /\ minor'[made] = at[Loader] /\ \A d \in registered : minor'[d] = minor[d]
          /\ registered' = registered \cup {made}
      <4>1. made \in Made /\ registered \subseteq Made /\ minor \in [Made -> Index \cup {0}]
        BY <1>3, ChardevAssumption DEF Types, Made, DemoInv, GroupInv
      <4>. QED  BY <1>3, <2>2, <2>4, <4>1
    <3>3. ASSUME NEW t \in Opener, Active(t)
          PROVE  \A d : (d \in registered' /\ minor'[d] = at[t])
                          <=> (d \in registered /\ minor[d] = at[t])
      <4>1. at[t] # at[Loader]
        BY <2>4, <3>3 DEF DemoInv, Openings, Opened
      <4>. QED  BY <3>2, <4>1
    <3>. QED  BY <1>3, <1>6, <2>1, <2>4, <3>1, <3>3
  <2>. QED  BY <1>8, <2>3, <2>4 DEF DeviceCreate
<1>9. CASE Store(Loader)
  <2>1. /\ pc[Loader] = "store" /\ items' = [items EXCEPT ![at[Loader]] = dev[Loader]]
        /\ Goto(Loader, "made") /\ UNCHANGED <<registered, minor, at, dev>>
    BY <1>9 DEF Store, kernel
  <2>2. pc'[Loader] = "made" /\ OnlyMoves(Loader)
    BY <1>1, <2>1, Moves
  <2>3. items[at[Loader]] = NULL
    BY <1>3, <2>1 DEF Work, Unlisted
  <2>4. ASSUME NEW t \in Opener, Active(t), items[at[t]] # NULL
        PROVE  items'[at[t]] = items[at[t]]
    <3>1. at[t] \in Index /\ at[t] # at[Loader]
      BY <2>3, <2>4 DEF DemoInv, Openings, Opened
    <3>. QED  BY <1>1, <2>1, <3>1 DEF Types
  <2>. QED  BY <1>3, <1>6, <2>1, <2>2, <2>4
<1>. QED  BY <1>7, <1>8, <1>9 DEF chardev_group_make_item

LEMMA LoadDemo ==
  ASSUME DemoInv, driver = "demo", driver' = driver, Same, Load
  PROVE  DemoInv'
BY InitNextDemo, InitBreaksDemo, SetDeviceDemo, SetOpenCountDemo, DemoExitDemo, DemoCreates,
   DemoMakes, DemoDestroys DEF Load

-----------------------------------------------------------------------------
(* The openers of the demo driver.                                         *)

Holders(d) == {t \in Opener : Holds(t, d)}

\* The others go on holding what they hold.
OthersHold(t) ==
  \A u \in Opener \ {t} : pc'[u] = pc[u] /\ dev'[u] = dev[u] /\ at'[u] = at[u]
                          /\ file'[u] = file[u] /\ count'[u] = count[u]

LEMMA HoldersChange ==
  ASSUME NEW t \in Opener, OthersHold(t), NEW d
  PROVE  /\ (Holds(t, d)' <=> Holds(t, d)) => Cardinality(Holders(d)') = Cardinality(Holders(d))
         /\ ~Holds(t, d) /\ Holds(t, d)' => Cardinality(Holders(d)') = Cardinality(Holders(d)) + 1
         /\ Holds(t, d) /\ ~Holds(t, d)' => Cardinality(Holders(d)') = Cardinality(Holders(d)) - 1
         /\ Cardinality(Holders(d)) \in Nat
         /\ Cardinality(Holders(d)) = 0 => Holders(d) = {}
<1>1. \A u \in Opener \ {t} : Holds(u, d)' <=> Holds(u, d)
  BY DEF OthersHold, Holds
<1>2. IsFiniteSet(Holders(d)) /\ Cardinality(Holders(d)) \in Nat
  BY DemoAssumption, FS_Subset, FS_CardinalityType DEF Holders
<1>3. Cardinality(Holders(d)) = 0 => Holders(d) = {}
  BY <1>2, FS_EmptySet
<1>4. ASSUME Holds(t, d)' <=> Holds(t, d)
      PROVE  Cardinality(Holders(d)') = Cardinality(Holders(d))
  <2>1. Holders(d)' = Holders(d)
    BY <1>1, <1>4 DEF Holders
  <2>. QED  BY <2>1
<1>5. ASSUME ~Holds(t, d), Holds(t, d)'
      PROVE  Cardinality(Holders(d)') = Cardinality(Holders(d)) + 1
  <2>1. Holders(d)' = Holders(d) \cup {t} /\ t \notin Holders(d)
    BY <1>1, <1>5 DEF Holders
  <2>. QED  BY <1>2, <2>1, FS_AddElement
<1>6. ASSUME Holds(t, d), ~Holds(t, d)'
      PROVE  Cardinality(Holders(d)') = Cardinality(Holders(d)) - 1
  <2>1. Holders(d)' = Holders(d) \ {t} /\ t \in Holders(d)
    BY <1>1, <1>6 DEF Holders
  <2>. QED  BY <1>2, <2>1, FS_RemoveElement
<1>. QED  BY <1>2, <1>3, <1>4, <1>5, <1>6

LEMMA CountIsHolders ==
  /\ CountMatchesOpeners <=> \A d \in ready \ early : open_count[d] = Cardinality(Holders(d))
BY DEF CountMatchesOpeners, Holders, Holds

\* A step of one opener, which keeps the others where they are.
LEMMA OpenerKeepsDemo ==
  ASSUME DemoInv, driver = "demo", driver' = driver, Same, NEW t \in Opener, OnlyMoves(t), GroupInv',
         \A u \in Opener \ {t} : file'[u] = file[u] /\ count'[u] = count[u],
         UNCHANGED <<group, items, registered, minor, made, ready>>, early \subseteq early',
         DemoTypes', ~Unloading, Active(t)' => Opened(t)',
         \A d \in ready \ early' : open_count'[d] = Cardinality(Holders(d)'),
         \A d \in ready \ early', u \in Opener \ {t} :
            Enters(t, d)' => Enters(t, d) \/ ~Enters(u, d)
  PROVE  DemoInv'
<1>1. OthersHold(t) /\ \A u \in Worker : pc'[u] = pc[u] /\ dev'[u] = dev[u] /\ at'[u] = at[u]
  BY ChardevAssumption DEF OthersHold, OnlyMoves, Thread, Worker
<1>2. Apartness'
  BY <1>1 DEF DemoInv, Apartness, Worker, Same
<1>3. Loading'
  <2>1. pc'[Loader] = pc[Loader] /\ dev'[Loader] = dev[Loader] /\ at'[Loader] = at[Loader]
        /\ ~Unloading'
    BY <1>1 DEF Worker, Unloading
  <2>. QED  BY <2>1 DEF DemoInv, Loading
<1>4. Openings'
  <2>1. ASSUME NEW u \in Opener \ {t}, Active(u)'
        PROVE  Opened(u)'
    <3>1. Opened(u)
      BY <1>1, <2>1 DEF DemoInv, Openings, OthersHold, Active
    <3>. QED  BY <1>1, <3>1 DEF OthersHold, Opened, AtMinor
  <2>. QED  BY <2>1 DEF Openings
<1>5. CountMatchesOpeners'
  <2>1. \A d \in ready' \ early' :
          open_count'[d] = Cardinality({u \in Opener : file'[u] = d \/ (pc'[u] = "test" /\ dev'[u] = d)})
    BY DEF Holders, Holds
  <2>. QED  BY <2>1 DEF CountMatchesOpeners
<1>6. OneEnters'
  <2>1. \A u \in Opener \ {t} : \A d : Enters(u, d)' <=> Enters(u, d)
    BY <1>1 DEF OthersHold, Enters
  <2>2. \A d \in ready \ early : \A u, v \in Opener : Enters(u, d) /\ Enters(v, d) => u = v
    BY DEF DemoInv, OneEnters
  <2>3. ASSUME NEW d \in ready' \ early', NEW u \in Opener, NEW v \in Opener,
               Enters(u, d)', Enters(v, d)', u # v
        PROVE  FALSE
    <3>1. d \in ready \ early /\ d \in ready \ early'
      OBVIOUS
    <3>2. CASE u # t /\ v # t
      BY <2>1, <2>2, <2>3, <3>1, <3>2
    <3>3. CASE u = t
      BY <2>1, <2>2, <2>3, <3>1, <3>3
    <3>4. CASE v = t
      BY <2>1, <2>2, <2>3, <3>1, <3>4
    <3>. QED  BY <3>2, <3>3, <3>4
  <2>. QED  BY <2>3 DEF OneEnters
<1>. QED  BY <1>2, <1>3, <1>4, <1>5, <1>6 DEF DemoInv

\* What an opener knows of the device that it has found.
LEMMA OpenedDevice ==
  ASSUME DemoInv, driver = "demo", NEW t \in Opener, Active(t)
  PROVE  /\ ~Unloading /\ group = "group" /\ Opened(t) /\ t \in Thread
         /\ pc[t] \in {"dev_get_drvdata", "data", "test"} =>
              /\ dev[t] \in Made /\ dev[t] \in AtMinor(at[t]) /\ dev[t] \in attached
              /\ dev[t] \in ready \cup early /\ dev[t] \notin freed
<1>1. Opened(t) /\ ~Unloading
  BY DEF DemoInv, Openings, Loading
<1>2. made > 0 /\ pc[Loader] # "end"
  <2>1. registered # {} /\ registered \subseteq 1..made /\ made \in Nat
    BY <1>1, ChardevAssumption DEF Opened, AtMinor, DemoInv, GroupInv, Devices, Types
  <2>2. PICK d \in 1..made : TRUE
    BY <2>1
  <2>3. made > 0
    BY <2>1, <2>2
  <2>. QED  BY <1>1, <2>3 DEF Unloading
<1>3. group = "group"
  BY <1>2 DEF DemoInv, Loading
<1>4. ASSUME pc[t] \in {"dev_get_drvdata", "data", "test"}
      PROVE  /\ dev[t] \in Made /\ dev[t] \in AtMinor(at[t]) /\ dev[t] \in attached
             /\ dev[t] \in ready \cup early /\ dev[t] \notin freed
  <2>1. dev[t] # NULL /\ items[at[t]] = dev[t] /\ at[t] \in Index
    BY <1>1, <1>4 DEF Opened
  <2>2. /\ dev[t] \in attached /\ minor[dev[t]] = at[t] /\ dev[t] \in registered
        /\ dev[t] \notin freed
    BY <2>1 DEF DemoInv, GroupInv, Devices, Item
  <2>3. dev[t] \in AtMinor(at[t]) /\ dev[t] \in Made
    BY <2>2 DEF AtMinor, DemoInv, GroupInv, Types
  <2>. QED  BY <1>1, <2>2, <2>3 DEF Opened
<1>. QED  BY <1>1, <1>3, <1>4 DEF Thread

\* The finished devices are devices.
LEMMA ReadyMade ==
  ASSUME DemoInv
  PROVE  ready \subseteq Made /\ \A d \in ready : d # NULL /\ d # NoFile
BY Numbers DEF DemoInv, DemoTypes, GroupInv

\* The open counts when no opener holds more or less than before.
LEMMA SameHolders ==
  ASSUME DemoInv, driver = "demo", NEW t \in Opener, OthersHold(t), open_count' = open_count,
         early \subseteq early',
         \A d \in ready \ early : Holds(t, d)' <=> Holds(t, d)
  PROVE  \A d \in ready \ early' : open_count'[d] = Cardinality(Holders(d)')
<1>1. ASSUME NEW d \in ready \ early'
      PROVE  open_count'[d] = Cardinality(Holders(d)')
  <2>1. d \in ready \ early /\ (Holds(t, d)' <=> Holds(t, d))
    OBVIOUS
  <2>2. Cardinality(Holders(d)') = Cardinality(Holders(d))
    BY <2>1, HoldersChange
  <2>3. open_count[d] = Cardinality(Holders(d))
    BY <2>1, CountIsHolders DEF DemoInv
  <2>. QED  BY <2>2, <2>3
<1>. QED  BY <1>1

\* A device is looked for at a minor number of which the openers that came early are
\* noted: what is found there is finished or noted, and if nothing is, all of it is noted.
LEMMA FindDemo ==
  ASSUME DemoInv, driver = "demo", driver' = driver, Same, NEW t \in Opener, NEW i \in Index,
         pc[t] = "idle", FindItem(t, i), found' \in 0..MaxFound, ~Unloading,
         AtMinor(i) # {}, early \subseteq early', AtMinor(i) \subseteq ready \cup early',
         file[t] = NULL => AtMinor(i) \subseteq early', file[t] \in Made => items[i] = file[t],
         UNCHANGED <<open_count, ready, file, count>>
  PROVE  DemoInv'
<1>1. GroupInv /\ Types /\ t \in Thread /\ made \in Nat
  BY ChardevAssumption DEF DemoInv, GroupInv, Types, Thread
<1>2. group = "group"
  <2>1. made > 0 /\ pc[Loader] # "end"
    <3>1. registered # {} /\ registered \subseteq 1..made
      BY DEF AtMinor, DemoInv, GroupInv, Devices
    <3>2. PICK d \in 1..made : TRUE
      BY <3>1
    <3>3. made > 0
      BY <1>1, <3>2
    <3>. QED  BY <3>3 DEF Unloading
  <2>. QED  BY <2>1 DEF DemoInv, Loading
<1>3. /\ dev' = [dev EXCEPT ![t] = items[i]] /\ at' = [at EXCEPT ![t] = i]
      /\ Goto(t, IF dev'[t] = NULL THEN "no_data" ELSE "dev_get_drvdata")
      /\ UNCHANGED <<group, items, registered, minor, made>>
  BY <1>2 DEF FindItem, kernel
<1>4. /\ pc'[t] = (IF dev'[t] = NULL THEN "no_data" ELSE "dev_get_drvdata") /\ OnlyMoves(t)
      /\ dev'[t] = items[i] /\ at'[t] = i
  <2>1. dev'[t] = items[i] /\ at'[t] = i
    BY <1>1, <1>3 DEF Types
  <2>. QED  BY <1>1, <1>3, <2>1, Moves
<1>5. GroupInv'
  BY <1>1, DemoFindGroup
<1>6. DemoTypes'
  BY <1>3 DEF DemoInv, DemoTypes
<1>7. OthersHold(t)
  BY <1>4 DEF OnlyMoves, OthersHold, Thread
<1>8. items[i] = NULL => AtMinor(i) \subseteq early'
  <2>1. ASSUME items[i] = NULL, NEW d \in AtMinor(i)
        PROVE  d \notin ready
    <3>1. d \in registered /\ minor[d] = i /\ d # NULL
      BY ChardevAssumption, <1>1, Numbers DEF AtMinor, Types
    <3>. QED  BY <2>1, <3>1, ReadyListed
  <2>. QED  BY <2>1
<1>9. Opened(t)'
  <2>1. {d \in registered' : minor'[d] = i} = AtMinor(i)
    BY <1>3 DEF AtMinor
  <2>2. AtMinor(at[t])' = AtMinor(i)
    BY <1>4, <2>1 DEF AtMinor
  <2>3. file[t] \in Made => items[i] = file[t] /\ items[i] # NULL
    BY Numbers
  <2>. QED  BY <1>3, <1>4, <1>8, <2>2, <2>3 DEF Opened
<1>10. \A d \in ready \ early : Holds(t, d)' <=> Holds(t, d)
  BY <1>4 DEF Holds
<1>11. \A d : Enters(t, d)' => Enters(t, d)
  BY <1>4 DEF Enters
<1>12. \A d \in ready \ early' : open_count'[d] = Cardinality(Holders(d)')
  BY <1>7, <1>10, SameHolders
<1>. QED  BY <1>3, <1>4, <1>5, <1>6, <1>9, <1>11, <1>12, OpenerKeepsDemo

LEMMA OpenDemo ==
  ASSUME DemoInv, driver = "demo", driver' = driver, Same, NEW t \in Opener, Open(t)
  PROVE  DemoInv'
<1>1. /\ pc[t] = "idle" /\ file[t] = NoFile /\ ~Unloading /\ found' \in 0..MaxFound
      /\ UNCHANGED <<open_count, ready, file, count>>
  BY ChardevAssumption DEF Open, Openable, demo, DemoInv, GroupInv, Types
<1>2. PICK i \in Index : AtMinor(i) # {} /\ FindItem(t, i)
                          /\ early' = early \cup (AtMinor(i) \ ready)
  BY DEF Open
<1>. QED  BY <1>1, <1>2, FindDemo, Numbers

LEMMA ReleaseDemo ==
  ASSUME DemoInv, driver = "demo", driver' = driver, Same, NEW t \in Opener, Release(t)
  PROVE  DemoInv'
<1>1. /\ pc[t] = "idle" /\ file[t] # NoFile /\ FindItem(t, at[t]) /\ found' \in 0..MaxFound
      /\ UNCHANGED <<open_count, ready, file, count, early>>
  BY ChardevAssumption DEF Release, demo, opening, DemoInv, GroupInv, Types
<1>2. Opened(t) /\ ~Unloading
  BY <1>1, OpenedDevice DEF Active
<1>3. /\ at[t] \in Index /\ AtMinor(at[t]) # {} /\ AtMinor(at[t]) \subseteq ready \cup early
      /\ file[t] \in Made => items[at[t]] = file[t]
      /\ file[t] = NULL => AtMinor(at[t]) \subseteq early
  BY <1>2 DEF Opened
<1>. QED  BY <1>1, <1>2, <1>3, FindDemo

LEMMA GetDataDemo ==
  ASSUME DemoInv, driver = "demo", driver' = driver, Same, NEW t \in Opener, GetData(t)
  PROVE  DemoInv'
<1>1. /\ pc[t] = "dev_get_drvdata" /\ UNCHANGED <<open_count, ready, file, count, early>>
      /\ Goto(t, IF dev[t] \in attached THEN "data" ELSE "no_data")
      /\ UNCHANGED <<group, items, registered, minor, made, at, dev>>
  BY DEF GetData, DevGetDrvdata, demo, opening, kernel
<1>2. Opened(t) /\ ~Unloading /\ dev[t] \in attached /\ t \in Thread
  BY <1>1, OpenedDevice DEF Active
<1>3. pc'[t] = "data" /\ OnlyMoves(t)
  BY <1>1, <1>2, Moves DEF DemoInv, GroupInv
<1>4. GroupInv'
  BY DemoOpenerGroup DEF DemoInv, GetData
<1>5. DemoTypes'
  BY <1>1 DEF DemoInv, DemoTypes
<1>6. OthersHold(t)
  BY <1>1, <1>3 DEF OnlyMoves, OthersHold, Thread
<1>7. Opened(t)'
  BY <1>1, <1>2, <1>3 DEF Opened, AtMinor
<1>8. (\A d : Holds(t, d)' <=> Holds(t, d)) /\ \A d : Enters(t, d)' => Enters(t, d)
  BY <1>1, <1>3 DEF Holds, Enters
<1>9. \A d \in ready \ early' : open_count'[d] = Cardinality(Holders(d)')
  BY <1>1, <1>6, <1>8, SameHolders
<1>. QED  BY <1>1, <1>2, <1>3, <1>4, <1>5, <1>7, <1>8, <1>9, OpenerKeepsDemo

\* The one that raises the count from 0 finds nobody in the device.
LEMMA IncrementDemo ==
  ASSUME DemoInv, driver = "demo", driver' = driver, Same, NEW t \in Opener, Increment(t)
  PROVE  DemoInv'
<1>1. /\ pc[t] = "data" /\ file[t] = NoFile /\ Goto(t, "test")
      /\ open_count' = [open_count EXCEPT ![dev[t]] = @ + 1]
      /\ count' = [count EXCEPT ![t] = open_count[dev[t]] + 1]
      /\ UNCHANGED <<group, held, items, kernel, made, found, at, dev>>
      /\ UNCHANGED <<group, items, registered, minor, made, at, dev, ready, file, early>>
  BY DEF Increment, kernel
<1>2. Opened(t) /\ ~Unloading /\ dev[t] \in Made /\ t \in Thread
  BY <1>1, OpenedDevice DEF Active
<1>3. pc'[t] = "test" /\ OnlyMoves(t)
  BY <1>1, <1>2, Moves DEF DemoInv, GroupInv
<1>4. GroupInv'
  BY <1>1, DemoOpenerGroup DEF DemoInv
<1>5. /\ \A d \in Made : open_count[d] \in Int
      /\ \A d \in Made : open_count'[d] = IF d = dev[t] THEN open_count[d] + 1 ELSE open_count[d]
      /\ count'[t] = open_count[dev[t]] + 1
      /\ \A u \in Opener \ {t} : count'[u] = count[u]
  BY <1>1, <1>2 DEF DemoInv, DemoTypes
<1>6. DemoTypes'
  <2>1. open_count[dev[t]] + 1 \in Int
    BY <1>2, <1>5
  <2>2. open_count' \in [Made -> Int] /\ count' \in [Opener -> Int]
    BY <1>1, <1>2, <2>1 DEF DemoInv, DemoTypes
  <2>. QED  BY <1>1, <2>2 DEF DemoInv, DemoTypes
<1>7. OthersHold(t)
  BY <1>1, <1>3, <1>5 DEF OnlyMoves, OthersHold, Thread
<1>8. Opened(t)'
  BY <1>1, <1>2, <1>3 DEF Opened, AtMinor
<1>9. \A d \in ready : /\ Holds(t, d)' <=> d = dev[t]
                       /\ ~Holds(t, d)
  BY <1>1, <1>3, ReadyMade DEF Holds
<1>10. ASSUME NEW d \in ready \ early'
       PROVE  open_count'[d] = Cardinality(Holders(d)')
  <2>1. d \in ready \ early /\ d \in Made
    BY <1>1, ReadyMade
  <2>2. open_count[d] = Cardinality(Holders(d))
    BY <2>1, CountIsHolders DEF DemoInv
  <2>3. CASE d = dev[t]
    BY <1>5, <1>7, <1>9, <2>1, <2>2, <2>3, HoldersChange
  <2>4. CASE d # dev[t]
    BY <1>5, <1>7, <1>9, <2>1, <2>2, <2>4, HoldersChange
  <2>. QED  BY <2>3, <2>4
<1>11. ASSUME NEW d \in ready \ early', NEW u \in Opener \ {t}, Enters(t, d)', Enters(u, d)
       PROVE  FALSE
  <2>1. d \in ready \ early /\ d \in Made /\ d # NoFile
    BY <1>1, ReadyMade
  <2>2. d = dev[t] /\ count'[t] <= 1
    BY <1>1, <1>11, <2>1 DEF Enters
  <2>3. open_count[d] = Cardinality(Holders(d))
    BY <2>1, CountIsHolders DEF DemoInv
  <2>4. Cardinality(Holders(d)) \in Nat /\ (Cardinality(Holders(d)) = 0 => Holders(d) = {})
    BY <1>7, HoldersChange
  <2>5. Holders(d) = {}
    BY <1>5, <2>2, <2>3, <2>4
  <2>6. u \in Holders(d)
    BY <1>11 DEF Enters, Holds, Holders
  <2>. QED  BY <2>5, <2>6
<1>. QED  BY <1>1, <1>2, <1>3, <1>4, <1>5, <1>6, <1>8, <1>10, <1>11, OpenerKeepsDemo

LEMMA TestOpenCountDemo ==
  ASSUME DemoInv, driver = "demo", driver' = driver, Same, NEW t \in Opener, TestOpenCount(t)
  PROVE  DemoInv'
<1>1. /\ pc[t] = "test" /\ Goto(t, "idle") /\ dev' = [dev EXCEPT ![t] = NULL]
      /\ \/ count[t] > 1 /\ open_count' = [open_count EXCEPT ![dev[t]] = @ - 1] /\ file' = file
         \/ ~(count[t] > 1) /\ file' = [file EXCEPT ![t] = dev[t]] /\ open_count' = open_count
      /\ UNCHANGED <<group, items, registered, minor, made, at, ready, count, early>>
  BY DEF TestOpenCount, kernel
<1>2. Leave(t, "test")
  BY DEF TestOpenCount, Leave
<1>3. /\ Opened(t) /\ ~Unloading /\ dev[t] \in Made /\ t \in Thread /\ file[t] = NoFile
      /\ items[at[t]] = dev[t]
  BY <1>1, OpenedDevice DEF Active, Opened
<1>4. pc'[t] = "idle" /\ OnlyMoves(t)
  BY <1>1, <1>3, Moves DEF DemoInv, GroupInv
<1>5. GroupInv'
  BY <1>2, DemoOpenerGroup DEF DemoInv
<1>6. /\ \A d \in Made : open_count[d] \in Int
      /\ file \in [Opener -> {NoFile, NULL} \cup Made] /\ open_count \in [Made -> Int]
      /\ count \in [Opener -> Int]
  BY DEF DemoInv, DemoTypes
<1>7. DemoTypes'
  <2>1. open_count[dev[t]] - 1 \in Int
    BY <1>3, <1>6
  <2>2. open_count' \in [Made -> Int]
    BY <1>1, <1>6, <2>1
  <2>3. file' \in [Opener -> {NoFile, NULL} \cup Made]
    BY <1>1, <1>3, <1>6
  <2>. QED  BY <1>1, <2>2, <2>3 DEF DemoInv, DemoTypes
<1>8. \A u \in Opener \ {t} : file'[u] = file[u]
  BY <1>1, <1>6
<1>9. OthersHold(t)
  BY <1>1, <1>4, <1>8 DEF OnlyMoves, OthersHold, Thread
<1>10. \A d \in ready : (Holds(t, d) <=> d = dev[t]) /\ d \in Made /\ d # NoFile
  BY <1>1, <1>3, ReadyMade DEF Holds
<1>11. CASE count[t] > 1 /\ open_count' = [open_count EXCEPT ![dev[t]] = @ - 1] /\ file' = file
  <2>1. \A d \in Made : open_count'[d] = IF d = dev[t] THEN open_count[d] - 1 ELSE open_count[d]
    BY <1>6, <1>11
  <2>2. ~Active(t)'
    BY <1>3, <1>4, <1>11 DEF Active
  <2>3. \A d \in ready : ~Holds(t, d)' /\ ~Enters(t, d)'
    BY <1>3, <1>4, <1>10, <1>11 DEF Holds, Enters
  <2>4. ASSUME NEW d \in ready \ early'
        PROVE  open_count'[d] = Cardinality(Holders(d)')
    <3>1. d \in ready \ early /\ d \in Made
      BY <1>1, ReadyMade
    <3>2. open_count[d] = Cardinality(Holders(d))
      BY <3>1, CountIsHolders DEF DemoInv
    <3>3. CASE d = dev[t]
      BY <1>9, <1>10, <2>1, <2>3, <3>1, <3>2, <3>3, HoldersChange
    <3>4. CASE d # dev[t]
      BY <1>9, <1>10, <2>1, <2>3, <3>1, <3>2, <3>4, HoldersChange
    <3>. QED  BY <3>3, <3>4
  <2>. QED  BY <1>1, <1>3, <1>4, <1>5, <1>7, <1>8, <2>2, <2>3, <2>4, OpenerKeepsDemo
<1>12. CASE ~(count[t] > 1) /\ file' = [file EXCEPT ![t] = dev[t]] /\ open_count' = open_count
  <2>1. file'[t] = dev[t] /\ count[t] <= 1
    BY <1>6, <1>12
  <2>2. Opened(t)'
    <3>1. AtMinor(at[t])' = AtMinor(at[t])
      BY <1>1 DEF AtMinor
    <3>2. file'[t] # NULL /\ file'[t] \in Made
      BY <1>3, <2>1, Numbers
    <3>. QED  BY <1>1, <1>3, <1>4, <2>1, <3>1, <3>2 DEF Opened
  <2>3. \A d \in ready : (Holds(t, d)' <=> Holds(t, d)) /\ (Enters(t, d)' => Enters(t, d))
    BY <1>1, <1>4, <1>10, <2>1 DEF Holds, Enters
  <2>4. \A d \in ready \ early' : open_count'[d] = Cardinality(Holders(d)')
    BY <1>1, <1>9, <1>12, <2>3, SameHolders
  <2>. QED  BY <1>1, <1>3, <1>4, <1>5, <1>7, <1>8, <2>2, <2>3, <2>4, OpenerKeepsDemo
<1>. QED  BY <1>1, <1>11, <1>12

LEMMA NoDataDemo ==
  ASSUME DemoInv, driver = "demo", driver' = driver, Same, NEW t \in Opener, NoData(t)
  PROVE  DemoInv'
<1>1. /\ pc[t] = "no_data" /\ Goto(t, "idle") /\ dev' = [dev EXCEPT ![t] = NULL]
      /\ file' = [file EXCEPT ![t] = IF file[t] = NoFile THEN NULL ELSE NoFile]
      /\ UNCHANGED <<group, items, registered, minor, made, at, open_count, ready, count, early>>
  BY DEF NoData, Leave, kernel, demo
<1>2. Opened(t) /\ ~Unloading /\ t \in Thread
  BY <1>1, OpenedDevice DEF Active
<1>3. pc'[t] = "idle" /\ OnlyMoves(t)
  BY <1>1, <1>2, Moves DEF DemoInv, GroupInv
<1>4. GroupInv'
  BY DemoOpenerGroup DEF DemoInv, NoData
<1>5. /\ file \in [Opener -> {NoFile, NULL} \cup Made]
      /\ file'[t] \in {NoFile, NULL} /\ \A u \in Opener \ {t} : file'[u] = file[u]
      /\ file' \in [Opener -> {NoFile, NULL} \cup Made]
  BY <1>1 DEF DemoInv, DemoTypes
<1>6. DemoTypes'
  BY <1>1, <1>5 DEF DemoInv, DemoTypes
<1>7. OthersHold(t)
  BY <1>1, <1>3, <1>5 DEF OnlyMoves, OthersHold, Thread
<1>8. Opened(t)'
  <2>1. AtMinor(at[t])' = AtMinor(at[t])
    BY <1>1 DEF AtMinor
  <2>2. file'[t] \notin Made
    BY <1>5, Numbers
  <2>. QED  BY <1>1, <1>2, <1>3, <2>1, <2>2 DEF Opened
<1>9. \A d \in ready : (Holds(t, d)' <=> Holds(t, d)) /\ (Enters(t, d)' => Enters(t, d))
  <2>1. file[t] \notin Made
    BY <1>1, <1>2 DEF Opened
  <2>. QED  BY <1>1, <1>3, <1>5, <2>1, ReadyMade DEF Holds, Enters
<1>10. \A d \in ready \ early' : open_count'[d] = Cardinality(Holders(d)')
  BY <1>1, <1>7, <1>9, SameHolders
<1>. QED  BY <1>1, <1>2, <1>3, <1>4, <1>5, <1>6, <1>8, <1>9, <1>10, OpenerKeepsDemo

\* What is given back is what was taken, unless the device was opened early.
LEMMA DecrementDemo ==
  ASSUME DemoInv, driver = "demo", driver' = driver, Same, NEW t \in Opener, Decrement(t)
  PROVE  DemoInv'
<1>1. /\ pc[t] = "data" /\ file[t] # NoFile /\ Goto(t, "idle") /\ dev' = [dev EXCEPT ![t] = NULL]
      /\ open_count' = [open_count EXCEPT ![dev[t]] = @ - 1]
      /\ file' = [file EXCEPT ![t] = NoFile]
      /\ UNCHANGED <<group, items, registered, minor, made, at, ready, count, early>>
  BY DEF Decrement, kernel
<1>2. Leave(t, "data")
  BY DEF Decrement, Leave
<1>3. /\ Opened(t) /\ ~Unloading /\ dev[t] \in Made /\ dev[t] \in AtMinor(at[t]) /\ t \in Thread
      /\ items[at[t]] = dev[t]
  BY <1>1, OpenedDevice DEF Active, Opened
<1>4. pc'[t] = "idle" /\ OnlyMoves(t)
  BY <1>1, <1>3, Moves DEF DemoInv, GroupInv
<1>5. GroupInv'
  BY <1>2, DemoOpenerGroup DEF DemoInv
<1>6. /\ file \in [Opener -> {NoFile, NULL} \cup Made] /\ open_count \in [Made -> Int]
      /\ \A d \in Made : open_count[d] \in Int
      /\ file'[t] = NoFile /\ \A u \in Opener \ {t} : file'[u] = file[u]
  BY <1>1 DEF DemoInv, DemoTypes
<1>7. DemoTypes'
  <2>1. open_count[dev[t]] - 1 \in Int
    BY <1>3, <1>6
  <2>2. open_count' \in [Made -> Int] /\ file' \in [Opener -> {NoFile, NULL} \cup Made]
    BY <1>1, <1>6, <2>1
  <2>. QED  BY <1>1, <2>2 DEF DemoInv, DemoTypes
<1>8. OthersHold(t)
  BY <1>1, <1>4, <1>6 DEF OnlyMoves, OthersHold, Thread
<1>9. ~Active(t)'
  BY <1>4, <1>6 DEF Active
<1>10. \A d \in ready : ~Holds(t, d)' /\ ~Enters(t, d)'
  BY <1>4, <1>6, ReadyMade DEF Holds, Enters
<1>11. \A d \in ready \ early : Holds(t, d) <=> d = dev[t]
  <2>1. file[t] \in Made => file[t] = dev[t]
    BY <1>3 DEF Opened
  <2>2. file[t] = NULL => dev[t] \in early
    BY <1>3 DEF Opened
  <2>. QED  BY <1>1, <1>6, <2>1, <2>2, ReadyMade DEF Holds
<1>12. \A d \in Made : open_count'[d] = IF d = dev[t] THEN open_count[d] - 1 ELSE open_count[d]
  BY <1>1, <1>6
<1>13. ASSUME NEW d \in ready \ early'
       PROVE  open_count'[d] = Cardinality(Holders(d)')
  <2>1. d \in ready \ early /\ d \in Made
    BY <1>1, ReadyMade
  <2>2. open_count[d] = Cardinality(Holders(d))
    BY <2>1, CountIsHolders DEF DemoInv
  <2>3. CASE d = dev[t]
    BY <1>8, <1>10, <1>11, <1>12, <2>1, <2>2, <2>3, HoldersChange
  <2>4. CASE d # dev[t]
    BY <1>8, <1>10, <1>11, <1>12, <2>1, <2>2, <2>4, HoldersChange
  <2>. QED  BY <2>3, <2>4
<1>. QED  BY <1>1, <1>3, <1>4, <1>5, <1>6, <1>7, <1>9, <1>10, <1>13, OpenerKeepsDemo

\* The demonstration sets the device of an item before the item is ready.
Naming ==
  /\ ready \subseteq named
  /\ pc[Loader] = "atomic_set" => dev[Loader] \in named
  /\ \A t \in Opener : pc[t] = "oops" => dev[t] \in early

\* A device without a name is one that was opened early: the counts are not disturbed.
LEMMA DevNameOfNullDemo ==
  ASSUME DemoInv, Naming, driver = "demo", driver' = driver, Same, NEW t \in Opener,
         DevNameOfNull(t)
  PROVE  DemoInv' /\ Naming'
<1>1. /\ pc[t] \in {"test", "data"} /\ dev[t] \notin named /\ Goto(t, "oops")
      /\ UNCHANGED <<group, held, items, kernel, made, found, at, dev>>
      /\ UNCHANGED <<group, items, registered, minor, made, at, dev, open_count, named, ready, file,
                     count, early>>
  BY DEF DevNameOfNull, kernel, demo, opening
<1>2. Opened(t) /\ ~Unloading /\ dev[t] \in early /\ t \in Thread
  BY <1>1, OpenedDevice DEF Active, Naming
<1>3. pc'[t] = "oops" /\ OnlyMoves(t)
  BY <1>1, <1>2, Moves DEF DemoInv, GroupInv
<1>4. GroupInv'
  BY <1>1, DemoOpenerGroup DEF DemoInv
<1>5. DemoTypes'
  BY <1>1 DEF DemoInv, DemoTypes
<1>6. OthersHold(t)
  BY <1>1, <1>3 DEF OnlyMoves, OthersHold, Thread
<1>7. Opened(t)'
  BY <1>1, <1>2, <1>3 DEF Opened, AtMinor
<1>8. (\A d \in ready \ early : Holds(t, d)' <=> Holds(t, d)) /\ \A d : Enters(t, d)' => Enters(t, d)
  BY <1>1, <1>2, <1>3 DEF Holds, Enters
<1>9. \A d \in ready \ early' : open_count'[d] = Cardinality(Holders(d)')
  BY <1>1, <1>6, <1>8, SameHolders
<1>10. DemoInv'
  BY <1>1, <1>2, <1>3, <1>4, <1>5, <1>7, <1>8, <1>9, OpenerKeepsDemo
<1>11. Naming'
  BY <1>1, <1>2, <1>3, ChardevAssumption DEF Naming, OnlyMoves, Thread
<1>. QED  BY <1>10, <1>11

LEMMA UseDemo ==
  ASSUME DemoInv, Naming, driver = "demo", driver' = driver, Same, NEW t \in Opener, Use(t)
  PROVE  DemoInv'
BY OpenDemo, ReleaseDemo, GetDataDemo, IncrementDemo, TestOpenCountDemo, NoDataDemo,
   DecrementDemo, DevNameOfNullDemo DEF Use

-----------------------------------------------------------------------------
(* The names of the devices.                                               *)

\* t goes on without coming to where the names matter.
GoesOn(t) ==
  /\ pc'[t] \notin {"atomic_set", "oops"}
  /\ \A u \in Thread \ {t} : pc'[u] = pc[u] /\ dev'[u] = dev[u]

LEMMA NamingKept ==
  ASSUME Naming, NEW t \in Thread, GoesOn(t), ready' = ready, named \subseteq named',
         early \subseteq early'
  PROVE  Naming'
BY DEF Naming, GoesOn, Thread

LEMMA Goes ==
  ASSUME Types, NEW t \in Thread, NEW l, l \notin {"atomic_set", "oops"}, Goto(t, l),
         dev' = dev \/ \E x : dev' = [dev EXCEPT ![t] = x]
  PROVE  GoesOn(t)
<1>1. pc'[t] = l /\ \A u \in Thread \ {t} : pc'[u] = pc[u]
  BY DEF Types, Goto
<1>2. \A u \in Thread \ {t} : dev'[u] = dev[u]
  BY DEF Types
<1>. QED  BY <1>1, <1>2 DEF GoesOn

\* In making and unmaking items,
LEMMA WorkGoes ==
  ASSUME Types, NEW t \in Thread, chardev_group_make_item(t) \/ chardev_group_unmake_item(t)
  PROVE  GoesOn(t)
<1>1. CASE Scan(t)
  <2>1. CASE UNCHANGED <<pc, freed, dev>>
    BY <1>1, <2>1 DEF Scan, GoesOn
  <2>2. CASE MakeFails(t)
    BY <2>2, Goes DEF MakeFails
  <2>3. CASE Goto(t, "device_create") /\ UNCHANGED <<refs, taken, freed, at, dev>>
    BY <2>3, Goes
  <2>. QED  BY <1>1, <2>1, <2>2, <2>3 DEF Scan
<1>2. CASE DeviceCreate(t)
  <2>1. \E l \in {"not_made", "store"} :
           Goto(t, l) /\ (dev' = dev \/ \E x : dev' = [dev EXCEPT ![t] = x])
    BY <1>2 DEF DeviceCreate, MakeFails
  <2>. QED  BY <2>1, Goes
<1>3. CASE Store(t) \/ chardev_group_unmake_item(t)
  <2>1. \E l \in {"made", "clear_item", "unmade", "free_privdata", "device_destroy",
                  "clear_privdata", "dev_name"} : Goto(t, l) /\ dev' = dev
    BY <1>3 DEF Store, chardev_group_unmake_item, Unmake, ClearItem, FreePrivdata, ClearPrivdata,
                DeviceDestroy, DevName
  <2>. QED  BY <2>1, Goes
<1>. QED  BY <1>1, <1>2, <1>3 DEF chardev_group_make_item

\* in creating and destroying a group,
LEMMA LoaderGoes ==
  ASSUME Types, CallCreate \/ chardev_group_create \/ chardev_group_destroy \/ CallDestroy
  PROVE  GoesOn(Loader)
<1>. Loader \in Thread
  BY DEF Thread
<1>1. CASE chardev_group_unmake_item(Loader)
  BY <1>1, WorkGoes
<1>2. CASE CallCreate \/ chardev_group_create
  <2>1. \E l : l \notin {"atomic_set", "oops"} /\ Goto(Loader, l) /\ dev' = dev
    BY <1>2 DEF CallCreate, chardev_group_create, Get, GiveBack, CreateReturns
  <2>. QED  BY <2>1, Goes
<1>3. CASE NextItem \/ ItemUnmade \/ GivesBack \/ CallDestroy
  <2>1. \E l : l \notin {"atomic_set", "oops"} /\ Goto(Loader, l)
               /\ (dev' = dev \/ \E x : dev' = [dev EXCEPT ![Loader] = x])
    BY <1>3 DEF NextItem, ItemUnmade, GivesBack, GiveBack, CreateReturns, CallDestroy
  <2>. QED  BY <2>1, Goes
<1>. QED  BY <1>1, <1>2, <1>3 DEF chardev_group_destroy, GivesBack

\* and in the steps of probers and openers.
LEMMA OthersGo ==
  ASSUME Types, NEW t \in Thread,
         \/ CallMake(t) \/ (\E l : l \notin {"atomic_set", "oops"} /\ Leave(t, l))
         \/ Unmade(t) \/ RemoveBegins(t) \/ (\E i : FindItem(t, i)) \/ DevGetDrvdata(t)
  PROVE  GoesOn(t)
<1>1. \E l : l \notin {"atomic_set", "oops"} /\ Goto(t, l)
             /\ (dev' = dev \/ \E x : dev' = [dev EXCEPT ![t] = x])
  BY DEF CallMake, Leave, Unmade, RemoveBegins, FindItem, DevGetDrvdata
<1>. QED  BY <1>1, Goes

LEMMA NextNaming ==
  ASSUME Types, Naming, Next, UNCHANGED <<demo, opening>>
  PROVE  Naming'
<1>1. \E t \in Thread : GoesOn(t)
  <2>1. CASE CallCreate \/ chardev_group_create \/ CallDestroy \/ chardev_group_destroy
    BY <2>1, LoaderGoes DEF Thread
  <2>2. ASSUME NEW t \in Prober, Probe(t) \/ Remove(t)
        PROVE  GoesOn(t) /\ t \in Thread
    <3>1. t \in Thread
      BY DEF Thread
    <3>2. CASE chardev_group_make_item(t) \/ chardev_group_unmake_item(t)
      BY <3>1, <3>2, WorkGoes
    <3>3. CASE CallMake(t) \/ Leave(t, "not_made") \/ Unmade(t) \/ RemoveBegins(t)
      BY <3>1, <3>3, OthersGo
    <3>. QED  BY <2>2, <3>1, <3>2, <3>3 DEF Probe, Remove, RemoveBegins
  <2>3. ASSUME NEW t \in Opener, Find(t)
        PROVE  GoesOn(t) /\ t \in Thread
    <3>1. t \in Thread
      BY DEF Thread
    <3>. QED  BY <2>3, <3>1, OthersGo DEF Find, CallFind
  <2>. QED  BY <2>1, <2>2, <2>3 DEF Next
<1>. QED  BY <1>1, NamingKept DEF demo, opening

LEMMA LoadNaming ==
  ASSUME Types, Naming, Load
  PROVE  Naming'
<1>. Loader \in Thread /\ \A t \in Opener : t \in Thread /\ t # Loader
  BY ChardevAssumption DEF Thread
<1>1. CASE InitNext \/ InitBreaks \/ chardev_group_demo_exit
  <2>1. GoesOn(Loader)
    <3>1. CASE CallMake(Loader)
      BY <3>1, OthersGo
    <3>2. CASE \E l : l \notin {"atomic_set", "oops"} /\ Goto(Loader, l) /\ dev' = dev
      BY <3>2, Goes
    <3>. QED  BY <1>1, <3>1, <3>2 DEF InitNext, InitBreaks, chardev_group_demo_exit
  <2>2. UNCHANGED <<named, ready, early>>
    BY <1>1 DEF InitNext, InitBreaks, chardev_group_demo_exit, demo, opening
  <2>. QED  BY <2>1, <2>2, NamingKept
<1>2. CASE SetDevice
  <2>1. /\ Goto(Loader, "atomic_set") /\ named' = named \cup {dev[Loader]}
        /\ UNCHANGED <<dev, ready, early>>
    BY <1>2 DEF SetDevice, opening
  <2>2. \A t \in Opener : pc'[t] = pc[t]
    BY <2>1 DEF Goto, Types
  <2>. QED  BY <2>1, <2>2 DEF Naming
<1>3. CASE SetOpenCount
  <2>1. /\ pc[Loader] = "atomic_set" /\ Goto(Loader, "loaded") /\ ready' = ready \cup {dev[Loader]}
        /\ UNCHANGED <<dev, named, early>>
    BY <1>3 DEF SetOpenCount, opening
  <2>2. pc'[Loader] = "loaded" /\ \A t \in Opener : pc'[t] = pc[t]
    BY <2>1 DEF Goto, Types
  <2>. QED  BY <2>1, <2>2 DEF Naming
<1>4. CASE /\ CallCreate \/ chardev_group_create \/ chardev_group_make_item(Loader)
              \/ chardev_group_destroy
           /\ UNCHANGED <<demo, opening>>
  <2>1. GoesOn(Loader)
    BY <1>4, LoaderGoes, WorkGoes
  <2>. QED  BY <1>4, <2>1, NamingKept DEF demo, opening
<1>. QED  BY <1>1, <1>2, <1>3, <1>4 DEF Load

LEMMA UseNaming ==
  ASSUME DemoInv, Naming, driver = "demo", driver' = driver, Same, NEW t \in Opener, Use(t)
  PROVE  Naming'
<1>1. CASE DevNameOfNull(t)
  BY <1>1, DevNameOfNullDemo
<1>2. CASE ~DevNameOfNull(t)
  <2>1. Types /\ t \in Thread
    BY DEF DemoInv, GroupInv, Thread
  <2>2. GoesOn(t)
    <3>1. CASE Open(t) \/ Release(t) \/ GetData(t) \/ NoData(t)
      BY <2>1, <3>1, OthersGo DEF Open, Release, GetData, NoData
    <3>2. CASE Increment(t) \/ TestOpenCount(t) \/ Decrement(t)
      <4>1. \E l : l \notin {"atomic_set", "oops"} /\ Goto(t, l)
                   /\ (dev' = dev \/ \E x : dev' = [dev EXCEPT ![t] = x])
        BY <3>2 DEF Increment, TestOpenCount, Decrement
      <4>. QED  BY <2>1, <4>1, Goes
    <3>. QED  BY <1>2, <3>1, <3>2 DEF Use
  <2>3. UNCHANGED <<named, ready>> /\ early \subseteq early'
    BY <1>2 DEF Use, Open, Release, GetData, Increment, TestOpenCount, NoData, Decrement, demo,
                opening
  <2>. QED  BY <2>1, <2>2, <2>3, NamingKept
<1>. QED  BY <1>1, <1>2

-----------------------------------------------------------------------------
(* Both drivers.                                                           *)

LEMMA InitDemo ==
  ASSUME DemoInit
  PROVE  DemoInv /\ Counted /\ Naming
<1>1. /\ GroupInv /\ Counted /\ ready = {} /\ early = {} /\ registered = {} /\ made = 0
      /\ \A t \in Opener : file[t] = NoFile
      /\ \A t \in Thread : pc[t] = "idle"
  BY InitGroup DEF DemoInit, Init
<1>2. DemoTypes
  BY <1>1 DEF DemoInit, DemoTypes
<1>3. Apartness
  BY <1>1 DEF Apartness, Thread, DemoInit
<1>4. Loading
  BY <1>1 DEF Loading, Making, Unloading, Thread
<1>5. Openings /\ CountMatchesOpeners /\ OneEnters
  BY <1>1 DEF Openings, Active, CountMatchesOpeners, OneEnters, Thread
<1>6. Naming
  BY <1>1 DEF Naming, Thread
<1>. QED  BY <1>1, <1>2, <1>3, <1>4, <1>5, <1>6 DEF DemoInv

\* The steps of another driver.
LEMMA HotplugDemo ==
  ASSUME DemoInv, driver = "hotplug", driver' = driver, Same, Hotplug
  PROVE  DemoInv'
<1>1. Types /\ Good /\ Held
  BY DEF DemoInv, GroupInv, Good
<1>2. GroupInv'
  BY <1>1, NextGood, NextTypes, NextHeld DEF Hotplug, GroupInv, Good
<1>3. UNCHANGED <<open_count, ready, file, count>>
  BY DEF Hotplug, demo, opening
<1>4. ready = {}
  BY DEF DemoInv, Apartness
<1>5. DemoTypes'
  BY <1>3, <1>4 DEF DemoInv, DemoTypes
<1>6. Apartness'
  BY <1>3 DEF DemoInv, Apartness
<1>. QED  BY <1>2, <1>5, <1>6 DEF DemoInv

LEMMA StutterDemo ==
  ASSUME DemoInv, Counted, Naming, UNCHANGED demoVars
  PROVE  DemoInv' /\ Counted' /\ Naming'
<1>1. UNCHANGED vars /\ UNCHANGED <<driver, open_count, named, ready, file, count, early>>
  BY DEF demoVars, demo, opening
<1>2. UNCHANGED <<group, items, registered, minor, made, free_privdata, pc, at, dev>>
  BY <1>1 DEF vars, kernel, thread
<1>3. GroupInv' /\ Counted'
  BY <1>1, StutterGroup DEF DemoInv
<1>4. DemoTypes' /\ Apartness'
  BY <1>1, <1>2 DEF DemoInv, DemoTypes, Apartness
<1>5. ASSUME driver = "demo"
      PROVE  Loading' /\ Openings' /\ CountMatchesOpeners' /\ OneEnters'
  <2>1. OpenersStay
    BY <1>1, <1>2 DEF OpenersStay
  <2>2. Loading'
    <3>1. (Unloading' <=> Unloading) /\ \A t \in Opener : Active(t)' <=> Active(t)
      BY <1>1, <1>2 DEF Unloading, Active
    <3>. QED  BY <1>1, <1>2, <1>5, <3>1 DEF DemoInv, Loading
  <2>3. Openings'
    BY <1>1, <1>2, <1>5, <2>1, OpeningsKept DEF DemoInv
  <2>. QED  BY <1>1, <1>5, <2>1, <2>2, <2>3, CountKept DEF DemoInv
<1>6. Naming'
  BY <1>1, <1>2 DEF Naming
<1>. QED  BY <1>1, <1>3, <1>4, <1>5, <1>6 DEF DemoInv

\* The invariant of the two drivers, with openers at any time after cdev_add().
THEOREM DemoInvariance == DemoSpec => [](DemoInv /\ Counted /\ Naming)
<1>. DEFINE Inv == DemoInv /\ Counted /\ Naming
<1>1. DemoInit => Inv
  BY InitDemo
<1>2. Inv /\ [DemoNext]_demoVars => Inv'
  <2>1. ASSUME Inv, driver = "demo", Demo, driver' = driver, Same
        PROVE  Inv'
    <3>1. Types /\ Good
      BY <2>1 DEF DemoInv, GroupInv, Good
    <3>2. CASE Load
      <4>1. DemoInv' /\ Naming'
        BY <2>1, <3>1, <3>2, LoadDemo, LoadNaming
      <4>2. CASE CallCreate \/ chardev_group_create \/ chardev_group_destroy
        BY <2>1, <3>1, <4>1, <4>2, LoaderCounted
      <4>3. CASE chardev_group_make_item(Loader)
        BY <2>1, <3>1, <4>1, <4>3, WorkCounted DEF Worker
      <4>4. CASE InitNext \/ InitBreaks \/ SetDevice \/ SetOpenCount \/ chardev_group_demo_exit
        <5>1. UNCHANGED <<refs, taken, registered>>
          BY <4>4 DEF InitNext, CallMake, InitBreaks, SetDevice, SetOpenCount,
                      chardev_group_demo_exit, kernel
        <5>. QED  BY <2>1, <4>1, <5>1, QuietCounted
      <4>. QED  BY <3>2, <4>2, <4>3, <4>4 DEF Load
    <3>3. ASSUME NEW t \in Opener, Use(t)
          PROVE  Inv'
      <4>1. DemoInv' /\ Naming'
        BY <2>1, <3>3, UseDemo, UseNaming
      <4>2. UNCHANGED <<refs, taken, registered>>
        BY <3>3 DEF Use, Open, Release, GetData, Increment, TestOpenCount, NoData, Decrement,
                    DevNameOfNull, FindItem, DevGetDrvdata, Leave, kernel
      <4>. QED  BY <2>1, <4>1, <4>2, QuietCounted
    <3>. QED  BY <2>1, <3>2, <3>3 DEF Demo
  <2>2. ASSUME Inv, driver = "hotplug", Hotplug, driver' = driver
        PROVE  Inv'
    <3>1. Types /\ Good /\ Next /\ Same /\ UNCHANGED <<demo, opening>>
      BY <2>2 DEF DemoInv, GroupInv, Good, Hotplug, Next, Same
    <3>. QED  BY <2>2, <3>1, HotplugDemo, NextCounted, NextNaming
  <2>3. ASSUME Inv, DemoNext
        PROVE  Inv'
    <3>1. CASE driver = "demo" /\ Demo /\ UNCHANGED <<driver, free_privdata>>
      BY <2>1, <2>3, <3>1 DEF Same
    <3>2. CASE driver = "hotplug" /\ Hotplug /\ UNCHANGED driver
      BY <2>2, <2>3, <3>2
    <3>. QED  BY <2>3, <3>1, <3>2 DEF DemoNext
  <2>. QED  BY <2>3, StutterDemo
<1>. QED  BY <1>1, <1>2, PTL DEF DemoSpec

\* Under either driver the memory that is read is there: a device keeps its memory for
\* those that read it, also for an opener that has found it in the table and is
\* overtaken; the private data that an opener of the demonstration uses has not been
\* freed; and an opener that names the device of an item finds it set, unless it was
\* let in before the init function was done with the item.
THEOREM ReadsAreSafe == DemoSpec => []ReadsFindMemory
<1>1. ASSUME DemoInv, driver = "demo", NEW t \in Opener
      PROVE  file[t] \notin freed /\ (pc[t] \in {"data", "test"} => dev[t] \notin freed)
  <2>1. NoFile \notin freed /\ NULL \notin freed
    BY <1>1, Numbers DEF DemoInv, GroupInv, Types
  <2>2. CASE file[t] \in Made
    <3>1. Active(t) /\ Opened(t)
      BY <1>1, <2>2, Numbers DEF Active, DemoInv, Openings
    <3>2. items[at[t]] = file[t] /\ file[t] # NULL /\ at[t] \in Index
      BY <2>2, <3>1, Numbers DEF Opened
    <3>3. file[t] \notin freed
      BY <1>1, <3>2 DEF DemoInv, GroupInv, Devices, Item
    <3>. QED  BY <1>1, <3>1, <3>3, OpenedDevice
  <2>3. CASE file[t] \notin Made
    <3>1. file[t] \in {NoFile, NULL}
      BY <1>1, <2>3 DEF DemoInv, DemoTypes
    <3>2. pc[t] \in {"data", "test"} => Active(t)
      BY DEF Active
    <3>. QED  BY <1>1, <2>1, <3>1, <3>2, OpenedDevice
  <2>. QED  BY <2>2, <2>3
<1>2. DemoInv /\ Counted /\ Naming => ReadsFindMemory
  BY <1>1, GroupProperties DEF DemoInv, Naming, ReadsFindMemory
<1>. QED  BY <1>2, DemoInvariance, PTL

\* Every variable keeps its type, and an opener finds the table allocated.
THEOREM DemoTypeCorrect == DemoSpec => []TypeOK
<1>1. DemoInv /\ Counted => TypeOK
  BY GroupProperties DEF DemoInv
<1>. QED  BY <1>1, DemoInvariance, PTL

\* The table and the class agree, however makers and unmakers interleave.
THEOREM TableMatchesClass == DemoSpec => []ItemsMatchClass
<1>1. DemoInv /\ Counted => ItemsMatchClass
  BY GroupProperties DEF DemoInv
<1>. QED  BY <1>1, DemoInvariance, PTL

\* A group that failed or was destroyed has given back all that it got, and leaves with
\* the kernel exactly what LeftAtEnd says: one reference for every time that
\* class_find_device() has found a device, and the items of a driver without
\* free_privdata() that it has not unmade.
THEOREM WhatIsLeft == DemoSpec => []LeftAtEnd
<1>1. DemoInv /\ Counted => LeftAtEnd
  BY GroupProperties DEF DemoInv
<1>. QED  BY <1>1, DemoInvariance, PTL

\* The open count of an item that nobody opened before it was ready is the number of
\* threads that have it open or are about to be refused.
THEOREM CountsAreRight == DemoSpec => []CountMatchesOpeners
<1>1. DemoInv => CountMatchesOpeners
  BY DEF DemoInv, DemoTypes, Apartness, CountMatchesOpeners
<1>. QED  BY <1>1, DemoInvariance, PTL

\* One thread at a time has such an item open.
THEOREM OneOpener == DemoSpec => []OneOpenerOfReady
<1>1. ASSUME DemoInv, NEW t \in Opener, NEW u \in Opener, file[t] = file[u],
             file[t] \in Made \ early
      PROVE  t = u
  <2>1. driver = "demo"
    BY <1>1, Numbers DEF DemoInv, DemoTypes, Apartness
  <2>2. Active(t) /\ Opened(t)
    BY <1>1, <2>1, Numbers DEF Active, DemoInv, Openings
  <2>3. file[t] \in ready
    <3>1. items[at[t]] = file[t] /\ file[t] # NULL /\ at[t] \in Index
      BY <1>1, <2>2, Numbers DEF Opened
    <3>2. file[t] \in AtMinor(at[t])
      BY <1>1, <3>1 DEF DemoInv, GroupInv, Devices, Item, AtMinor
    <3>. QED  BY <1>1, <2>2, <3>2 DEF Opened
  <2>. QED  BY <1>1, <2>1, <2>3 DEF DemoInv, OneEnters, Enters
<1>2. DemoInv => OneOpenerOfReady
  BY <1>1 DEF OneOpenerOfReady
<1>. QED  BY <1>2, DemoInvariance, PTL
=============================================================================
