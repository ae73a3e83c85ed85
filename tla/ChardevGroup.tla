----------------------------- MODULE ChardevGroup -----------------------------
(***************************************************************************)
(* chardev_group.c: a group of character devices of one driver, that is a  *)
(* region of device numbers, a cdev, a class and a table of the devices    *)
(* made so far.  The thread that loads and unloads the driver creates and  *)
(* destroys the group; probing threads make and unmake items; threads that *)
(* open a device file look for the item and its private data.  The code    *)
(* takes no lock, so their steps interleave.  The class and the reference  *)
(* counts of its devices are the kernel's.  A driver that gives no function*)
(* free_privdata() unmakes its items and frees their private data itself.  *)
(***************************************************************************)
EXTENDS Integers, FiniteSets

CONSTANTS
  Loader,      \* the thread that runs the init and exit functions
  Prober,      \* the threads that probe and remove hardware
  Opener,      \* the threads that open device files
  max_items,
  MaxMade,     \* bound: calls of chardev_group_make_item()
  MaxFound     \* bound: calls of chardev_group_find_item_private_data()

Thread == {Loader} \cup Prober \cup Opener
Index == 0..(max_items - 1)

\* The n-th call of chardev_group_make_item() is given private data n and may
\* create device n; 0 is a null pointer.
Made == 1..MaxMade
NULL == 0

ASSUME ChardevAssumption ==
  /\ Loader \notin Prober \cup Opener /\ Prober \cap Opener = {}
  /\ max_items \in Nat /\ MaxMade \in Nat /\ MaxFound \in Nat

VARIABLES
  group,       \* the caller's pointer: "NULL", "error" or "group"
  held,        \* what the group has got from the kernel
  items,       \* items[i]: a device or NULL
  registered,  \* the devices in the class
  minor,       \* minor[d]: the index in the group of device d
  refs,        \* refs[d]: references to the memory of device d
  taken,       \* history: those of them that class_find_device() has taken
  attached,    \* the devices that have their private data
  freed,       \* the private data that has been freed
  free_privdata, \* the driver gives a function that frees private data
  made, found, \* bounded counters
  pc,          \* pc[t]: the next step of thread t
  at,          \* at[t]: the index that t has come to
  dev          \* dev[t]: the device that t works on

kernel == <<registered, minor, refs, taken, attached, freed>>
thread == <<pc, at, dev>>
vars   == <<group, held, items, kernel, free_privdata, made, found, thread>>

Init ==
  /\ group = "NULL" /\ held = {}
  /\ items = [i \in Index |-> NULL]
  /\ registered = {} /\ attached = {} /\ freed = {}
  /\ minor = [d \in Made |-> 0] /\ refs = [d \in Made |-> 0] /\ taken = refs
  /\ free_privdata \in BOOLEAN
  /\ made = 0 /\ found = 0
  /\ pc = [t \in Thread |-> "idle"] /\ at = [t \in Thread |-> 0]
  /\ dev = [t \in Thread |-> NULL]

Goto(t, label) == pc' = [pc EXCEPT ![t] = label]

\* class_find_device() takes a reference to the device that it finds.
AtMinor(i) == {d \in registered : minor[d] = i}
TakeReference(d) ==
  refs' = [refs EXCEPT ![d] = @ + 1] /\ taken' = [taken EXCEPT ![d] = @ + 1]

-----------------------------------------------------------------------------
(* chardev_group_create(): what it gets, and what it gives back if the     *)
(* next step fails.                                                        *)

Get(label, what, next, failed) ==
  /\ pc[Loader] = label
  /\ \/ held' = held \cup {what} /\ Goto(Loader, next)
     \/ Goto(Loader, failed) /\ UNCHANGED held
  /\ UNCHANGED <<group, items, kernel, made, found, at, dev>>

GiveBack(label, what, next) ==
  /\ pc[Loader] = label
  /\ held' = held \ what /\ Goto(Loader, next)
  /\ UNCHANGED <<group, items, kernel, made, found, at, dev>>

CallCreate ==
  /\ pc[Loader] = "idle" /\ group = "NULL" /\ Goto(Loader, "kzalloc_group")
  /\ UNCHANGED <<group, held, items, kernel, made, found, at, dev>>

CreateReturns(label, pointer, next) ==
  /\ pc[Loader] = label /\ group' = pointer /\ Goto(Loader, next)
  /\ UNCHANGED <<held, items, kernel, made, found, at, dev>>

\* Mutant: a failed class_create() skips lbl_del_cdev.
CreateLeavesCdev ==
  \/ Get("kzalloc_group", "group", "alloc_region", "lbl_free_group")
  \/ Get("alloc_region", "region", "kzalloc_items", "lbl_free_group")
  \/ Get("kzalloc_items", "items", "cdev_add", "lbl_unreg_region")
  \/ Get("cdev_add", "cdev", "class_create", "lbl_unreg_region")
  \/ Get("class_create", "class", "created", "lbl_unreg_region")
  \/ GiveBack("lbl_unreg_region", {"region"}, "lbl_free_group")
  \/ GiveBack("lbl_free_group", {"items", "group"}, "failed")
  \/ CreateReturns("created", "group", "loaded")
  \/ CreateReturns("failed", "error", "end")

chardev_group_create ==
  \/ Get("kzalloc_group", "group", "alloc_region", "lbl_free_group")
  \/ Get("alloc_region", "region", "kzalloc_items", "lbl_free_group")
  \/ Get("kzalloc_items", "items", "cdev_add", "lbl_unreg_region")
  \/ Get("cdev_add", "cdev", "class_create", "lbl_unreg_region")
  \/ Get("class_create", "class", "created", "lbl_del_cdev")
  \/ GiveBack("lbl_del_cdev", {"cdev"}, "lbl_unreg_region")
  \/ GiveBack("lbl_unreg_region", {"region"}, "lbl_free_group")
  \/ GiveBack("lbl_free_group", {"items", "group"}, "failed")
  \/ CreateReturns("created", "group", "loaded")
  \/ CreateReturns("failed", "error", "end")

-----------------------------------------------------------------------------
(* chardev_group_make_item(): the first minor number without a device.     *)

CallMake(t) ==
  /\ group = "group" /\ made < MaxMade /\ made' = made + 1
  /\ dev' = [dev EXCEPT ![t] = made + 1] /\ at' = [at EXCEPT ![t] = 0]
  /\ Goto(t, "scan")
  /\ UNCHANGED <<group, held, items, kernel, found>>

\* The caller frees its private data if it gets no device.
MakeFails(t) ==
  /\ freed' = freed \cup {dev[t]} /\ dev' = [dev EXCEPT ![t] = NULL]
  /\ Goto(t, "not_made")

\* The references that the scan takes are never given back.
Scan(t) ==
  /\ pc[t] = "scan"
  /\ \/ /\ at[t] = max_items
        /\ MakeFails(t) /\ UNCHANGED <<refs, taken, at>>
     \/ /\ at[t] < max_items /\ AtMinor(at[t]) = {}
        /\ Goto(t, "device_create") /\ UNCHANGED <<refs, taken, freed, at, dev>>
     \/ /\ at[t] < max_items
        /\ \E d \in AtMinor(at[t]) : TakeReference(d)
        /\ at' = [at EXCEPT ![t] = @ + 1] /\ UNCHANGED <<pc, freed, dev>>
  /\ UNCHANGED <<group, held, items, registered, minor, attached, made, found>>

\* device_create() fails if there is such a device by now, or for lack of memory.
DeviceCreate(t) ==
  /\ pc[t] = "device_create"
  /\ \/ MakeFails(t) /\ UNCHANGED <<registered, minor, refs, taken, attached>>
     \/ /\ AtMinor(at[t]) = {}
        /\ registered' = registered \cup {dev[t]}
        /\ attached' = attached \cup {dev[t]}
        /\ minor' = [minor EXCEPT ![dev[t]] = at[t]]
        /\ refs' = [refs EXCEPT ![dev[t]] = 1] /\ taken' = [taken EXCEPT ![dev[t]] = 0]
        /\ Goto(t, "store") /\ UNCHANGED <<freed, dev>>
  /\ UNCHANGED <<group, held, items, made, found, at>>

\* Mutant: the index is counted from the end.
StoreFromEnd(t) ==
  /\ pc[t] = "store"
  /\ items' = [items EXCEPT ![max_items - 1 - at[t]] = dev[t]] /\ Goto(t, "made")
  /\ UNCHANGED <<group, held, kernel, made, found, at, dev>>

Store(t) ==
  /\ pc[t] = "store"
  /\ items' = [items EXCEPT ![at[t]] = dev[t]] /\ Goto(t, "made")
  /\ UNCHANGED <<group, held, kernel, made, found, at, dev>>

chardev_group_make_item(t) == Scan(t) \/ DeviceCreate(t) \/ Store(t)

-----------------------------------------------------------------------------
(* chardev_group_unmake_item()                                             *)

\* Mutant: the reference is given back as soon as the device is found.
UnmakeGivesReferenceBack(t) ==
  /\ pc[t] = "unmake"
  /\ Goto(t, IF dev[t] # NULL /\ AtMinor(minor[dev[t]]) # {} THEN "clear_item" ELSE "unmade")
  /\ UNCHANGED <<group, held, items, kernel, made, found, at, dev>>

\* The reference that this test takes is never given back either.
Unmake(t) ==
  /\ pc[t] = "unmake"
  /\ IF dev[t] # NULL /\ AtMinor(minor[dev[t]]) # {}
     THEN /\ \E d \in AtMinor(minor[dev[t]]) : TakeReference(d)
          /\ Goto(t, "clear_item")
     ELSE Goto(t, "unmade") /\ UNCHANGED <<refs, taken>>
  /\ UNCHANGED <<group, held, items, registered, minor, attached, freed, made, found,
                 at, dev>>

\* Mutant: the item is not cleared.
LeaveItem(t) ==
  /\ pc[t] = "clear_item" /\ Goto(t, IF free_privdata THEN "free_privdata" ELSE "device_destroy")
  /\ UNCHANGED <<group, held, items, kernel, made, found, at, dev>>

ClearItem(t) ==
  /\ pc[t] = "clear_item"
  /\ items' = [items EXCEPT ![minor[dev[t]]] = NULL]
  /\ Goto(t, IF free_privdata THEN "free_privdata" ELSE "device_destroy")
  /\ UNCHANGED <<group, held, kernel, made, found, at, dev>>

FreePrivdata(t) ==
  /\ pc[t] = "free_privdata"
  /\ freed' = IF dev[t] \in attached THEN freed \cup {dev[t]} ELSE freed
  /\ Goto(t, "clear_privdata")
  /\ UNCHANGED <<group, held, items, registered, minor, refs, taken, attached, made,
                 found, at, dev>>

ClearPrivdata(t) ==
  /\ pc[t] = "clear_privdata"
  /\ attached' = attached \ {dev[t]} /\ Goto(t, "device_destroy")
  /\ UNCHANGED <<group, held, items, registered, minor, refs, taken, freed, made, found,
                 at, dev>>

\* The device leaves the class, which gives back one reference.
DeviceDestroy(t) ==
  /\ pc[t] = "device_destroy"
  /\ \E d \in AtMinor(minor[dev[t]]) :
       registered' = registered \ {d} /\ refs' = [refs EXCEPT ![d] = @ - 1]
  /\ Goto(t, "dev_name")
  /\ UNCHANGED <<group, held, items, minor, taken, attached, freed, made, found, at, dev>>

\* The message names the device that has just been destroyed.
DevName(t) ==
  /\ pc[t] = "dev_name" /\ Goto(t, "unmade")
  /\ UNCHANGED <<group, held, items, kernel, made, found, at, dev>>

chardev_group_unmake_item(t) ==
  \/ Unmake(t) \/ ClearItem(t) \/ FreePrivdata(t) \/ ClearPrivdata(t)
  \/ DeviceDestroy(t) \/ DevName(t)

-----------------------------------------------------------------------------
(* chardev_group_find_item_private_data()                                  *)

\* A device file can be opened while there is a cdev, unless the driver is on
\* its way out.
Unloading ==
  pc[Loader] \in {"next_item", "unmake", "clear_item", "free_privdata",
                  "clear_privdata", "device_destroy", "dev_name", "unmade",
                  "class_destroy", "cdev_del", "unregister_region", "kfree_items",
                  "kfree_group", "destroyed", "end"}
Openable == "cdev" \in held /\ ~Unloading

FindItem(t, i) ==
  /\ dev' = [dev EXCEPT ![t] = IF group = "group" THEN items[i] ELSE NULL]
  /\ Goto(t, IF dev'[t] = NULL THEN "no_data" ELSE "dev_get_drvdata")
  /\ at' = [at EXCEPT ![t] = i]
  /\ UNCHANGED <<group, held, items, kernel, made>>

CallFind(t) ==
  /\ pc[t] = "idle" /\ Openable /\ found < MaxFound /\ found' = found + 1
  /\ \E i \in Index : FindItem(t, i)

DevGetDrvdata(t) ==
  /\ pc[t] = "dev_get_drvdata"
  /\ Goto(t, IF dev[t] \in attached THEN "data" ELSE "no_data")
  /\ UNCHANGED <<group, held, items, kernel, made, found, at, dev>>

Leave(t, label) ==
  /\ pc[t] = label /\ Goto(t, "idle")
  /\ dev' = [dev EXCEPT ![t] = NULL]
  /\ UNCHANGED <<group, held, items, kernel, made, found, at>>

-----------------------------------------------------------------------------
(* chardev_group_destroy()                                                 *)

CallDestroy ==
  /\ pc[Loader] = "loaded" /\ \A t \in Thread \ {Loader} : pc[t] \in {"idle", "made"}
  /\ Goto(Loader, IF free_privdata THEN "next_item" ELSE "class_destroy")
  /\ at' = [at EXCEPT ![Loader] = 0]
  /\ UNCHANGED <<group, held, items, kernel, made, found, dev>>

\* Mutant: the last item is left.
NextItemOffByOne ==
  /\ pc[Loader] = "next_item"
  /\ IF at[Loader] >= max_items - 1
     THEN Goto(Loader, "class_destroy") /\ UNCHANGED <<at, dev>>
     ELSE /\ dev' = [dev EXCEPT ![Loader] = items[at[Loader]]]
          /\ at' = [at EXCEPT ![Loader] = @ + 1]
          /\ Goto(Loader, "unmake")
  /\ UNCHANGED <<group, held, items, kernel, made, found>>

NextItem ==
  /\ pc[Loader] = "next_item"
  /\ IF at[Loader] = max_items
     THEN Goto(Loader, "class_destroy") /\ UNCHANGED <<at, dev>>
     ELSE /\ dev' = [dev EXCEPT ![Loader] = items[at[Loader]]]
          /\ at' = [at EXCEPT ![Loader] = @ + 1]
          /\ Goto(Loader, "unmake")
  /\ UNCHANGED <<group, held, items, kernel, made, found>>

ItemUnmade ==
  /\ pc[Loader] = "unmade" /\ Goto(Loader, "next_item")
  /\ UNCHANGED <<group, held, items, kernel, made, found, at, dev>>

chardev_group_destroy ==
  \/ NextItem \/ chardev_group_unmake_item(Loader) \/ ItemUnmade
  \/ GiveBack("class_destroy", {"class"}, "cdev_del")
  \/ GiveBack("cdev_del", {"cdev"}, "unregister_region")
  \/ GiveBack("unregister_region", {"region"}, "kfree_items")
  \/ GiveBack("kfree_items", {"items"}, "kfree_group")
  \/ GiveBack("kfree_group", {"group"}, "destroyed")
  \/ CreateReturns("destroyed", "NULL", "end")

-----------------------------------------------------------------------------
Probe(t) ==
  \/ pc[t] = "idle" /\ pc[Loader] = "loaded" /\ CallMake(t)
  \/ chardev_group_make_item(t) \/ Leave(t, "not_made")

\* The item that t has made, unless the group is being destroyed.  Without a function
\* free_privdata() it frees the private data afterwards.
Unmade(t) ==
  /\ pc[t] = "unmade" /\ Goto(t, "idle")
  /\ freed' = IF free_privdata THEN freed ELSE freed \cup {dev[t]}
  /\ dev' = [dev EXCEPT ![t] = NULL]
  /\ UNCHANGED <<group, held, items, registered, minor, refs, taken, attached, made,
                 found, at>>

Remove(t) ==
  \/ /\ pc[t] = "made" /\ pc[Loader] = "loaded" /\ Goto(t, "unmake")
     /\ UNCHANGED <<group, held, items, kernel, made, found, at, dev>>
  \/ chardev_group_unmake_item(t) \/ Unmade(t)

Find(t) ==
  CallFind(t) \/ DevGetDrvdata(t) \/ Leave(t, "data") \/ Leave(t, "no_data")

Next ==
  /\ \/ CallCreate \/ chardev_group_create \/ CallDestroy \/ chardev_group_destroy
     \/ \E t \in Prober : Probe(t) \/ Remove(t)
     \/ \E t \in Opener : Find(t)
  /\ UNCHANGED free_privdata

Spec == Init /\ [][Next]_vars

-----------------------------------------------------------------------------
(* Properties.                                                             *)

\* Where a thread can be: in the functions above, between them, or in those of a
\* driver ("running", "atomic_set", "test" and "oops", see ChardevDemo).
Label ==
  {"idle", "kzalloc_group", "alloc_region", "kzalloc_items", "cdev_add", "class_create",
   "created", "lbl_del_cdev", "lbl_unreg_region", "lbl_free_group", "failed", "loaded",
   "scan", "device_create", "store", "made", "not_made",
   "unmake", "clear_item", "free_privdata", "clear_privdata", "device_destroy", "dev_name",
   "unmade", "dev_get_drvdata", "data", "no_data",
   "next_item", "class_destroy", "cdev_del", "unregister_region", "kfree_items",
   "kfree_group", "destroyed", "end", "running", "atomic_set", "test",
   "oops"}

\* Every variable keeps its type; no reference is given back that was not
\* taken, and openers, who look up the table as soon as there is a cdev and
\* as long as there is one, find it allocated.
TypeOK ==
  /\ group \in {"NULL", "error", "group"}
  /\ held \subseteq {"group", "region", "items", "cdev", "class"}
  /\ "cdev" \in held => {"group", "region", "items"} \subseteq held
  /\ items \in [Index -> {NULL} \cup Made]
  /\ registered \subseteq Made /\ attached \subseteq Made /\ freed \subseteq Made
  /\ minor \in [Made -> Index \cup {0}] /\ refs \in [Made -> Nat] /\ taken \in [Made -> Nat]
  /\ free_privdata \in BOOLEAN
  /\ made \in 0..MaxMade /\ found \in 0..MaxFound
  /\ pc \in [Thread -> Label] /\ at \in [Thread -> 0..max_items]
  /\ dev \in [Thread -> {NULL} \cup Made]

\* The steps of the group that read the memory of a device find it there, also the
\* message after device_destroy(), and also a thread that found the device in the
\* table and is overtaken by the thread that unmakes it.  Private data, which nothing
\* keeps, is freed under a thread that looks it up only if it is so overtaken: the
\* item has left the table since.
DeviceIsAlive ==
  /\ \A t \in Thread :
       pc[t] \in {"unmake", "clear_item", "free_privdata", "clear_privdata",
                  "device_destroy", "dev_name", "dev_get_drvdata"} /\ dev[t] # NULL =>
         refs[dev[t]] > 0
  /\ \A t \in Opener :
       pc[t] \in {"dev_get_drvdata", "data", "test"} /\ dev[t] \in freed =>
         items[at[t]] # dev[t]

\* The table and the class agree, however makers and unmakers interleave: an
\* item is the one device of its minor number, and a device that nobody is
\* making or unmaking is in the table.
ItemsMatchClass ==
  /\ \A i \in Index : items[i] # NULL => AtMinor(i) = {items[i]}
  /\ \A d \in registered :
       (\A t \in Thread : dev[t] = d => pc[t] \in {"made", "data", "no_data",
                                                   "dev_get_drvdata", "next_item"}) =>
         items[minor[d]] = d

\* What is left when the group has failed or is gone.  Of the group nothing; in the class
\* the items that a driver without a function free_privdata() has not unmade itself, and
\* none otherwise; of private data that of those items; and of the memory of the devices
\* exactly what the references of class_find_device() keep, which are never put.
LeftAtEnd ==
  pc[Loader] = "end" =>
    /\ held = {} /\ freed = 1..made \ registered
    /\ registered = IF free_privdata THEN {} ELSE {items[i] : i \in Index} \ {NULL}
    /\ free_privdata => attached = {}
    /\ \A d \in Made : refs[d] = taken[d] + IF d \in registered THEN 1 ELSE 0
=============================================================================
