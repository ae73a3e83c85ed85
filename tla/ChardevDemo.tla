------------------------------ MODULE ChardevDemo ------------------------------
(***************************************************************************)
(* The driver at the end of chardev_group.c: its init function makes       *)
(* max_items items, each with an open count that lets one opener in at a   *)
(* time, and its exit function destroys the group.  A device file appears  *)
(* as soon as its device is in the class, so threads may open it while the *)
(* init function is still at work on the item.  Another driver may use the *)
(* group, whose items are made and unmade by probers: that of ChardevGroup.*)
(***************************************************************************)
EXTENDS ChardevGroup

ASSUME DemoAssumption == IsFiniteSet(Opener)

VARIABLES
  driver,      \* the driver that uses the group: "demo" or "hotplug"
  open_count,  \* demo_item->open_count
  named,       \* the items whose demo_item->device is set
  ready,       \* the items that the init function has finished
  file,        \* file[t]: the private_data of the file t has open
  count,       \* count[t]: the local open_count of the open function
  early        \* history: the items opened before they were ready

demo     == <<open_count, named, ready>>
opening  == <<file, count, early>>
demoVars == <<vars, driver, demo, opening>>

NoFile == -1

DemoInit ==
  /\ Init /\ driver \in {"demo", "hotplug"} /\ (driver = "demo" => free_privdata)
  /\ open_count = [d \in Made |-> 0] /\ named = {} /\ ready = {} /\ early = {}
  /\ file = [t \in Opener |-> NoFile] /\ count = [t \in Opener |-> 0]

-----------------------------------------------------------------------------
(* chardev_group_demo_init() and chardev_group_demo_exit()                 *)

\* The kzalloc() of the next item fails, or the item is made.
InitNext ==
  /\ pc[Loader] = "loaded"
  /\ \/ made < max_items /\ CallMake(Loader)
     \/ /\ Goto(Loader, IF made = 0 THEN "next_item" ELSE "running")
        /\ at' = [at EXCEPT ![Loader] = 0]
        /\ UNCHANGED <<group, held, items, kernel, made, found, dev>>
  /\ UNCHANGED <<demo, opening>>

\* An item that gets no device ends the loop: of the items that there are, or
\* of the group if this was the first.
InitBreaks ==
  /\ pc[Loader] = "not_made"
  /\ Goto(Loader, IF made = 1 THEN "next_item" ELSE "running")
  /\ at' = [at EXCEPT ![Loader] = 0]
  /\ UNCHANGED <<group, held, items, kernel, made, found, dev, demo, opening>>

SetDevice ==
  /\ pc[Loader] = "made" /\ Goto(Loader, "atomic_set")
  /\ named' = named \cup {dev[Loader]}
  /\ UNCHANGED <<group, held, items, kernel, made, found, at, dev, open_count, ready,
                 opening>>

SetOpenCount ==
  /\ pc[Loader] = "atomic_set" /\ Goto(Loader, "loaded")
  /\ open_count' = [open_count EXCEPT ![dev[Loader]] = 0]
  /\ ready' = ready \cup {dev[Loader]}
  /\ UNCHANGED <<group, held, items, kernel, made, found, at, dev, named, opening>>

\* The driver is not unloaded while a file is open.
chardev_group_demo_exit ==
  /\ pc[Loader] = "running"
  /\ \A t \in Opener : pc[t] = "idle" /\ file[t] = NoFile
  /\ Goto(Loader, "next_item")
  /\ UNCHANGED <<group, held, items, kernel, made, found, at, dev, demo, opening>>

Load ==
  \/ InitNext \/ InitBreaks \/ SetDevice \/ SetOpenCount \/ chardev_group_demo_exit
  \/ /\ CallCreate \/ chardev_group_create \/ chardev_group_make_item(Loader)
        \/ chardev_group_destroy
     /\ UNCHANGED <<demo, opening>>

-----------------------------------------------------------------------------
(* chardev_group_demo_open() and chardev_group_demo_release()              *)

\* The file of a device is there as long as the device is in the class.
Open(t) ==
  /\ pc[t] = "idle" /\ file[t] = NoFile
  /\ Openable /\ found < MaxFound /\ found' = found + 1
  /\ \E i \in Index :
       /\ AtMinor(i) # {} /\ FindItem(t, i)
       /\ early' = early \cup (AtMinor(i) \ ready)
  /\ UNCHANGED <<demo, file, count>>

Release(t) ==
  /\ pc[t] = "idle" /\ file[t] # NoFile
  /\ FindItem(t, at[t])
  /\ UNCHANGED <<found, demo, opening>>

GetData(t) == DevGetDrvdata(t) /\ UNCHANGED <<demo, opening>>

\* atomic_inc_return()
Increment(t) ==
  /\ pc[t] = "data" /\ file[t] = NoFile /\ Goto(t, "test")
  /\ open_count' = [open_count EXCEPT ![dev[t]] = @ + 1]
  /\ count' = [count EXCEPT ![t] = open_count[dev[t]] + 1]
  /\ UNCHANGED <<group, held, items, kernel, made, found, at, dev, named, ready, file,
                 early>>

\* Mutant: an open that fails leaves the count as it is.
TestOpenCountKeepsIt(t) ==
  /\ pc[t] = "test" /\ dev[t] \in named /\ Goto(t, "idle")
  /\ file' = IF count[t] > 1 THEN file ELSE [file EXCEPT ![t] = dev[t]]
  /\ dev' = [dev EXCEPT ![t] = NULL]
  /\ UNCHANGED <<group, held, items, kernel, made, found, at, demo, count, early>>

\* Mutant: the second opener is let in.
TestOpenCountOffByOne(t) ==
  /\ pc[t] = "test" /\ dev[t] \in named /\ Goto(t, "idle")
  /\ IF count[t] > 2
     THEN open_count' = [open_count EXCEPT ![dev[t]] = @ - 1] /\ UNCHANGED file
     ELSE file' = [file EXCEPT ![t] = dev[t]] /\ UNCHANGED open_count
  /\ dev' = [dev EXCEPT ![t] = NULL]
  /\ UNCHANGED <<group, held, items, kernel, made, found, at, named, ready, count, early>>

TestOpenCount(t) ==
  /\ pc[t] = "test" /\ dev[t] \in named /\ Goto(t, "idle")
  /\ IF count[t] > 1
     THEN open_count' = [open_count EXCEPT ![dev[t]] = @ - 1] /\ UNCHANGED file
     ELSE file' = [file EXCEPT ![t] = dev[t]] /\ UNCHANGED open_count
  /\ dev' = [dev EXCEPT ![t] = NULL]
  /\ UNCHANGED <<group, held, items, kernel, made, found, at, named, ready, count, early>>

\* Either function names the device of the item that it has found; while that is not
\* set the thread comes to its end there, and the driver stays in use.
DevNameOfNull(t) ==
  /\ pc[t] = "test" \/ (pc[t] = "data" /\ file[t] # NoFile)
  /\ dev[t] \notin named /\ Goto(t, "oops")
  /\ UNCHANGED <<group, held, items, kernel, made, found, at, dev, demo, opening>>

\* Without private data the file is opened and closed all the same.
NoData(t) ==
  /\ Leave(t, "no_data")
  /\ file' = [file EXCEPT ![t] = IF @ = NoFile THEN NULL ELSE NoFile]
  /\ UNCHANGED <<demo, count, early>>

\* The count is that of the item found now, whatever the file was opened with.
Decrement(t) ==
  /\ pc[t] = "data" /\ file[t] # NoFile /\ dev[t] \in named /\ Goto(t, "idle")
  /\ open_count' = [open_count EXCEPT ![dev[t]] = @ - 1]
  /\ file' = [file EXCEPT ![t] = NoFile] /\ dev' = [dev EXCEPT ![t] = NULL]
  /\ UNCHANGED <<group, held, items, kernel, made, found, at, named, ready, count, early>>

Use(t) ==
  \/ Open(t) \/ Release(t) \/ GetData(t) \/ Increment(t) \/ TestOpenCount(t)
  \/ NoData(t) \/ Decrement(t) \/ DevNameOfNull(t)

Demo == Load \/ \E t \in Opener : Use(t)
Hotplug == Next /\ UNCHANGED <<demo, opening>>

DemoNext ==
  \/ driver = "demo" /\ Demo /\ UNCHANGED <<driver, free_privdata>>
  \/ driver = "hotplug" /\ Hotplug /\ UNCHANGED driver

DemoSpec == DemoInit /\ [][DemoNext]_demoVars

-----------------------------------------------------------------------------
(* Properties.                                                             *)

\* Memory that is read is there: that of devices as in DeviceIsAlive; the device of an
\* item is set when an opener of the demonstration reads its name, unless the item was
\* opened before it was ready; and no private data is freed while it is in use there.
ReadsFindMemory ==
  /\ DeviceIsAlive
  /\ \A t \in Opener : pc[t] = "oops" => dev[t] \in early
  /\ driver = "demo" =>
       \A t \in Opener : file[t] \notin freed /\ (pc[t] \in {"data", "test"} => dev[t] \notin freed)

\* Of an item that nobody opened before it was ready, the open count is the
\* number of the threads that have it open or are about to be refused, so it
\* is never left raised by a refused open nor lowered twice.
CountMatchesOpeners ==
  \A d \in ready \ early :
    open_count[d] =
      Cardinality({t \in Opener : file[t] = d \/ (pc[t] = "test" /\ dev[t] = d)})

\* One thread at a time has a device open, also when several open and close it
\* at once; an open that finds it open is refused with EMFILE.  Of the items, that
\* is, that nobody opened before they were ready.
OneOpenerOfReady ==
  \A t, u \in Opener : file[t] = file[u] /\ file[t] \in Made \ early => t = u
=============================================================================
