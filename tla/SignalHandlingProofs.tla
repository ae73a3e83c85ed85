------------------------- MODULE SignalHandlingProofs -------------------------
(***************************************************************************)
(* Proofs about SignalHandling and SimpleApplication for any signals, any  *)
(* lists to register, and any number of calls, signals and children.       *)
(***************************************************************************)
EXTENDS SimpleApplication, SequenceTheorems, TLAPS

FrameType == [signum : Signal, step : FrameStep]

\* The entries of two lists in the order they are registered in, and in the
\* order they are rolled back in.
Order(l) == CriticalEntries(l) \o PlainEntries(l)
RollbackOrder(l) == PlainEntries(l) \o CriticalEntries(l)

\* t is the end of s.
Suffix(t, s) ==
  /\ Len(t) <= Len(s)
  /\ \A i \in 1..Len(t) : t[i] = s[Len(s) - Len(t) + i]

\* A function in progress has an entry to treat; what sig_register() has tested
\* still holds at the call of sigaction(); only a filled table has names.
Progress ==
  /\ pc \in {"register", "sigaction", "rollback"} => todo # <<>>
  /\ pc = "sigaction" =>
       /\ SIG_INFO_READY /\ Found(Head(todo).name)
       /\ Head(todo).handler # "NULL" /\ handler[Head(todo).name] = Head(todo).handler
  /\ pc = "rollback" => op = "sig_simple_register"
  /\ pc \in {"free", "reset", "exit"} => op # "sig_simple_register"
  /\ s_sig_info_tables = "NULL" => ~named

\* An entry that sig_simple_register() has registered, or has rolled back.
Taken(e) == /\ named /\ e.name \in Signal /\ action[e.name] # "SIG_DFL"
            /\ handler[e.name] = e.handler
Undone(e) == named /\ e.name \in Signal => action[e.name] = "SIG_DFL"

\* sig_simple_register() has registered the entries before those to do.
Forward ==
  op = "sig_simple_register" /\ pc \in {"register", "sigaction"} =>
    /\ lists \in Lists /\ ~Intersect(lists) /\ Suffix(todo, Order(lists))
    /\ \A i \in 1..Len(Order(lists)) - Len(todo) : Taken(Order(lists)[i])

\* It has rolled back those before the ones to roll back.
Backward ==
  pc = "rollback" =>
    /\ lists \in Lists /\ ~Intersect(lists) /\ Suffix(todo, RollbackOrder(lists))
    /\ \A i \in 1..Len(RollbackOrder(lists)) - Len(todo) : Undone(RollbackOrder(lists)[i])

Succeeded ==
  op = "sig_simple_register" /\ pc = "idle" /\ result = "ok" =>
    named /\ lists \in Lists /\ ~Intersect(lists)

Registration == TypeOK /\ Progress /\ Forward /\ Backward /\ Succeeded /\ AllOrNothing

\* A signal that is registered is one that the program was told of, or is in the
\* lists that are being registered or rolled back; a handler runs for a registered
\* signal; sig_register() has one signal to register.
InHand(s) == /\ op = "sig_simple_register" /\ pc \in {"register", "sigaction", "rollback"}
             /\ named /\ s \in Listed(lists)
Known == \A s \in Signal : action[s] # "SIG_DFL" => s \in kept \/ InHand(s)
Started == \A i \in 1..Len(frames) : action[frames[i].signum] # "SIG_DFL"
OneToDo == op # "sig_simple_register" /\ pc \in {"register", "sigaction"} => Tail(todo) = <<>>
Accounted == Known /\ Started /\ OneToDo /\ CrashOnlyOfKept

-----------------------------------------------------------------------------
\* How far the example program has come, and what it has registered by then.
Waiter == /\ action[SIGCHLD] # "SIG_DFL"
          /\ handler[SIGCHLD] = "sig_handler_wait_child_process"
Phase ==
  /\ at \in {"start", "registering", "check", "work", "sleep", "over", "exiting"}
  /\ at \in {"start", "check", "work", "sleep", "over"} => pc = "idle"
  /\ at = "registering" =>
       op = "sig_simple_register" /\ pc \in {"idle", "register", "sigaction", "rollback"}
  /\ at = "exiting" => op = "exit" /\ pc \in {"free", "reset", "exit"}
  /\ at \in {"check", "work", "sleep"} => Waiter
  /\ forks > 0 => Waiter /\ at \notin {"start", "registering"}
  /\ zombies + children <= forks
  /\ \A s \in Signal : handler[s] = "sig_handler_wait_child_process" => s = SIGCHLD

\* A handler of SIGCHLD that has not yet called wait().
Comes(f) == f.signum = SIGCHLD /\ f.step \in {"set flag", "call"}
Coming(fs) == \E i \in 1..Len(fs) : Comes(fs[i])

\* At most one handler of SIGCHLD runs; only it waits, and only after a stray
\* SIGCHLD.
Single(fs) == \A i, j \in 1..Len(fs) :
                fs[i].signum = SIGCHLD /\ fs[j].signum = SIGCHLD => i = j
Waits(fs, n) == \A i \in 1..Len(fs) :
                  fs[i].step \in {"waiting", "return"} => fs[i].signum = SIGCHLD /\ n > 0

\* SIGCHLD comes of a child.
HasSIGCHLD(fs) == \E i \in 1..Len(fs) : fs[i].signum = SIGCHLD
Frames == /\ Single(frames) /\ Waits(frames, stray)
          /\ SIGCHLD \in pending \/ HasSIGCHLD(frames) => forks > 0

\* Each zombie has a handler to come or was merged; without a stray SIGCHLD, each
\* handler to come has a zombie.
Balance ==
  /\ zombies <= merged + Count(SIGCHLD \in pending) + Count(Coming(frames))
  /\ stray = 0 => Count(SIGCHLD \in pending) + Count(Coming(frames)) <= zombies

AppInv == Registration /\ Phase /\ Frames /\ Balance

-----------------------------------------------------------------------------
(* Sequences.                                                              *)

LEMMA HeadAndTail ==
  ASSUME NEW S, NEW s \in Seq(S), s # <<>>
  PROVE  /\ Len(s) \in Nat \ {0} /\ Head(s) \in S /\ Head(s) = s[1]
         /\ Tail(s) \in Seq(S) /\ Len(Tail(s)) = Len(s) - 1
         /\ \A i \in 1..Len(s) - 1 : Tail(s)[i] = s[i + 1]
BY HeadTailProperties, EmptySeq, LenProperties

\* A sequence with another first item, and one with an item put before it.
LEMMA NewHead ==
  ASSUME NEW S, NEW s \in Seq(S), NEW x \in S, s # <<>>
  PROVE  /\ <<x>> \o Tail(s) \in Seq(S) /\ Len(<<x>> \o Tail(s)) = Len(s)
         /\ (<<x>> \o Tail(s))[1] = x
         /\ \A i \in 2..Len(s) : (<<x>> \o Tail(s))[i] = s[i]
<1>1. Len(s) \in Nat \ {0} /\ Tail(s) \in Seq(S) /\ Len(Tail(s)) = Len(s) - 1
      /\ \A i \in 1..Len(s) - 1 : Tail(s)[i] = s[i + 1]
  BY HeadAndTail
<1>2. <<x>> \in Seq(S) /\ Len(<<x>>) = 1 /\ <<x>>[1] = x
  OBVIOUS
<1>. DEFINE h == <<x>>
            t == Tail(s)
<1>3. Len(h) = 1 /\ h[1] = x /\ Len(t) = Len(s) - 1
      /\ \A i \in 1..Len(s) - 1 : t[i] = s[i + 1]
  BY <1>1, <1>2
<1>7. h \in Seq(S) /\ t \in Seq(S)
  BY <1>1, <1>2
<1>. HIDE DEF h, t
<1>4. /\ h \o t \in Seq(S) /\ Len(h \o t) = Len(h) + Len(t)
      /\ \A i \in 1..Len(h) + Len(t) : (h \o t)[i] = IF i <= Len(h) THEN h[i] ELSE t[i - Len(h)]
  BY <1>7, ConcatProperties
<1>5. Len(h \o t) = Len(s) /\ (h \o t)[1] = x
  BY <1>1, <1>3, <1>4
<1>6. \A i \in 2..Len(s) : (h \o t)[i] = s[i]
  <2>1. TAKE i \in 2..Len(s)
  <2>2. (h \o t)[i] = t[i - 1] /\ i - 1 \in 1..Len(s) - 1
    BY <1>1, <1>3, <1>4
  <2>3. t[i - 1] = s[(i - 1) + 1]
    BY <1>3, <2>2
  <2>. QED  BY <2>2, <2>3
<1>. QED  BY <1>4, <1>5, <1>6 DEF h, t

LEMMA PutBefore ==
  ASSUME NEW S, NEW s \in Seq(S), NEW x \in S
  PROVE  /\ <<x>> \o s \in Seq(S) /\ Len(<<x>> \o s) = Len(s) + 1
         /\ (<<x>> \o s)[1] = x /\ \A i \in 2..Len(s) + 1 : (<<x>> \o s)[i] = s[i - 1]
<1>. DEFINE h == <<x>>
<1>1. h \in Seq(S) /\ Len(h) = 1 /\ h[1] = x /\ Len(s) \in Nat
  BY LenProperties
<1>. HIDE DEF h
<1>2. /\ h \o s \in Seq(S) /\ Len(h \o s) = Len(h) + Len(s)
      /\ \A i \in 1..Len(h) + Len(s) : (h \o s)[i] = IF i <= Len(h) THEN h[i] ELSE s[i - Len(h)]
  BY <1>1, ConcatProperties
<1>3. Len(h \o s) = Len(s) + 1 /\ (h \o s)[1] = x
      /\ \A i \in 2..Len(s) + 1 : (h \o s)[i] = s[i - 1]
  BY <1>1, <1>2
<1>. QED  BY <1>2, <1>3 DEF h

\* The end of a sequence without its first item is an end again, and that item is
\* the one before.
LEMMA SuffixTail ==
  ASSUME NEW S, NEW s \in Seq(S), NEW t \in Seq(S), t # <<>>, Suffix(t, s)
  PROVE  /\ Suffix(Tail(t), s) /\ Len(Tail(t)) = Len(t) - 1
         /\ Len(s) - Len(t) + 1 \in 1..Len(s) /\ Head(t) = s[Len(s) - Len(t) + 1]
<1>1. Len(t) \in Nat \ {0} /\ Head(t) = t[1] /\ Len(Tail(t)) = Len(t) - 1
      /\ \A i \in 1..Len(t) - 1 : Tail(t)[i] = t[i + 1]
  BY HeadAndTail
<1>2. Len(s) \in Nat /\ Len(t) <= Len(s)
      /\ \A i \in 1..Len(t) : t[i] = s[Len(s) - Len(t) + i]
  BY LenProperties DEF Suffix
<1>3. Head(t) = s[Len(s) - Len(t) + 1] /\ Len(s) - Len(t) + 1 \in 1..Len(s)
  BY <1>1, <1>2
<1>4. \A i \in 1..Len(Tail(t)) : Tail(t)[i] = s[Len(s) - Len(Tail(t)) + i]
  <2>1. TAKE i \in 1..Len(Tail(t))
  <2>2. Tail(t)[i] = t[i + 1] /\ i + 1 \in 1..Len(t)
    BY <1>1, <2>1
  <2>3. t[i + 1] = s[Len(s) - Len(t) + (i + 1)]
    BY <1>2, <2>2
  <2>4. Len(s) - Len(t) + (i + 1) = Len(s) - Len(Tail(t)) + i
    BY <1>1, <1>2, <2>1
  <2>. QED  BY <2>2, <2>3, <2>4
<1>. QED  BY <1>1, <1>2, <1>3, <1>4 DEF Suffix

LEMMA SuffixSelf ==
  ASSUME NEW S, NEW s \in Seq(S)
  PROVE  Suffix(s, s)
BY LenProperties DEF Suffix

-----------------------------------------------------------------------------
(* The entries of the lists.                                               *)

Wait == "sig_handler_wait_child_process"

LEMMA EntriesOf ==
  ASSUME NEW list \in Seq(Name), NEW function \in Handler \ {Wait}
  PROVE  /\ Entries(list, function) \in Seq(Entry) /\ Len(Entries(list, function)) = Len(list)
         /\ \A i \in 1..Len(list) :
              /\ Entries(list, function)[i].name = list[i]
              /\ Entries(list, function)[i].handler = IF list[i] = SIGCHLD THEN Wait ELSE function
<1>1. Len(list) \in Nat /\ DOMAIN list = 1..Len(list) /\ \A i \in 1..Len(list) : list[i] \in Name
  BY LenProperties, ElementOfSeq
<1>. DEFINE E(i) == [name |-> list[i],
                     handler |-> IF list[i] = SIGCHLD THEN Wait ELSE function]
<1>2. \A i \in 1..Len(list) : E(i) \in Entry
  BY <1>1 DEF Entry, Handler, Wait
<1>3. Entries(list, function) = [i \in 1..Len(list) |-> E(i)]
  BY <1>1 DEF Entries, Wait
<1>4. [i \in 1..Len(list) |-> E(i)] \in Seq(Entry)
      /\ Len([i \in 1..Len(list) |-> E(i)]) = Len(list)
  <2>. HIDE DEF E
  <2>. QED  BY <1>1, <1>2
<1>. QED  BY <1>3, <1>4

LEMMA ListsTyped ==
  ASSUME NEW l \in Lists \cup {NoLists}
  PROVE  l.critical \in Seq(Name) /\ l.plain \in Seq(Name)
<1>1. CASE l \in Lists
  BY <1>1, SignalAssumption
<1>2. CASE l = NoLists
  BY <1>2 DEF NoLists
<1>. QED  BY <1>1, <1>2

LEMMA ListedNames ==
  ASSUME NEW l \in Lists \cup {NoLists}
  PROVE  Listed(l) \subseteq Name
<1>1. l.critical \in Seq(Name) /\ l.plain \in Seq(Name)
  BY ListsTyped
<1>2. /\ \A i \in DOMAIN l.critical : l.critical[i] \in Name
      /\ \A i \in DOMAIN l.plain : l.plain[i] \in Name
  BY <1>1, LenProperties, ElementOfSeq
<1>. QED  BY <1>2 DEF Listed

\* Every entry is of one of the lists, with the handler of that list.
From(e, l) ==
  \/ \E i \in 1..Len(l.critical) : e = CriticalEntries(l)[i]
  \/ \E i \in 1..Len(l.plain) : e = PlainEntries(l)[i]

LEMMA EntriesFrom ==
  ASSUME NEW l \in Lists \cup {NoLists}
  PROVE  /\ Order(l) \in Seq(Entry) /\ RollbackOrder(l) \in Seq(Entry)
         /\ Len(Order(l)) \in Nat /\ Len(RollbackOrder(l)) = Len(Order(l))
         /\ \A i \in 1..Len(Order(l)) : From(Order(l)[i], l)
         /\ \A e : From(e, l) => /\ \E i \in 1..Len(Order(l)) : Order(l)[i] = e
                                 /\ \E i \in 1..Len(Order(l)) : RollbackOrder(l)[i] = e
<1>. DEFINE c == CriticalEntries(l)
            p == PlainEntries(l)
<1>1. l.critical \in Seq(Name) /\ l.plain \in Seq(Name)
  BY ListsTyped
<1>2. c \in Seq(Entry) /\ Len(c) = Len(l.critical)
  BY <1>1, EntriesOf DEF CriticalEntries, Handler, Wait
<1>3. p \in Seq(Entry) /\ Len(p) = Len(l.plain)
  BY <1>1, EntriesOf DEF PlainEntries, Handler, Wait
<1>. HIDE DEF c, p
<1>4. Len(c) \in Nat /\ Len(p) \in Nat
  BY <1>2, <1>3, LenProperties
<1>5. /\ c \o p \in Seq(Entry) /\ Len(c \o p) = Len(c) + Len(p)
      /\ \A i \in 1..Len(c) + Len(p) : (c \o p)[i] = IF i <= Len(c) THEN c[i] ELSE p[i - Len(c)]
  BY <1>2, <1>3, ConcatProperties
<1>6. /\ p \o c \in Seq(Entry) /\ Len(p \o c) = Len(p) + Len(c)
      /\ \A i \in 1..Len(p) + Len(c) : (p \o c)[i] = IF i <= Len(p) THEN p[i] ELSE c[i - Len(p)]
  BY <1>2, <1>3, ConcatProperties
<1>7. Order(l) = c \o p /\ RollbackOrder(l) = p \o c
  BY DEF Order, RollbackOrder, c, p
<1>8. \A i \in 1..Len(c \o p) : From((c \o p)[i], l)
  <2>1. TAKE i \in 1..Len(c \o p)
  <2>2. CASE i <= Len(c)
    <3>1. i \in 1..Len(l.critical) /\ (c \o p)[i] = c[i]
      BY <1>2, <1>4, <1>5, <2>1, <2>2
    <3>. QED  BY <3>1 DEF From, c
  <2>3. CASE i > Len(c)
    <3>1. i - Len(c) \in 1..Len(l.plain) /\ (c \o p)[i] = p[i - Len(c)]
      BY <1>3, <1>4, <1>5, <2>1, <2>3
    <3>. QED  BY <3>1 DEF From, p
  <2>. QED  BY <1>4, <2>1, <2>2, <2>3
<1>9. ASSUME NEW e, From(e, l)
      PROVE  /\ \E i \in 1..Len(c) + Len(p) : (c \o p)[i] = e
             /\ \E i \in 1..Len(c) + Len(p) : (p \o c)[i] = e
  <2>1. CASE \E i \in 1..Len(l.critical) : e = c[i]
    <3>1. PICK i \in 1..Len(c) : e = c[i]
      BY <1>2, <2>1
    <3>2. i \in 1..Len(c) + Len(p) /\ (c \o p)[i] = e
      BY <1>4, <1>5, <3>1
    <3>3. Len(p) + i \in 1..Len(c) + Len(p) /\ ~(Len(p) + i <= Len(p)) /\ (Len(p) + i) - Len(p) = i
      BY <1>4, <3>1
    <3>4. (p \o c)[Len(p) + i] = e
      BY <1>4, <1>6, <3>1, <3>3
    <3>. QED  BY <3>2, <3>3, <3>4
  <2>2. CASE \E i \in 1..Len(l.plain) : e = p[i]
    <3>1. PICK i \in 1..Len(p) : e = p[i]
      BY <1>3, <2>2
    <3>2. i \in 1..Len(c) + Len(p) /\ (p \o c)[i] = e
      BY <1>4, <1>6, <3>1
    <3>3. Len(c) + i \in 1..Len(c) + Len(p) /\ ~(Len(c) + i <= Len(c)) /\ (Len(c) + i) - Len(c) = i
      BY <1>4, <3>1
    <3>4. (c \o p)[Len(c) + i] = e
      BY <1>4, <1>5, <3>1, <3>3
    <3>. QED  BY <3>2, <3>3, <3>4
  <2>. QED  BY <1>9, <2>1, <2>2 DEF From, c, p
<1>10. Len(p) + Len(c) = Len(c) + Len(p) /\ Len(c) + Len(p) \in Nat
  BY <1>4
<1>. QED  BY <1>5, <1>6, <1>7, <1>8, <1>9, <1>10

\* The handler of an entry is not NULL, and SIGCHLD has one of its own.
LEMMA HandlerOfEntry ==
  ASSUME NEW l \in Lists \cup {NoLists}, NEW e, From(e, l)
  PROVE  e.handler # "NULL" /\ (e.handler = Wait <=> e.name = SIGCHLD)
<1>1. l.critical \in Seq(Name) /\ l.plain \in Seq(Name)
  BY ListsTyped
<1>2. CASE \E i \in 1..Len(l.critical) : e = CriticalEntries(l)[i]
  BY <1>1, <1>2, EntriesOf DEF CriticalEntries, Handler, Wait
<1>3. CASE \E i \in 1..Len(l.plain) : e = PlainEntries(l)[i]
  BY <1>1, <1>3, EntriesOf DEF PlainEntries, Handler, Wait
<1>. QED  BY <1>2, <1>3 DEF From

\* In lists without a common signal a signal has one handler.
LEMMA OneHandler ==
  ASSUME NEW l \in Lists, ~Intersect(l), NEW d, NEW e, From(d, l), From(e, l), d.name = e.name
  PROVE  d.handler = e.handler
<1>1. l.critical \in Seq(Name) /\ l.plain \in Seq(Name)
  BY ListsTyped
<1>2. \A i \in 1..Len(l.critical) :
        /\ CriticalEntries(l)[i].name = l.critical[i]
        /\ CriticalEntries(l)[i].handler = IF l.critical[i] = SIGCHLD THEN Wait ELSE "sig_handler_set_critical_flag"
  BY <1>1, EntriesOf DEF CriticalEntries, Handler, Wait
<1>3. \A i \in 1..Len(l.plain) :
        /\ PlainEntries(l)[i].name = l.plain[i]
        /\ PlainEntries(l)[i].handler = IF l.plain[i] = SIGCHLD THEN Wait ELSE "sig_handler_nop"
  BY <1>1, EntriesOf DEF PlainEntries, Handler, Wait
<1>4. DOMAIN l.critical = 1..Len(l.critical) /\ DOMAIN l.plain = 1..Len(l.plain)
  BY <1>1, LenProperties
<1>5. \A i \in 1..Len(l.critical), j \in 1..Len(l.plain) : l.critical[i] # l.plain[j]
  BY <1>4 DEF Intersect
<1>6. ASSUME NEW i \in 1..Len(l.critical), d = CriticalEntries(l)[i]
      PROVE  d.handler = e.handler
  BY <1>2, <1>3, <1>5, <1>6 DEF From
<1>7. ASSUME NEW i \in 1..Len(l.plain), d = PlainEntries(l)[i]
      PROVE  d.handler = e.handler
  BY <1>2, <1>3, <1>5, <1>7 DEF From
<1>. QED  BY <1>6, <1>7 DEF From

-----------------------------------------------------------------------------
(* Steps that leave sig_simple_register() alone.                           *)

registry == <<s_sig_info_tables, named, handler, action, pc, op, lists, todo, result>>

\* Handlers, signals and children do not disturb it.
LEMMA Elsewhere ==
  ASSUME Registration, TypeOK', UNCHANGED registry
  PROVE  Registration'
<1>. USE DEF registry
<1>1. Progress'
  BY DEF Registration, Progress, SIG_INFO_READY, Found
<1>2. Forward'
  BY DEF Registration, Forward, Taken
<1>3. Backward'
  BY DEF Registration, Backward, Undone
<1>4. Succeeded' /\ AllOrNothing'
  BY DEF Registration, Succeeded, AllOrNothing
<1>. QED  BY <1>1, <1>2, <1>3, <1>4 DEF Registration

\* Nor do the other functions.
LEMMA OtherFunction ==
  ASSUME TypeOK', op' # "sig_simple_register", pc' \in {"idle", "free", "reset", "exit"},
         s_sig_info_tables' = "NULL" => ~named'
  PROVE  Registration'
BY DEF Registration, Progress, Forward, Backward, Succeeded, AllOrNothing

LEMMA ForkType ==
  ASSUME TypeOK, Fork
  PROVE  TypeOK' /\ UNCHANGED registry
BY DEF TypeOK, Fork, At, library, kernel, program, registry

LEMMA KernelType ==
  ASSUME TypeOK, Kernel
  PROVE  TypeOK' /\ UNCHANGED registry
<1>. USE DEF library, family, program, registry
<1>1. CASE ChildEnds
  BY <1>1, SignalAssumption DEF TypeOK, ChildEnds, Notify
<1>2. CASE ChildStops
  BY <1>2, SignalAssumption DEF TypeOK, ChildStops, Notify
<1>3. CASE \E s \in Signal : Send(s)
  BY <1>3 DEF TypeOK, Send, Notify
<1>4. ASSUME NEW s \in Signal, Deliver(s)
      PROVE  TypeOK' /\ UNCHANGED registry
  <2>1. frames \in Seq(FrameType)
    BY DEF TypeOK, FrameType
  <2>2. Interrupted \in Seq(FrameType)
    <3>1. CASE frames # <<>> /\ Head(frames).step = "waiting"
      <4>1. [Head(frames) EXCEPT !.step = "return"] \in FrameType
        BY <2>1, <3>1, HeadAndTail DEF FrameType, FrameStep
      <4>. QED  BY <2>1, <3>1, <4>1, NewHead DEF Interrupted
    <3>2. CASE ~(frames # <<>> /\ Head(frames).step = "waiting")
      BY <2>1, <3>2 DEF Interrupted
    <3>. QED  BY <3>1, <3>2
  <2>3. [signum |-> s, step |-> "set flag"] \in FrameType
    BY DEF FrameType, FrameStep
  <2>4. <<[signum |-> s, step |-> "set flag"]>> \o Interrupted \in Seq(FrameType)
    BY <2>2, <2>3, PutBefore
  <2>5. frames' \in Seq([signum : Signal, step : FrameStep])
    BY <1>4, <2>1, <2>4 DEF Deliver, FrameType
  <2>6. process' \in {"running", "killed", "crashed", "exited"}
    BY <1>4 DEF Deliver, TypeOK
  <2>. QED  BY <1>4, <2>5, <2>6 DEF TypeOK, Deliver
<1>. QED  BY <1>1, <1>2, <1>3, <1>4 DEF Kernel

\* What a handler leaves of the frames.
LEMMA HandlerFrames ==
  ASSUME TypeOK, frames # <<>>
  PROVE  /\ Tail(frames) \in Seq(FrameType) /\ Frame \in FrameType
         /\ \A step \in FrameStep : Continue(step) => frames' \in Seq(FrameType)
<1>1. frames \in Seq(FrameType)
  BY DEF TypeOK, FrameType
<1>2. Tail(frames) \in Seq(FrameType) /\ Frame \in FrameType
  BY <1>1, HeadAndTail DEF Frame
<1>3. ASSUME NEW step \in FrameStep, Continue(step)
      PROVE  frames' \in Seq(FrameType)
  <2>1. [Frame EXCEPT !.step = step] \in FrameType
    BY <1>2 DEF FrameType
  <2>. QED  BY <1>1, <1>3, <2>1, NewHead DEF Continue
<1>. QED  BY <1>2, <1>3

LEMMA WaitType ==
  ASSUME TypeOK, NEW step \in {"call", "waiting"}, wait(step)
  PROVE  TypeOK' /\ UNCHANGED registry
<1>1. frames # <<>>
  BY DEF wait, Running
<1>2. frames' \in Seq(FrameType)
  BY <1>1, HandlerFrames DEF wait, FrameStep
<1>3. zombies' \in Nat
  BY DEF wait, TypeOK
<1>. QED  BY <1>2, <1>3 DEF wait, TypeOK, FrameType, library, program, registry

LEMMA HandleType ==
  ASSUME TypeOK, Handle
  PROVE  TypeOK' /\ UNCHANGED registry
<1>1. frames # <<>>
  BY DEF Handle, sig_set_happen_flag, call_handler, wait, ReturnFromWait, Running
<1>2. CASE sig_set_happen_flag
  <2>1. frames' \in Seq(FrameType)
    BY <1>1, <1>2, HandlerFrames DEF sig_set_happen_flag, FrameStep, TypeOK, FrameType
  <2>2. happened' \in [Signal -> BOOLEAN]
    BY <1>1, <1>2, HandlerFrames DEF sig_set_happen_flag, TypeOK, FrameType
  <2>3. process' \in {"running", "killed", "crashed", "exited"}
    BY <1>2 DEF sig_set_happen_flag, TypeOK
  <2>. QED  BY <1>2, <2>1, <2>2, <2>3
            DEF sig_set_happen_flag, TypeOK, FrameType, family, program, registry
<1>3. CASE call_handler
  <2>1. CASE wait("call")
    BY <2>1, WaitType
  <2>2. CASE ~wait("call")
    <3>1. frames' \in Seq(FrameType)
      BY <1>1, <1>3, <2>2, HandlerFrames DEF call_handler
    <3>2. s_critical_flag' \in BOOLEAN
      BY <1>3, <2>2 DEF call_handler, TypeOK
    <3>. QED  BY <1>3, <2>2, <3>1, <3>2 DEF call_handler, TypeOK, FrameType, family, program, registry
  <2>. QED  BY <2>1, <2>2
<1>4. CASE wait("waiting")
  BY <1>4, WaitType
<1>5. CASE ReturnFromWait
  <2>1. frames' \in Seq(FrameType)
    BY <1>1, <1>5, HandlerFrames DEF ReturnFromWait
  <2>. QED  BY <1>5, <2>1 DEF ReturnFromWait, TypeOK, FrameType, library, family, program, registry
<1>. QED  BY <1>2, <1>3, <1>4, <1>5 DEF Handle

LEMMA OthersKeepRegistration ==
  ASSUME Registration, Fork \/ Kernel \/ Handle
  PROVE  Registration'
BY ForkType, KernelType, HandleType, Elsewhere DEF Registration

-----------------------------------------------------------------------------
(* The calls.                                                              *)

\* sig_global_init() leaves the program a table, or fails.
LEMMA InitType ==
  ASSUME TypeOK, Progress, pc = "idle", NEW ok \in BOOLEAN, sig_global_init(ok)
  PROVE  /\ s_sig_info_tables' \in {"NULL", "allocated"} /\ named' \in BOOLEAN
         /\ happened' \in [Signal -> BOOLEAN]
         /\ handler' \in [Signal -> Handler \cup {"NULL"}]
         /\ s_sig_info_tables' = "NULL" => ~named'
         /\ ~ok => ~named'
<1>1. s_sig_info_tables \in {"NULL", "allocated"}
  BY DEF TypeOK
<1>2. \/ /\ UNCHANGED <<s_sig_info_tables, named, happened, handler>>
         /\ ok \/ s_sig_info_tables = "NULL"
      \/ /\ s_sig_info_tables' = "allocated" /\ named' = ok
         /\ happened' = [s \in Signal |-> FALSE]
         /\ handler' = [s \in Signal |-> "NULL"]
  BY <1>1 DEF sig_global_init, SIG_INFO_READY
<1>3. CASE /\ UNCHANGED <<s_sig_info_tables, named, happened, handler>>
           /\ ok \/ s_sig_info_tables = "NULL"
  BY <1>1, <1>3 DEF TypeOK, Progress
<1>4. CASE /\ s_sig_info_tables' = "allocated" /\ named' = ok
           /\ happened' = [s \in Signal |-> FALSE]
           /\ handler' = [s \in Signal |-> "NULL"]
  BY <1>4
<1>. QED  BY <1>2, <1>3, <1>4

LEMMA OtherCalls ==
  ASSUME Registration,
         CallInit \/ \E n \in Name : CallDeregister(n) \/ CallClear(n)
  PROVE  Registration'
<1>. USE DEF Enter, At, Return, library, kernel, family
<1>1. CASE CallInit
  <2>1. PICK ok \in BOOLEAN : sig_global_init(ok) /\ Return(IF ok THEN "ok" ELSE "error")
    BY <1>1 DEF CallInit
  <2>2. pc = "idle" /\ TypeOK /\ Progress
    BY <1>1 DEF CallInit, Registration
  <2>3. /\ s_sig_info_tables' \in {"NULL", "allocated"} /\ named' \in BOOLEAN
        /\ happened' \in [Signal -> BOOLEAN]
        /\ handler' \in [Signal -> Handler \cup {"NULL"}]
        /\ s_sig_info_tables' = "NULL" => ~named'
    BY <2>1, <2>2, InitType
  <2>4. TypeOK'
    BY <1>1, <2>1, <2>2, <2>3 DEF CallInit, TypeOK, Label
  <2>. QED  BY <1>1, <2>3, <2>4, OtherFunction DEF CallInit
<1>2. ASSUME NEW n \in Name, CallDeregister(n)
      PROVE  Registration'
  <2>1. TypeOK'
    BY <1>2 DEF CallDeregister, Registration, TypeOK, Label
  <2>2. s_sig_info_tables' = "NULL" => ~named'
    BY <1>2 DEF CallDeregister, Registration, Progress
  <2>. QED  BY <1>2, <2>1, <2>2, OtherFunction DEF CallDeregister
<1>3. ASSUME NEW n \in Name, CallClear(n)
      PROVE  Registration'
  <2>3. happened' \in [Signal -> BOOLEAN]
    BY <1>3 DEF CallClear, Registration, TypeOK
  <2>1. TypeOK'
    BY <1>3, <2>3 DEF CallClear, Registration, TypeOK, Label
  <2>2. s_sig_info_tables' = "NULL" => ~named'
    BY <1>3 DEF CallClear, Registration, Progress
  <2>. QED  BY <1>3, <2>1, <2>2, OtherFunction DEF CallClear
<1>. QED  BY <1>1, <1>2, <1>3

\* sig_global_reset(), called by the program or at its exit, up to the end.
BeginReset(function) ==
  /\ Enter(function)
  /\ pc' = IF s_sig_info_tables = "NULL" THEN "reset" ELSE "free"
  /\ UNCHANGED <<library, kernel, family, lists, todo, result, kept, sent>>

LEMMA ResetSteps ==
  ASSUME Registration,
         \/ \E function \in {"sig_global_reset", "exit"} : BeginReset(function)
         \/ Free \/ Reset \/ Exit
  PROVE  Registration'
<1>. USE DEF Enter, At, library, kernel, family, program
<1>1. CASE \E function \in {"sig_global_reset", "exit"} : BeginReset(function)
  <2>1. TypeOK'
    BY <1>1 DEF BeginReset, Registration, TypeOK, Label
  <2>2. s_sig_info_tables' = "NULL" => ~named'
    BY <1>1 DEF BeginReset, Registration, Progress
  <2>. QED  BY <1>1, <2>1, <2>2, OtherFunction DEF BeginReset
<1>2. CASE Free
  <2>1. TypeOK'
    BY <1>2 DEF Free, Registration, TypeOK, Label
  <2>. QED  BY <1>2, <2>1, OtherFunction DEF Free, Registration, Progress
<1>3. CASE Reset
  <2>1. TypeOK'
    BY <1>3 DEF Reset, Registration, TypeOK, Label
  <2>. QED  BY <1>3, <2>1, OtherFunction DEF Reset, Registration, Progress
<1>4. CASE Exit
  <2>1. TypeOK'
    BY <1>4 DEF Exit, Registration, TypeOK, Label
  <2>. QED  BY <1>4, <2>1, OtherFunction DEF Exit, Registration, Progress
<1>. QED  BY <1>1, <1>2, <1>3, <1>4

-----------------------------------------------------------------------------
(* Registration and its rollback.                                          *)

LEMMA BeginRegistration ==
  ASSUME Registration, NEW l \in Lists, CallSimpleRegister(l)
  PROVE  Registration'
<1>. USE DEF Enter, At, Return, kernel, family
<1>1. PICK ok \in BOOLEAN :
        /\ sig_global_init(ok)
        /\ IF ok /\ ~Intersect(l) /\ todo' # <<>>
           THEN pc' = "register" /\ UNCHANGED result
           ELSE pc' = "idle" /\ result' = "error"
  BY DEF CallSimpleRegister
<1>2. pc = "idle" /\ TypeOK /\ Progress /\ op' = "sig_simple_register"
  BY DEF CallSimpleRegister, Registration
<1>3. lists' = l /\ todo' = Order(l)
  BY DEF CallSimpleRegister, Order
<1>4. /\ Order(l) \in Seq(Entry) /\ Len(Order(l)) \in Nat
      /\ Order(l) = <<>> <=> Len(Order(l)) = 0
  BY EntriesFrom, EmptySeq
<1>5. /\ s_sig_info_tables' \in {"NULL", "allocated"} /\ named' \in BOOLEAN
      /\ happened' \in [Signal -> BOOLEAN]
      /\ handler' \in [Signal -> Handler \cup {"NULL"}]
      /\ s_sig_info_tables' = "NULL" => ~named'
      /\ ~ok => ~named'
  BY <1>1, <1>2, InitType
<1>6. TypeOK'
  BY <1>1, <1>2, <1>3, <1>4, <1>5 DEF CallSimpleRegister, TypeOK, Label
<1>7. Progress'
  BY <1>1, <1>5 DEF Progress
<1>8. Forward'
  <2>1. Suffix(Order(l), Order(l)) /\ Len(Order(l)) - Len(Order(l)) = 0
    BY <1>4, SuffixSelf
  <2>2. \A i \in 1..Len(Order(l)) - Len(Order(l)) : FALSE
    BY <2>1
  <2>. QED  BY <1>1, <1>3, <2>1, <2>2 DEF Forward
<1>9. Backward' /\ Succeeded'
  BY <1>1 DEF Backward, Succeeded
<1>10. AllOrNothing'
  <2>1. SUFFICES ASSUME pc' = "idle", named', ~Intersect(l)
                 PROVE  Order(l) = <<>>
    <3>1. \A i \in DOMAIN <<>> : FALSE
      OBVIOUS
    <3>. QED  BY <1>3, <2>1, <3>1 DEF AllOrNothing, Order
  <2>. QED  BY <1>1, <1>3, <1>5, <2>1
<1>. QED  BY <1>6, <1>7, <1>8, <1>9, <1>10 DEF Registration

LEMMA BeginRegister ==
  ASSUME Registration, NEW n \in Name, NEW function \in Handler \cup {"NULL"},
         CallRegister(n, function)
  PROVE  Registration'
<1>. USE DEF Enter, At, library, kernel, family
<1>1. todo' \in Seq(Entry) /\ todo' # <<>>
  BY DEF CallRegister, Entry
<1>2. TypeOK'
  BY <1>1 DEF CallRegister, Registration, TypeOK, Label
<1>3. op' = "sig_register" /\ pc' = "register"
  BY DEF CallRegister
<1>4. Progress'
  BY <1>1, <1>3 DEF CallRegister, Registration, Progress
<1>. QED  BY <1>2, <1>3, <1>4 DEF Registration, Forward, Backward, Succeeded, AllOrNothing

\* Registration fails: sig_register() returns, sig_simple_register() starts its
\* rollback.
LEMMA FailStep ==
  ASSUME Registration, pc \in {"register", "sigaction"}, Fail,
         UNCHANGED <<library, kernel, family, op, lists, kept, calls, sent>>
  PROVE  Registration'
<1>. USE DEF library, kernel, family
<1>1. TypeOK /\ Progress /\ Forward /\ lists \in Lists \cup {NoLists}
  BY DEF Registration, TypeOK
<1>2. CASE op = "sig_simple_register"
  <2>1. /\ pc' = "rollback" /\ result' = result /\ op' = op /\ lists' = lists
        /\ todo' = RollbackOrder(lists)
    BY <1>2 DEF Fail, RollbackOrder
  <2>2. lists \in Lists /\ ~Intersect(lists) /\ Len(todo) <= Len(Order(lists)) /\ todo # <<>>
    BY <1>1, <1>2 DEF Forward, Suffix, Progress
  <2>3. RollbackOrder(lists) \in Seq(Entry) /\ Len(Order(lists)) \in Nat
        /\ Len(RollbackOrder(lists)) = Len(Order(lists))
    BY <1>1, EntriesFrom
  <2>4. Len(todo) \in Nat \ {0}
    BY <1>1, <2>2, HeadAndTail DEF TypeOK
  <2>5. RollbackOrder(lists) # <<>>
    BY <2>2, <2>3, <2>4
  <2>6. TypeOK'
    BY <1>1, <2>1, <2>3 DEF TypeOK, Label
  <2>7. Progress'
    BY <1>1, <1>2, <2>1, <2>5 DEF Progress
  <2>8. Backward'
    <3>1. Suffix(RollbackOrder(lists), RollbackOrder(lists))
          /\ Len(RollbackOrder(lists)) - Len(RollbackOrder(lists)) = 0
      BY <2>3, SuffixSelf
    <3>2. \A i \in 1..Len(RollbackOrder(lists)) - Len(RollbackOrder(lists)) : FALSE
      BY <3>1
    <3>. QED  BY <2>1, <2>2, <3>1, <3>2 DEF Backward
  <2>. QED  BY <2>1, <2>6, <2>7, <2>8 DEF Registration, Forward, Succeeded, AllOrNothing
<1>3. CASE op # "sig_simple_register"
  <2>1. pc' = "idle" /\ result' = "error" /\ op' = op /\ todo' = todo
    BY <1>3 DEF Fail, Return
  <2>2. TypeOK'
    BY <1>1, <2>1 DEF TypeOK, Label
  <2>. QED  BY <1>1, <1>3, <2>1, <2>2, OtherFunction DEF Progress
<1>. QED  BY <1>2, <1>3

LEMMA RegisterStep ==
  ASSUME Registration, Register
  PROVE  Registration'
<1>. USE DEF At, library, kernel, family
<1>. DEFINE e == Head(todo)
<1>1. TypeOK /\ Progress /\ Forward /\ pc = "register" /\ todo # <<>> /\ todo \in Seq(Entry)
  BY DEF Registration, Register, Progress, TypeOK
<1>2. e \in Entry
  BY <1>1, HeadAndTail
<1>3. CASE SIG_INFO_READY /\ Found(e.name) /\ e.handler # "NULL"
  <2>1. handler' = [handler EXCEPT ![e.name] = e.handler] /\ pc' = "sigaction"
        /\ UNCHANGED <<todo, result, s_sig_info_tables, named, action, op, lists>>
    BY <1>3 DEF Register
  <2>2. e.name \in Signal /\ e.handler \in Handler
    BY <1>2, <1>3 DEF Entry, Found, Name
  <2>3. handler' \in [Signal -> Handler \cup {"NULL"}] /\ handler'[e.name] = e.handler
        /\ \A s \in Signal : s # e.name => handler'[s] = handler[s]
    BY <1>1, <2>1, <2>2 DEF TypeOK
  <2>4. TypeOK'
    BY <1>1, <2>1, <2>3 DEF Register, TypeOK, Label
  <2>5. Progress'
    BY <1>1, <1>3, <2>1, <2>3 DEF Progress, SIG_INFO_READY, Found
  <2>6. Forward'
    <3>1. SUFFICES ASSUME op = "sig_simple_register",
                          NEW i \in 1..Len(Order(lists)) - Len(todo)
                   PROVE  Taken(Order(lists)[i])'
      BY <1>1, <2>1 DEF Forward
    <3>2. lists \in Lists /\ ~Intersect(lists) /\ Suffix(todo, Order(lists))
          /\ Taken(Order(lists)[i])
      BY <1>1, <3>1 DEF Forward
    <3>3. Order(lists) \in Seq(Entry) /\ Len(Order(lists)) \in Nat
          /\ \A j \in 1..Len(Order(lists)) : From(Order(lists)[j], lists)
      BY <3>2, EntriesFrom
    <3>4. From(e, lists)
      <4>1. Len(Order(lists)) - Len(todo) + 1 \in 1..Len(Order(lists))
            /\ e = Order(lists)[Len(Order(lists)) - Len(todo) + 1]
        BY <1>1, <3>2, <3>3, SuffixTail
      <4>. QED  BY <3>3, <4>1
    <3>5. From(Order(lists)[i], lists)
      <4>1. i \in 1..Len(Order(lists))
        BY <1>1, <3>1, <3>3, LenProperties
      <4>. QED  BY <3>3, <4>1
    <3>6. CASE Order(lists)[i].name = e.name
      <4>1. Order(lists)[i].handler = e.handler
        BY <3>2, <3>4, <3>5, <3>6, OneHandler
      <4>. QED  BY <2>1, <2>3, <3>2, <3>6, <4>1 DEF Taken
    <3>7. CASE Order(lists)[i].name # e.name
      BY <2>1, <2>3, <3>2, <3>7 DEF Taken
    <3>. QED  BY <3>6, <3>7
  <2>. QED  BY <2>1, <2>4, <2>5, <2>6 DEF Registration, Backward, Succeeded, AllOrNothing
<1>4. CASE ~(SIG_INFO_READY /\ Found(e.name) /\ e.handler # "NULL")
  <2>1. Fail /\ UNCHANGED <<library, kernel, family, op, lists, kept, calls, sent>>
    BY <1>4 DEF Register
  <2>. QED  BY <1>1, <2>1, FailStep
<1>. QED  BY <1>3, <1>4

LEMMA SigactionStep ==
  ASSUME Registration, Sigaction
  PROVE  Registration'
<1>. USE DEF At, library, family
<1>. DEFINE e == Head(todo)
            installed == "sig_set_happen_flag_and_call_handler"
<1>1. TypeOK /\ Progress /\ Forward /\ pc = "sigaction" /\ todo # <<>> /\ todo \in Seq(Entry)
  BY DEF Registration, Sigaction, Progress, TypeOK
<1>2. CASE e.name \in Uncatchable
  <2>1. Fail /\ UNCHANGED <<library, kernel, family, op, lists, kept, calls, sent>>
    BY <1>2 DEF Sigaction, kernel
  <2>. QED  BY <1>1, <2>1, FailStep
<1>3. CASE e.name \notin Uncatchable
  <2>1. /\ action' = [action EXCEPT ![e.name] = installed] /\ todo' = Tail(todo)
        /\ IF todo' = <<>> THEN pc' = "idle" /\ result' = "ok"
           ELSE pc' = "register" /\ UNCHANGED result
        /\ UNCHANGED <<s_sig_info_tables, named, handler, op, lists>>
    BY <1>3 DEF Sigaction, Return
  <2>2. /\ e \in Entry /\ Found(e.name) /\ e.name \in Signal /\ e.handler = handler[e.name]
        /\ Tail(todo) \in Seq(Entry) /\ Len(Tail(todo)) = Len(todo) - 1 /\ Len(todo) \in Nat \ {0}
    <3>1. /\ e \in Entry /\ Tail(todo) \in Seq(Entry) /\ Len(Tail(todo)) = Len(todo) - 1
          /\ Len(todo) \in Nat \ {0}
      BY <1>1, HeadAndTail
    <3>2. Found(e.name) /\ e.handler = handler[e.name]
      BY <1>1 DEF Progress
    <3>. QED  BY <3>1, <3>2 DEF Found, Entry, Name
  <2>3. /\ action' \in [Signal -> {"SIG_DFL", installed}]
        /\ \A s \in Signal : action'[s] = IF s = e.name THEN installed ELSE action[s]
    BY <1>1, <2>1, <2>2 DEF TypeOK
  <2>4. kept' \subseteq Name
    <3>1. Listed(lists) \subseteq Name
      BY <1>1, ListedNames DEF TypeOK
    <3>2. kept' = kept \/ kept' = kept \cup {e.name} \cup Listed(lists)
      BY <1>3 DEF Sigaction
    <3>. QED  BY <1>1, <2>2, <3>1, <3>2 DEF TypeOK, Name
  <2>10. TypeOK'
    BY <1>1, <1>3, <2>1, <2>2, <2>3, <2>4 DEF Sigaction, TypeOK, Label
  <2>5. Progress'
    BY <1>1, <2>1 DEF Progress
  <2>6. CASE op # "sig_simple_register"
    BY <2>1, <2>10, <2>5, <2>6 DEF Registration, Forward, Backward, Succeeded, AllOrNothing
  <2>7. CASE op = "sig_simple_register"
    <3>. DEFINE E == Order(lists)
    <3>1. lists \in Lists /\ ~Intersect(lists) /\ Suffix(todo, E)
          /\ \A i \in 1..Len(E) - Len(todo) : Taken(E[i])
      BY <1>1, <2>7 DEF Forward
    <3>2. E \in Seq(Entry) /\ Len(E) \in Nat
      BY <3>1, EntriesFrom
    <3>. HIDE DEF E
    <3>3. /\ Suffix(Tail(todo), E) /\ Len(E) - Len(todo) + 1 \in 1..Len(E)
          /\ e = E[Len(E) - Len(todo) + 1]
      BY <1>1, <3>1, <3>2, SuffixTail
    <3>4. \A i \in 1..Len(E) - Len(todo') : Taken(E[i])'
      <4>1. TAKE i \in 1..Len(E) - Len(todo')
      <4>2. i \in 1..Len(E) - Len(todo) \/ i = Len(E) - Len(todo) + 1
        <5>1. Len(todo') = Len(todo) - 1 /\ Len(todo) \in Nat /\ Len(E) \in Nat
          BY <2>1, <2>2, <3>2
        <5>. QED  BY <4>1, <5>1
      <4>3. CASE i = Len(E) - Len(todo) + 1
        <5>1. E[i] = e /\ E' = E
          BY <3>3, <4>3, <2>1 DEF E
        <5>2. named /\ action'[e.name] # "SIG_DFL"
          BY <2>2, <2>3, <2>7 DEF Found
        <5>. QED  BY <2>1, <2>2, <5>1, <5>2 DEF Taken
      <4>4. CASE i \in 1..Len(E) - Len(todo)
        <5>1. Taken(E[i]) /\ E' = E
          BY <2>1, <3>1, <4>4 DEF E
        <5>. QED  BY <2>1, <2>3, <5>1 DEF Taken
      <4>. QED  BY <4>2, <4>3, <4>4
    <3>5. E' = E
      BY <2>1 DEF E
    <3>6. Forward'
      BY <2>1, <3>1, <3>3, <3>4, <3>5 DEF Forward, E
    <3>7. named /\ Backward' /\ Succeeded'
      BY <2>1, <2>2, <2>7, <3>1 DEF Found, Backward, Succeeded
    <3>8. AllOrNothing'
      <4>1. SUFFICES ASSUME todo' = <<>>, result' = "ok", NEW i \in DOMAIN E
                     PROVE  action'[E[i].name] # "SIG_DFL" /\ handler'[E[i].name] = E[i].handler
        BY <2>1, <3>5 DEF AllOrNothing, E, Order
      <4>2. Len(todo') = 0 /\ DOMAIN E = 1..Len(E)
        BY <3>2, <4>1, LenProperties
      <4>3. Taken(E[i])' /\ E' = E
        BY <3>2, <3>4, <3>5, <4>1, <4>2
      <4>. QED  BY <4>3 DEF Taken
    <3>. QED  BY <2>10, <2>5, <3>6, <3>7, <3>8 DEF Registration
  <2>. QED  BY <2>6, <2>7
<1>. QED  BY <1>2, <1>3

LEMMA RollbackStep ==
  ASSUME Registration, Rollback
  PROVE  Registration'
<1>. USE DEF At, library, family
<1>. DEFINE e == Head(todo)
            R == RollbackOrder(lists)
<1>1. /\ TypeOK /\ Progress /\ Backward /\ pc = "rollback" /\ op = "sig_simple_register"
      /\ todo # <<>> /\ todo \in Seq(Entry)
  BY DEF Registration, Rollback, Progress, TypeOK
<1>2. /\ action' = IF Found(e.name) THEN [action EXCEPT ![e.name] = "SIG_DFL"] ELSE action
      /\ todo' = Tail(todo)
      /\ IF todo' = <<>> THEN pc' = "idle" /\ result' = "error" ELSE UNCHANGED <<pc, result>>
      /\ UNCHANGED <<s_sig_info_tables, named, handler, op, lists>>
  BY DEF Rollback, Return
<1>3. /\ e \in Entry /\ Tail(todo) \in Seq(Entry) /\ Len(Tail(todo)) = Len(todo) - 1
      /\ Len(todo) \in Nat \ {0}
  BY <1>1, HeadAndTail
<1>4. /\ action' \in [Signal -> {"SIG_DFL", "sig_set_happen_flag_and_call_handler"}]
      /\ \A s \in Signal : action'[s] = IF s = e.name /\ Found(e.name) THEN "SIG_DFL" ELSE action[s]
  BY <1>1, <1>2, <1>3 DEF TypeOK, Found, Entry, Name
<1>5. TypeOK'
  BY <1>1, <1>2, <1>3, <1>4 DEF Rollback, TypeOK, Label
<1>6. Progress'
  BY <1>1, <1>2 DEF Progress
<1>7. /\ lists \in Lists /\ ~Intersect(lists) /\ Suffix(todo, R)
      /\ \A i \in 1..Len(R) - Len(todo) : Undone(R[i])
  BY <1>1 DEF Backward
<1>8. R \in Seq(Entry) /\ Len(R) \in Nat /\ R' = R
  BY <1>2, <1>7, EntriesFrom
<1>. HIDE DEF R
<1>9. /\ Suffix(Tail(todo), R) /\ Len(R) - Len(todo) + 1 \in 1..Len(R)
      /\ e = R[Len(R) - Len(todo) + 1]
  BY <1>1, <1>7, <1>8, SuffixTail
<1>10. \A i \in 1..Len(R) - Len(todo') : Undone(R[i])'
  <2>1. TAKE i \in 1..Len(R) - Len(todo')
  <2>2. i \in 1..Len(R) - Len(todo) \/ i = Len(R) - Len(todo) + 1
    <3>1. Len(todo') = Len(todo) - 1 /\ Len(todo) \in Nat /\ Len(R) \in Nat
      BY <1>2, <1>3, <1>8
    <3>. QED  BY <2>1, <3>1
  <2>3. CASE i = Len(R) - Len(todo) + 1
    <3>1. R[i] = e
      BY <1>9, <2>3
    <3>2. named /\ e.name \in Signal => action'[e.name] = "SIG_DFL"
      BY <1>4, SignalAssumption DEF Found
    <3>. QED  BY <1>2, <1>8, <3>1, <3>2 DEF Undone
  <2>4. CASE i \in 1..Len(R) - Len(todo)
    <3>1. Undone(R[i])
      BY <1>7, <2>4
    <3>. QED  BY <1>2, <1>4, <1>8, <3>1 DEF Undone
  <2>. QED  BY <2>2, <2>3, <2>4
<1>11. Backward'
  BY <1>2, <1>7, <1>8, <1>9, <1>10 DEF Backward, R
<1>12. Forward' /\ Succeeded'
  BY <1>1, <1>2 DEF Forward, Succeeded
<1>13. AllOrNothing'
  <2>. DEFINE E == Order(lists)
  <2>1. E' = E /\ (pc' = "idle" => result' = "error")
    BY <1>1, <1>2
  <2>2. SUFFICES ASSUME todo' = <<>>, named, NEW i \in DOMAIN E, E[i].name \in Signal
                 PROVE  action'[E[i].name] = "SIG_DFL"
    BY <1>1, <1>2, <2>1 DEF AllOrNothing, Order
  <2>3. E \in Seq(Entry) /\ From(E[i], lists) /\ Len(R) = Len(E)
    <3>1. E \in Seq(Entry) /\ Len(R) = Len(E) /\ \A j \in 1..Len(E) : From(E[j], lists)
      BY <1>7, EntriesFrom DEF R
    <3>2. DOMAIN E = 1..Len(E)
      BY <3>1, LenProperties
    <3>. QED  BY <2>2, <3>1, <3>2
  <2>4. PICK j \in 1..Len(R) : R[j] = E[i]
    BY <1>7, <2>3, EntriesFrom DEF R
  <2>5. Len(todo') = 0
    BY <2>2
  <2>6. Undone(R[j])'
    BY <1>8, <1>10, <2>4, <2>5
  <2>. QED  BY <1>2, <1>8, <2>2, <2>4, <2>6 DEF Undone
<1>. QED  BY <1>5, <1>6, <1>11, <1>12, <1>13 DEF Registration

-----------------------------------------------------------------------------
(* Registration, for any program.                                          *)

LEMMA StepKeepsRegistration ==
  ASSUME Registration, Step
  PROVE  Registration'
BY RegisterStep, SigactionStep, RollbackStep, ResetSteps DEF Step

LEMMA RegistrationInitially ==
  ASSUME Init
  PROVE  Registration
<1>1. TypeOK
  <2>1. happened \in [Signal -> BOOLEAN] /\ named \in BOOLEAN /\ s_critical_flag \in BOOLEAN
    BY DEF Init
  <2>2. handler \in [Signal -> Handler \cup {"NULL"}]
        /\ action \in [Signal -> {"SIG_DFL", "sig_set_happen_flag_and_call_handler"}]
    BY DEF Init
  <2>. QED  BY <2>1, <2>2 DEF Init, TypeOK, Label
<1>2. Progress /\ Forward /\ Backward /\ Succeeded /\ AllOrNothing
  BY DEF Init, Progress, Forward, Backward, Succeeded, AllOrNothing
<1>. QED  BY <1>1, <1>2 DEF Registration

LEMMA RegistrationStutters ==
  ASSUME Registration, UNCHANGED vars
  PROVE  Registration'
<1>1. UNCHANGED registry
  BY DEF vars, library, kernel, program, registry
<1>2. TypeOK'
  BY DEF Registration, TypeOK, vars, library, kernel, program, family
<1>. QED  BY <1>1, <1>2, Elsewhere

\* Every step of a program that calls the functions in any order keeps the
\* registration in order: the types, and all or nothing.
THEOREM RegistrationInvariant == Spec => []Registration
<1>1. Init => Registration
  BY RegistrationInitially
<1>2. Registration /\ [Next]_vars => Registration'
  <2>1. SUFFICES ASSUME Registration, [Next]_vars
                 PROVE  Registration'
    OBVIOUS
  <2>2. CASE Call
    <3>1. CASE CallReset
      <4>1. PICK function \in {"sig_global_reset", "exit"} : Enter(function)
        BY <3>1 DEF CallReset
      <4>2. BeginReset(function)
        BY <3>1, <4>1 DEF CallReset, BeginReset
      <4>. QED  BY <2>1, <4>2, ResetSteps
    <3>. QED  BY <2>1, <2>2, <3>1, OtherCalls, BeginRegistration, BeginRegister DEF Call
  <2>3. CASE Fork \/ Handle \/ Kernel
    BY <2>1, <2>3, OthersKeepRegistration
  <2>4. CASE Step
    BY <2>1, <2>4, StepKeepsRegistration
  <2>5. CASE UNCHANGED vars
    BY <2>1, <2>5, RegistrationStutters
  <2>. QED  BY <2>1, <2>2, <2>3, <2>4, <2>5 DEF Next
<1>. QED  BY <1>1, <1>2, PTL DEF Spec

\* Every variable keeps its type, and the table is in one piece whenever the
\* program is not inside sig_global_reset().
THEOREM TypeCorrect == Spec => []TypeOK
<1>1. Registration => TypeOK
  BY DEF Registration
<1>. QED  BY RegistrationInvariant, <1>1, PTL

\* sig_simple_register() is all or nothing, whatever was registered before and
\* whatever signals come while it runs.
THEOREM AllOrNothingHolds == Spec => []AllOrNothing
<1>1. Registration => AllOrNothing
  BY DEF Registration
<1>. QED  BY RegistrationInvariant, <1>1, PTL

-----------------------------------------------------------------------------
(* Who has registered the signals whose handlers meet no table.            *)

\* What an action means for the account when no handler runs.
LEMMA AccountBy ==
  ASSUME frames = <<>>, frames' = frames, process = "running", process' \in {"running", "exited"},
         Known', OneToDo'
  PROVE  Accounted'
<1>1. Started'
  BY DEF Started
<1>. QED  BY <1>1 DEF Accounted, CrashOnlyOfKept

LEMMA CallsKeepAccount ==
  ASSUME Registration, Accounted, Call
  PROVE  Accounted'
<1>. USE DEF Enter, At, library, kernel, family
<1>1. TypeOK
  BY DEF Registration
<1>2. pc = "idle" => \A s \in Signal : action[s] # "SIG_DFL" => s \in kept
  BY DEF Accounted, Known, InHand
<1>3. CASE CallReset
  BY <1>2, <1>3, AccountBy DEF CallReset, Known, OneToDo
<1>4. CASE CallInit
  BY <1>2, <1>4, AccountBy DEF CallInit, Return, Known, OneToDo
<1>5. ASSUME NEW l \in Lists, CallSimpleRegister(l)
      PROVE  Accounted'
  BY <1>2, <1>5, AccountBy DEF CallSimpleRegister, Return, Known, OneToDo
<1>6. ASSUME NEW n \in Name, NEW function \in Handler \cup {"NULL"}, CallRegister(n, function)
      PROVE  Accounted'
  <2>1. Tail(todo') = <<>>
    BY <1>6 DEF CallRegister
  <2>. QED  BY <1>2, <1>6, <2>1, AccountBy DEF CallRegister, Known, OneToDo
<1>7. ASSUME NEW n \in Name, CallDeregister(n)
      PROVE  Accounted'
  <2>1. \A s \in Signal : action'[s] # "SIG_DFL" => s \in kept'
    BY <1>1, <1>2, <1>7 DEF CallDeregister, TypeOK
  <2>. QED  BY <1>7, <2>1, AccountBy DEF CallDeregister, Known, OneToDo
<1>8. ASSUME NEW n \in Name, CallClear(n)
      PROVE  Accounted'
  BY <1>2, <1>8, AccountBy DEF CallClear, Known, OneToDo
<1>. QED  BY <1>3, <1>4, <1>5, <1>6, <1>7, <1>8 DEF Call

\* An entry's name is in the lists, and each name in the lists has an entry.
LEMMA NamesListed ==
  ASSUME NEW l \in Lists
  PROVE  /\ \A e : From(e, l) => e.name \in Listed(l)
         /\ \A n \in Listed(l) : \E i \in 1..Len(Order(l)) : Order(l)[i].name = n
<1>1. l.critical \in Seq(Name) /\ l.plain \in Seq(Name)
  BY ListsTyped
<1>2. DOMAIN l.critical = 1..Len(l.critical) /\ DOMAIN l.plain = 1..Len(l.plain)
  BY <1>1, LenProperties
<1>3. \A i \in 1..Len(l.critical) : CriticalEntries(l)[i].name = l.critical[i]
  BY <1>1, EntriesOf DEF CriticalEntries, Handler, Wait
<1>4. \A i \in 1..Len(l.plain) : PlainEntries(l)[i].name = l.plain[i]
  BY <1>1, EntriesOf DEF PlainEntries, Handler, Wait
<1>5. \A e : From(e, l) => e.name \in Listed(l)
  BY <1>2, <1>3, <1>4 DEF From, Listed
<1>6. ASSUME NEW n \in Listed(l)
      PROVE  \E i \in 1..Len(Order(l)) : Order(l)[i].name = n
  <2>1. CASE \E i \in 1..Len(l.critical) : l.critical[i] = n
    <3>1. PICK i \in 1..Len(l.critical) : l.critical[i] = n
      BY <2>1
    <3>2. From(CriticalEntries(l)[i], l) /\ CriticalEntries(l)[i].name = n
      BY <1>3, <3>1 DEF From
    <3>3. PICK j \in 1..Len(Order(l)) : Order(l)[j] = CriticalEntries(l)[i]
      BY <3>2, EntriesFrom
    <3>. QED  BY <3>2, <3>3
  <2>2. CASE \E i \in 1..Len(l.plain) : l.plain[i] = n
    <3>1. PICK i \in 1..Len(l.plain) : l.plain[i] = n
      BY <2>2
    <3>2. From(PlainEntries(l)[i], l) /\ PlainEntries(l)[i].name = n
      BY <1>4, <3>1 DEF From
    <3>3. PICK j \in 1..Len(Order(l)) : Order(l)[j] = PlainEntries(l)[i]
      BY <3>2, EntriesFrom
    <3>. QED  BY <3>2, <3>3
  <2>. QED  BY <1>2, <1>6, <2>1, <2>2 DEF Listed
<1>. QED  BY <1>5, <1>6

\* The entry to treat is of the lists.
LEMMA HeadListed ==
  ASSUME Registration, op = "sig_simple_register", pc \in {"register", "sigaction"}
  PROVE  lists \in Lists /\ Head(todo).name \in Listed(lists)
<1>1. /\ lists \in Lists /\ Suffix(todo, Order(lists)) /\ todo # <<>> /\ todo \in Seq(Entry)
  BY DEF Registration, Forward, Progress, TypeOK
<1>2. /\ Order(lists) \in Seq(Entry)
      /\ \A i \in 1..Len(Order(lists)) : From(Order(lists)[i], lists)
  BY <1>1, EntriesFrom
<1>3. From(Head(todo), lists)
  BY <1>1, <1>2, SuffixTail
<1>. QED  BY <1>1, <1>3, NamesListed

LEMMA SigactionKeepsAccount ==
  ASSUME Registration, Accounted, Sigaction
  PROVE  Accounted'
<1>. DEFINE s == Head(todo).name
<1>1. /\ frames = <<>> /\ frames' = frames /\ process = "running" /\ process' = process
      /\ pc = "sigaction" /\ UNCHANGED <<op, lists, named>>
  BY DEF Sigaction, At, library
<1>2. TypeOK /\ Progress
  BY DEF Registration
<1>3. CASE s \in Uncatchable
  <2>1. /\ UNCHANGED <<action, kept>>
        /\ IF op = "sig_simple_register" THEN pc' = "rollback" ELSE pc' = "idle"
    BY <1>3 DEF Sigaction, Fail, Return
  <2>2. Known' /\ OneToDo'
    BY <1>1, <2>1 DEF Accounted, Known, OneToDo, InHand
  <2>. QED  BY <1>1, <2>2, AccountBy
<1>4. CASE s \notin Uncatchable
  <2>1. /\ action' = [action EXCEPT ![s] = "sig_set_happen_flag_and_call_handler"]
        /\ todo' = Tail(todo)
        /\ IF todo' = <<>> THEN pc' = "idle" /\ kept' = kept \cup {s} \cup Listed(lists)
           ELSE pc' = "register" /\ kept' = kept
    BY <1>4 DEF Sigaction, Return
  <2>2. \A t \in Signal : action'[t] # "SIG_DFL" => t = s \/ t \in kept \/ InHand(t)
    BY <1>2, <2>1 DEF Accounted, Known, TypeOK
  <2>3. CASE todo' = <<>>
    <3>1. Known' /\ OneToDo'
      BY <1>1, <2>1, <2>2, <2>3 DEF Known, OneToDo, InHand
    <3>. QED  BY <1>1, <3>1, AccountBy
  <2>4. CASE todo' # <<>>
    <3>1. op = "sig_simple_register"
      BY <1>1, <2>1, <2>4 DEF Accounted, OneToDo
    <3>2. named /\ s \in Listed(lists)
      BY <1>1, <1>2, <3>1, HeadListed DEF Progress, Found
    <3>3. Known' /\ OneToDo'
      BY <1>1, <2>1, <2>2, <2>4, <3>1, <3>2 DEF Known, OneToDo, InHand
    <3>. QED  BY <1>1, <3>3, AccountBy
  <2>. QED  BY <2>3, <2>4
<1>. QED  BY <1>3, <1>4

LEMMA RollbackKeepsAccount ==
  ASSUME Registration, Registration', Accounted, Rollback
  PROVE  Accounted'
<1>. DEFINE E == Order(lists)
<1>1. /\ frames = <<>> /\ frames' = frames /\ process = "running" /\ process' = process
      /\ pc = "rollback" /\ UNCHANGED <<op, lists, named, kept>>
      /\ op = "sig_simple_register" /\ lists \in Lists /\ ~Intersect(lists)
      /\ action' = IF Found(Head(todo).name)
                   THEN [action EXCEPT ![Head(todo).name] = "SIG_DFL"] ELSE action
      /\ IF todo' = <<>> THEN pc' = "idle" /\ result' = "error" ELSE pc' = pc
  BY DEF Rollback, Return, At, library, Registration, Progress, Backward
<1>2. \A t \in Signal : action'[t] # "SIG_DFL" => action[t] # "SIG_DFL"
  BY <1>1 DEF Registration, TypeOK
<1>3. CASE todo' # <<>>
  <2>1. Known' /\ OneToDo'
    BY <1>1, <1>2, <1>3 DEF Accounted, Known, OneToDo, InHand
  <2>. QED  BY <1>1, <2>1, AccountBy
<1>4. CASE todo' = <<>>
  <2>1. E' = E
    BY <1>1
  <2>2. named => \A i \in DOMAIN E : E[i].name \in Signal => action'[E[i].name] = "SIG_DFL"
    BY <1>1, <1>4, <2>1 DEF Registration, AllOrNothing, Order
  <2>3. DOMAIN E = 1..Len(E)
    BY <1>1, EntriesFrom, LenProperties
  <2>4. ASSUME NEW t \in Signal, action'[t] # "SIG_DFL"
        PROVE  t \in kept
    <3>1. SUFFICES ASSUME InHand(t) PROVE FALSE
      BY <1>2, <2>4 DEF Accounted, Known
    <3>2. PICK i \in 1..Len(E) : E[i].name = t
      BY <1>1, <3>1, NamesListed DEF InHand
    <3>. QED  BY <2>2, <2>3, <2>4, <3>1, <3>2 DEF InHand
  <2>5. Known' /\ OneToDo'
    BY <1>1, <1>4, <2>4 DEF Known, OneToDo
  <2>. QED  BY <1>1, <2>5, AccountBy
<1>. QED  BY <1>3, <1>4

LEMMA StepsKeepAccount ==
  ASSUME Registration, Registration', Accounted, Step
  PROVE  Accounted'
<1>. USE DEF At, library, kernel, family, program
<1>1. CASE Register
  <2>1. /\ frames = <<>> /\ frames' = frames /\ process = "running" /\ process' = process
        /\ pc = "register" /\ UNCHANGED <<op, lists, named, kept, action>>
        /\ \/ pc' = "sigaction" /\ todo' = todo
           \/ pc' = "rollback" /\ op = "sig_simple_register"
           \/ pc' = "idle" /\ op # "sig_simple_register"
    BY <1>1 DEF Register, Fail, Return
  <2>2. Known' /\ OneToDo'
    BY <2>1 DEF Accounted, Known, OneToDo, InHand
  <2>. QED  BY <2>1, <2>2, AccountBy
<1>2. CASE Free \/ Reset \/ Exit
  <2>1. /\ frames = <<>> /\ frames' = frames /\ process = "running"
        /\ process' \in {"running", "exited"}
        /\ pc \in {"free", "reset", "exit"} /\ pc' \in {"reset", "exit", "idle"}
        /\ UNCHANGED <<op, lists, kept, action>>
    BY <1>2 DEF Free, Reset, Exit
  <2>2. Known' /\ OneToDo'
    BY <2>1 DEF Accounted, Known, OneToDo, InHand
  <2>. QED  BY <2>1, <2>2, AccountBy
<1>. QED  BY <1>1, <1>2, SigactionKeepsAccount, RollbackKeepsAccount DEF Step

\* The frames of handlers that go on, end, are interrupted or are begun.
LEMMA FramesKeepAccount ==
  ASSUME Accounted, UNCHANGED <<action, kept, op, pc, named, lists, todo>>,
         Started', process' # "crashed"
  PROVE  Accounted'
BY DEF Accounted, Known, OneToDo, InHand, CrashOnlyOfKept

LEMMA HandlersKeepAccount ==
  ASSUME Registration, Accounted, Handle
  PROVE  Accounted'
<1>. USE DEF library, kernel, family, program
<1>1. /\ frames \in Seq(FrameType) /\ frames # <<>> /\ process = "running" /\ Frame = frames[1]
      /\ Frame \in FrameType
  <2>1. frames \in Seq(FrameType)
    BY DEF Registration, TypeOK, FrameType
  <2>2. frames # <<>> /\ process = "running"
    BY DEF Handle, sig_set_happen_flag, call_handler, wait, ReturnFromWait, Running
  <2>. QED  BY <2>1, <2>2, HeadAndTail DEF Frame
<1>2. UNCHANGED <<action, kept, op, pc, named, lists, todo>>
  BY DEF Handle, sig_set_happen_flag, call_handler, wait, ReturnFromWait
<1>3. frames' = Tail(frames) => Started'
  BY <1>1, <1>2, HeadAndTail DEF Accounted, Started
<1>4. ASSUME NEW step \in FrameStep, Continue(step)
      PROVE  Started'
  <2>1. [Frame EXCEPT !.step = step] \in FrameType /\ [Frame EXCEPT !.step = step].signum = Frame.signum
    BY <1>1 DEF FrameType
  <2>. DEFINE x == [Frame EXCEPT !.step = step]
  <2>3. frames' = <<x>> \o Tail(frames)
    BY <1>4 DEF Continue
  <2>4. x \in FrameType /\ x.signum = frames[1].signum
    BY <1>1, <2>1
  <2>. HIDE DEF x
  <2>2. /\ Len(frames') = Len(frames) /\ Len(frames) \in Nat /\ frames'[1].signum = frames[1].signum
        /\ \A i \in 2..Len(frames) : frames'[i] = frames[i]
    BY <1>1, <2>3, <2>4, NewHead, LenProperties
  <2>5. \A i \in 1..Len(frames) : frames'[i].signum = frames[i].signum
    BY <2>2
  <2>. QED  BY <1>2, <2>2, <2>5 DEF Accounted, Started
<1>5. process' # "crashed" => \/ frames' = Tail(frames) \/ frames' = frames
                              \/ \E step \in FrameStep : Continue(step)
  BY <1>1 DEF Handle, sig_set_happen_flag, call_handler, wait, ReturnFromWait, FrameStep
<1>6. frames' = frames => Started'
  BY <1>2 DEF Accounted, Started
<1>7. CASE process' # "crashed"
  BY <1>2, <1>3, <1>4, <1>5, <1>6, <1>7, FramesKeepAccount
<1>8. CASE process' = "crashed"
  <2>1. ~SIG_INFO_READY /\ frames' = frames
    BY <1>1, <1>8 DEF Handle, sig_set_happen_flag, call_handler, wait, ReturnFromWait
  <2>2. 1 \in 1..Len(frames)
    BY <1>1, HeadAndTail
  <2>3. action[Frame.signum] # "SIG_DFL" /\ Frame.signum \in Signal
    BY <1>1, <2>2 DEF Accounted, Started, FrameType
  <2>4. ~InHand(Frame.signum)
    BY <2>1 DEF InHand, Registration, Progress, TypeOK, SIG_INFO_READY
  <2>5. Frame.signum \in kept
    BY <2>3, <2>4 DEF Accounted, Known
  <2>6. CrashOnlyOfKept'
    BY <1>2, <2>1, <2>5 DEF CrashOnlyOfKept, Frame
  <2>. QED  BY <1>2, <1>6, <2>1, <2>6 DEF Accounted, Known, OneToDo, InHand
<1>. QED  BY <1>7, <1>8

LEMMA KernelKeepsAccount ==
  ASSUME Registration, Accounted, Fork \/ Kernel
  PROVE  Accounted'
<1>. USE DEF library, kernel, family, program
<1>1. frames \in Seq(FrameType)
  BY DEF Registration, TypeOK, FrameType
<1>2. ASSUME frames' = frames, process' = process, process = "running",
             UNCHANGED <<action, kept, op, pc, named, lists, todo>>
      PROVE  Accounted'
  BY <1>2 DEF Accounted, Known, Started, OneToDo, InHand, CrashOnlyOfKept
<1>3. CASE Fork \/ ChildEnds \/ ChildStops \/ \E s \in Signal : Send(s)
  BY <1>2, <1>3 DEF Fork, At, ChildEnds, ChildStops, Send
<1>4. ASSUME NEW s \in Signal, Deliver(s)
      PROVE  Accounted'
  <2>1. UNCHANGED <<action, kept, op, pc, named, lists, todo>> /\ process = "running"
    BY <1>4 DEF Deliver
  <2>2. CASE action[s] = "SIG_DFL"
    <3>1. Started' /\ process' # "crashed"
      BY <1>4, <2>1, <2>2 DEF Deliver, Accounted, Started
    <3>. QED  BY <2>1, <3>1, FramesKeepAccount
  <2>3. CASE action[s] # "SIG_DFL"
    <3>. DEFINE x == [signum |-> s, step |-> "set flag"]
                f == Interrupted
    <3>1. frames' = <<x>> \o f /\ process' = process
      BY <1>4, <2>3 DEF Deliver
    <3>2. /\ f \in Seq(FrameType) /\ Len(f) = Len(frames) /\ Len(frames) \in Nat
          /\ \A i \in 1..Len(frames) : f[i].signum = frames[i].signum
      <4>1. CASE frames # <<>> /\ Head(frames).step = "waiting"
        <5>. DEFINE y == [Head(frames) EXCEPT !.step = "return"]
        <5>1. Head(frames) \in FrameType /\ Head(frames) = frames[1]
          BY <1>1, <4>1, HeadAndTail
        <5>2. y \in FrameType /\ y.signum = frames[1].signum
          BY <5>1 DEF FrameType, FrameStep
        <5>3. f = <<y>> \o Tail(frames)
          BY <4>1 DEF Interrupted
        <5>. HIDE DEF f, y
        <5>4. /\ f \in Seq(FrameType) /\ Len(f) = Len(frames) /\ Len(frames) \in Nat
              /\ f[1].signum = frames[1].signum /\ \A i \in 2..Len(frames) : f[i] = frames[i]
          BY <1>1, <4>1, <5>2, <5>3, NewHead, LenProperties
        <5>. QED  BY <5>4
      <4>2. CASE ~(frames # <<>> /\ Head(frames).step = "waiting")
        BY <1>1, <4>2, LenProperties DEF Interrupted
      <4>. QED  BY <4>1, <4>2
    <3>3. x \in FrameType /\ x.signum = s
      BY DEF FrameType, FrameStep
    <3>. HIDE DEF x, f
    <3>4. /\ Len(frames') = Len(f) + 1 /\ frames'[1] = x
          /\ \A i \in 2..Len(f) + 1 : frames'[i] = f[i - 1]
      BY <3>1, <3>2, <3>3, PutBefore
    <3>5. ASSUME NEW i \in 1..Len(frames')
          PROVE  action[frames'[i].signum] # "SIG_DFL"
      <4>1. CASE i = 1
        BY <2>3, <3>3, <3>4, <4>1
      <4>2. CASE i # 1
        <5>1. i \in 2..Len(f) + 1 /\ i - 1 \in 1..Len(frames)
          BY <3>2, <3>4, <4>2
        <5>2. frames'[i].signum = frames[i - 1].signum
          BY <3>2, <3>4, <5>1
        <5>. QED  BY <5>1, <5>2 DEF Accounted, Started
      <4>. QED  BY <4>1, <4>2
    <3>6. Started'
      BY <2>1, <3>5 DEF Started
    <3>. QED  BY <2>1, <3>1, <3>6, FramesKeepAccount
  <2>. QED  BY <2>2, <2>3
<1>. QED  BY <1>3, <1>4 DEF Kernel

\* Whatever the program calls and whenever signals come, a handler that finds the
\* table gone is that of a signal which the program was told is registered and
\* has not deregistered: no registration that failed and no deregistration that
\* succeeded leaves a handler behind.
THEOREM CrashOfKeptOnly == Spec => []CrashOnlyOfKept
<1>1. Init => Accounted
  BY DEF Init, Accounted, Known, Started, OneToDo, CrashOnlyOfKept
<1>2. Registration /\ Registration' /\ Accounted /\ [Next]_vars => Accounted'
  <2>1. SUFFICES ASSUME Registration, Registration', Accounted, [Next]_vars
                 PROVE  Accounted'
    OBVIOUS
  <2>2. CASE Next
    BY <2>1, <2>2, CallsKeepAccount, StepsKeepAccount, HandlersKeepAccount, KernelKeepsAccount
    DEF Next
  <2>3. CASE UNCHANGED vars
    BY <2>1, <2>3 DEF vars, library, kernel, program, Accounted, Known, Started, OneToDo, InHand,
                      CrashOnlyOfKept, Frame
  <2>. QED  BY <2>1, <2>2, <2>3
<1>3. Accounted => CrashOnlyOfKept
  BY DEF Accounted
<1>. QED  BY RegistrationInvariant, <1>1, <1>2, <1>3, PTL DEF Spec

-----------------------------------------------------------------------------
(* The frames of the handlers, under the example program.                  *)

LEMMA PopFrame ==
  ASSUME NEW fs \in Seq(FrameType), fs # <<>>, NEW n, Single(fs), Waits(fs, n)
  PROVE  /\ Single(Tail(fs)) /\ Waits(Tail(fs), n)
         /\ Coming(fs) <=> Comes(Head(fs)) \/ Coming(Tail(fs))
         /\ HasSIGCHLD(fs) <=> Head(fs).signum = SIGCHLD \/ HasSIGCHLD(Tail(fs))
         /\ Head(fs).signum = SIGCHLD => ~Coming(Tail(fs))
         /\ Head(fs).step \in {"waiting", "return"} => Head(fs).signum = SIGCHLD /\ n > 0
<1>. DEFINE t == Tail(fs)
            h == Head(fs)
<1>1. Len(fs) \in Nat \ {0} /\ h = fs[1] /\ Len(t) = Len(fs) - 1
      /\ \A i \in 1..Len(fs) - 1 : t[i] = fs[i + 1]
  BY HeadAndTail
<1>. HIDE DEF t, h
<1>2. \A i \in 1..Len(t) : i + 1 \in 2..Len(fs) /\ t[i] = fs[i + 1]
  BY <1>1
<1>3. \A i \in 2..Len(fs) : i - 1 \in 1..Len(t) /\ t[i - 1] = fs[i]
  BY <1>1
<1>4. 1 \in 1..Len(fs) /\ \A i \in 1..Len(fs) : i = 1 \/ i \in 2..Len(fs)
  BY <1>1
<1>5. Single(t)
  <2>1. SUFFICES ASSUME NEW i \in 1..Len(t), NEW j \in 1..Len(t),
                        t[i].signum = SIGCHLD, t[j].signum = SIGCHLD
                 PROVE  i = j
    BY DEF Single
  <2>2. i + 1 \in 1..Len(fs) /\ j + 1 \in 1..Len(fs) /\ t[i] = fs[i + 1] /\ t[j] = fs[j + 1]
    BY <1>2
  <2>3. i + 1 = j + 1
    BY <2>1, <2>2 DEF Single
  <2>. QED  BY <2>3
<1>6. Waits(t, n)
  BY <1>2 DEF Waits
<1>7. Coming(fs) <=> Comes(h) \/ Coming(t)
  BY <1>1, <1>2, <1>3, <1>4 DEF Coming
<1>8. HasSIGCHLD(fs) <=> h.signum = SIGCHLD \/ HasSIGCHLD(t)
  BY <1>1, <1>2, <1>3, <1>4 DEF HasSIGCHLD
<1>9. ASSUME h.signum = SIGCHLD, NEW i \in 1..Len(t), Comes(t[i])
      PROVE  FALSE
  <2>3. t[i].signum = SIGCHLD /\ t[i] = fs[i + 1] /\ i + 1 \in 2..Len(fs)
    BY <1>2, <1>9 DEF Comes
  <2>1. i + 1 \in 1..Len(fs) /\ fs[i + 1].signum = SIGCHLD /\ fs[1].signum = SIGCHLD
    BY <1>1, <1>9, <2>3
  <2>2. i + 1 = 1
    BY <1>4, <2>1 DEF Single
  <2>. QED  BY <2>2
<1>10. h.step \in {"waiting", "return"} => h.signum = SIGCHLD /\ n > 0
  BY <1>1, <1>4 DEF Waits
<1>. QED  BY <1>5, <1>6, <1>7, <1>8, <1>9, <1>10 DEF t, h, Coming

\* A frame goes on to another step, of the same signal.
LEMMA NextFrame ==
  ASSUME NEW fs \in Seq(FrameType), fs # <<>>, NEW n, Single(fs), Waits(fs, n),
         NEW x \in FrameType, x.signum = Head(fs).signum,
         x.step \in {"waiting", "return"} => x.signum = SIGCHLD /\ n > 0
  PROVE  /\ Single(<<x>> \o Tail(fs)) /\ Waits(<<x>> \o Tail(fs), n)
         /\ Coming(<<x>> \o Tail(fs)) <=> Comes(x) \/ Coming(Tail(fs))
         /\ HasSIGCHLD(<<x>> \o Tail(fs)) <=> HasSIGCHLD(fs)
<1>. DEFINE g == <<x>> \o Tail(fs)
<1>1. Len(g) = Len(fs) /\ g[1] = x /\ \A i \in 2..Len(fs) : g[i] = fs[i]
  BY NewHead
<1>2. g \in Seq(FrameType) /\ Len(fs) \in Nat \ {0}
  BY NewHead, HeadAndTail
<1>3. Head(fs) = fs[1] /\ Head(g) = x /\ g # <<>> /\ Len(g) = Len(fs)
  BY <1>1, <1>2, HeadAndTail, EmptySeq
<1>4. Tail(g) = Tail(fs)
  <2>1. Tail(g) \in Seq(FrameType) /\ Tail(fs) \in Seq(FrameType)
        /\ Len(Tail(g)) = Len(fs) - 1 /\ Len(Tail(fs)) = Len(fs) - 1
        /\ \A i \in 1..Len(fs) - 1 : Tail(fs)[i] = fs[i + 1]
    BY <1>2, <1>3, HeadAndTail
  <2>2. \A i \in 1..Len(fs) - 1 : Tail(g)[i] = g[i + 1]
    BY <1>2, <1>3, HeadAndTail
  <2>. HIDE DEF g
  <2>3. \A i \in 1..Len(fs) - 1 : i + 1 \in 2..Len(fs)
    BY <1>2
  <2>4. \A i \in 1..Len(fs) - 1 : Tail(g)[i] = Tail(fs)[i]
    BY <1>1, <2>1, <2>2, <2>3
  <2>. QED  BY <2>1, <2>4, SeqEqual
<1>. HIDE DEF g
<1>5. \A i \in 1..Len(g) : i \in 1..Len(fs) /\ g[i].signum = fs[i].signum
  BY <1>1, <1>2, <1>3
<1>6. Single(g)
  BY <1>5 DEF Single
<1>7. Waits(g, n)
  BY <1>1, <1>2 DEF Waits
<1>8. HasSIGCHLD(g) <=> HasSIGCHLD(fs)
  BY <1>1, <1>5 DEF HasSIGCHLD
<1>9. Coming(g) <=> Comes(x) \/ Coming(Tail(fs))
  BY <1>2, <1>3, <1>4, <1>6, <1>7, PopFrame
<1>. QED  BY <1>6, <1>7, <1>8, <1>9 DEF g

\* Another handler starts.
LEMMA PushFrame ==
  ASSUME NEW fs \in Seq(FrameType), NEW n, Single(fs), Waits(fs, n),
         NEW x \in FrameType, x.step \notin {"waiting", "return"},
         x.signum = SIGCHLD => ~HasSIGCHLD(fs)
  PROVE  /\ Single(<<x>> \o fs) /\ Waits(<<x>> \o fs, n)
         /\ Coming(<<x>> \o fs) <=> Comes(x) \/ Coming(fs)
         /\ HasSIGCHLD(<<x>> \o fs) <=> x.signum = SIGCHLD \/ HasSIGCHLD(fs)
<1>. DEFINE g == <<x>> \o fs
<1>1. Len(g) = Len(fs) + 1 /\ g[1] = x /\ \A i \in 2..Len(fs) + 1 : g[i] = fs[i - 1]
  BY PutBefore
<1>2. Len(fs) \in Nat
  BY LenProperties
<1>. HIDE DEF g
<1>3. \A i \in 2..Len(g) : i - 1 \in 1..Len(fs) /\ g[i] = fs[i - 1]
  BY <1>1, <1>2
<1>4. \A i \in 1..Len(fs) : i + 1 \in 2..Len(g) /\ i + 1 \in 1..Len(g) /\ g[i + 1] = fs[i]
  BY <1>1, <1>2
<1>5. 1 \in 1..Len(g) /\ \A i \in 1..Len(g) : i = 1 \/ i \in 2..Len(g)
  BY <1>1, <1>2
<1>6. Single(g)
  <2>1. SUFFICES ASSUME NEW i \in 1..Len(g), NEW j \in 1..Len(g),
                        g[i].signum = SIGCHLD, g[j].signum = SIGCHLD
                 PROVE  i = j
    BY DEF Single
  <2>2. CASE i \in 2..Len(g) /\ j \in 2..Len(g)
    <3>1. i - 1 = j - 1
      BY <1>3, <2>1, <2>2 DEF Single
    <3>. QED  BY <2>2, <3>1
  <2>3. CASE i = 1 /\ j \in 2..Len(g)
    BY <1>1, <1>3, <2>1, <2>3 DEF HasSIGCHLD
  <2>4. CASE j = 1 /\ i \in 2..Len(g)
    BY <1>1, <1>3, <2>1, <2>4 DEF HasSIGCHLD
  <2>. QED  BY <1>5, <2>2, <2>3, <2>4
<1>7. Waits(g, n)
  BY <1>1, <1>3, <1>5 DEF Waits
<1>8. Coming(g) <=> Comes(x) \/ Coming(fs)
  BY <1>1, <1>3, <1>4, <1>5 DEF Coming
<1>9. HasSIGCHLD(g) <=> x.signum = SIGCHLD \/ HasSIGCHLD(fs)
  <2>1. HasSIGCHLD(g) => x.signum = SIGCHLD \/ HasSIGCHLD(fs)
    BY <1>1, <1>3, <1>5 DEF HasSIGCHLD
  <2>2. x.signum = SIGCHLD => HasSIGCHLD(g)
    BY <1>1, <1>5 DEF HasSIGCHLD
  <2>3. HasSIGCHLD(fs) => HasSIGCHLD(g)
    BY <1>4 DEF HasSIGCHLD
  <2>. QED  BY <2>1, <2>2, <2>3
<1>. QED  BY <1>6, <1>7, <1>8, <1>9 DEF g

-----------------------------------------------------------------------------
(* Children, signals and handlers under the example program.               *)

\* The balance, with numbers for the two conditions.
LEMMA BalanceIs ==
  ASSUME TypeOK
  PROVE  \A p, c \in {0, 1} :
           (p = 1 <=> SIGCHLD \in pending) /\ (c = 1 <=> Coming(frames)) =>
             (Balance <=> /\ zombies <= merged + p + c
                          /\ stray = 0 => p + c <= zombies)
<1>1. TAKE p, c \in {0, 1}
<1>2. HAVE (p = 1 <=> SIGCHLD \in pending) /\ (c = 1 <=> Coming(frames))
<1>3. p = Count(SIGCHLD \in pending) /\ c = Count(Coming(frames))
  BY <1>1, <1>2 DEF Count
<1>. QED  BY <1>3 DEF Balance

LEMMA BalanceBecomes ==
  ASSUME TypeOK'
  PROVE  \A p, c \in {0, 1} :
           (p = 1 <=> SIGCHLD \in pending') /\ (c = 1 <=> Coming(frames')) =>
             (Balance' <=> /\ zombies' <= merged' + p + c
                           /\ stray' = 0 => p + c <= zombies')
<1>1. TAKE p, c \in {0, 1}
<1>2. HAVE (p = 1 <=> SIGCHLD \in pending') /\ (c = 1 <=> Coming(frames'))
<1>3. p = Count(SIGCHLD \in pending') /\ c = Count(Coming(frames'))
  BY <1>1, <1>2 DEF Count
<1>. QED  BY <1>3 DEF Balance

\* The head of the frames, if there is one.
LEMMA TopFrame ==
  ASSUME AppInv, frames # <<>>
  PROVE  /\ frames \in Seq(FrameType) /\ Frame = Head(frames) /\ Frame \in FrameType
         /\ Single(frames) /\ Waits(frames, stray)
         /\ Frame.signum = SIGCHLD => forks > 0 /\ handler[SIGCHLD] = Wait
<1>1. frames \in Seq(FrameType) /\ Single(frames) /\ Waits(frames, stray)
  BY DEF AppInv, Registration, TypeOK, FrameType, Frames
<1>2. Frame = Head(frames) /\ Frame \in FrameType
  BY <1>1, HeadAndTail DEF Frame
<1>3. Frame.signum = SIGCHLD => HasSIGCHLD(frames)
  BY <1>1, <1>2, PopFrame
<1>. QED  BY <1>1, <1>2, <1>3 DEF AppInv, Frames, Phase, Waiter, Wait

\* The handler that has waited, or has nothing to wait for, is done.
LEMMA WaitStep ==
  ASSUME AppInv, TypeOK', NEW step \in {"call", "waiting"}, wait(step),
         Frame.signum = SIGCHLD
  PROVE  Frames' /\ Balance'
<1>. DEFINE t == Tail(frames)
<1>1. /\ frames # <<>> /\ Frame.step = step
      /\ UNCHANGED <<pending, forks, merged, stray, children>>
  BY DEF wait, Running, Frame, library, program
<1>2. /\ frames \in Seq(FrameType) /\ Frame = Head(frames) /\ Frame \in FrameType
      /\ Single(frames) /\ Waits(frames, stray) /\ forks > 0
  BY <1>1, TopFrame
<1>3. /\ Single(t) /\ Waits(t, stray) /\ ~Coming(t)
      /\ Coming(frames) <=> Comes(Frame) \/ Coming(t)
      /\ HasSIGCHLD(t) => HasSIGCHLD(frames)
      /\ Frame.step \in {"waiting", "return"} => stray > 0
  BY <1>1, <1>2, PopFrame
<1>4. Comes(Frame) <=> step = "call"
  BY <1>1 DEF Comes
<1>5. /\ zombies \in Nat /\ zombies' \in Nat /\ merged \in Nat /\ stray \in Nat /\ TypeOK /\ Balance
  BY DEF AppInv, Registration, TypeOK
<1>6. PICK p \in {0, 1} : p = 1 <=> SIGCHLD \in pending
  OBVIOUS
<1>7. PICK c \in {0, 1} : c = 1 <=> Coming(frames)
  OBVIOUS
<1>8. zombies <= merged + p + c /\ (stray = 0 => p + c <= zombies)
  BY <1>5, <1>6, <1>7, BalanceIs
<1>9. step = "call" => c = 1
  BY <1>3, <1>4, <1>7
<1>10. step = "waiting" => c = 0 /\ stray > 0
  BY <1>1, <1>3, <1>4, <1>7
<1>11. CASE frames' = t
  <2>1. Frames'
    BY <1>1, <1>2, <1>3, <1>11 DEF Frames
  <2>2. \/ zombies > 0 /\ zombies' = zombies - 1
        \/ zombies = 0 /\ zombies' = 0
    BY <1>1, <1>11, <1>2 DEF wait
  <2>3. zombies' <= merged + p + 0 /\ (stray = 0 => p + 0 <= zombies')
    BY <1>5, <1>8, <1>9, <1>10, <2>2
  <2>4. Balance'
    BY <1>1, <1>3, <1>6, <1>11, <2>3, BalanceBecomes
  <2>. QED  BY <2>1, <2>4
<1>12. CASE frames' # t
  <2>1. zombies = 0 /\ zombies' = 0 /\ step = "call" /\ Continue("waiting")
    BY <1>12 DEF wait
  <2>2. stray > 0
    BY <1>5, <1>8, <1>9, <2>1
  <2>. DEFINE x == [Frame EXCEPT !.step = "waiting"]
  <2>3. x \in FrameType /\ x.signum = SIGCHLD /\ x.step = "waiting" /\ frames' = <<x>> \o t
    BY <1>2, <2>1 DEF FrameType, FrameStep, Continue
  <2>. HIDE DEF x
  <2>4. /\ Single(frames') /\ Waits(frames', stray)
        /\ Coming(frames') <=> Comes(x) \/ Coming(t)
        /\ HasSIGCHLD(frames') <=> HasSIGCHLD(frames)
    BY <1>1, <1>2, <2>2, <2>3, NextFrame
  <2>5. Frames'
    BY <1>1, <1>2, <2>4 DEF Frames
  <2>6. ~Coming(frames')
    BY <1>3, <2>3, <2>4 DEF Comes
  <2>7. zombies' <= merged + p + 0 /\ (stray = 0 => p + 0 <= zombies')
    BY <1>5, <2>1, <2>2
  <2>8. Balance'
    BY <1>1, <1>6, <2>6, <2>7, BalanceBecomes
  <2>. QED  BY <2>5, <2>8
<1>. QED  BY <1>11, <1>12

\* A handler that has nothing to do with the children goes on, or is done.
LEMMA OtherFrame ==
  ASSUME AppInv, TypeOK', frames # <<>>,
         UNCHANGED <<pending, forks, merged, stray, children, zombies>>,
         \/ frames' = frames
         \/ frames' = Tail(frames) /\ ~Comes(Frame)
         \/ Frame.step = "set flag" /\ Continue("call")
  PROVE  Frames' /\ Balance'
<1>. DEFINE t == Tail(frames)
<1>1. /\ frames \in Seq(FrameType) /\ Frame = Head(frames) /\ Frame \in FrameType
      /\ Single(frames) /\ Waits(frames, stray)
  BY TopFrame
<1>2. /\ Single(t) /\ Waits(t, stray)
      /\ Coming(frames) <=> Comes(Frame) \/ Coming(t)
      /\ HasSIGCHLD(t) => HasSIGCHLD(frames)
  BY <1>1, PopFrame
<1>3. /\ Single(frames') /\ Waits(frames', stray) /\ (Coming(frames') <=> Coming(frames))
      /\ HasSIGCHLD(frames') => HasSIGCHLD(frames)
  <2>1. CASE frames' = frames
    BY <1>1, <2>1
  <2>2. CASE frames' = t /\ ~Comes(Frame)
    BY <1>2, <2>2
  <2>3. CASE Frame.step = "set flag" /\ Continue("call")
    <3>. DEFINE x == [Frame EXCEPT !.step = "call"]
    <3>1. x \in FrameType /\ x.signum = Frame.signum /\ x.step = "call" /\ frames' = <<x>> \o t
      BY <1>1, <2>3 DEF FrameType, FrameStep, Continue
    <3>. HIDE DEF x
    <3>2. /\ Single(frames') /\ Waits(frames', stray)
          /\ Coming(frames') <=> Comes(x) \/ Coming(t)
          /\ HasSIGCHLD(frames') <=> HasSIGCHLD(frames)
      BY <1>1, <3>1, NextFrame
    <3>3. Comes(x) <=> Comes(Frame)
      BY <2>3, <3>1 DEF Comes
    <3>. QED  BY <1>2, <3>2, <3>3
  <2>. QED  BY <2>1, <2>2, <2>3
<1>4. Frames'
  BY <1>3 DEF AppInv, Frames
<1>5. Balance'
  BY <1>3 DEF AppInv, Balance, Count
<1>. QED  BY <1>4, <1>5

LEMMA HandlersKeepBalance ==
  ASSUME AppInv, TypeOK', Handle
  PROVE  Frames' /\ Balance'
<1>1. frames # <<>>
  BY DEF Handle, sig_set_happen_flag, call_handler, wait, ReturnFromWait, Running
<1>2. /\ frames \in Seq(FrameType) /\ Frame = Head(frames) /\ Frame \in FrameType
      /\ Single(frames) /\ Waits(frames, stray)
      /\ Frame.signum = SIGCHLD => forks > 0 /\ handler[SIGCHLD] = Wait
  BY <1>1, TopFrame
<1>3. Frame.step \in {"waiting", "return"} => Frame.signum = SIGCHLD
  BY <1>1, <1>2, PopFrame
<1>4. CASE sig_set_happen_flag
  BY <1>1, <1>4, OtherFrame DEF sig_set_happen_flag, Running, Frame, family
<1>5. CASE call_handler
  <2>1. CASE handler[Frame.signum] = Wait
    <3>1. wait("call")
      BY <1>5, <2>1 DEF call_handler, Wait
    <3>2. Frame.signum = SIGCHLD
      BY <1>2, <2>1 DEF AppInv, Phase, Wait, FrameType
    <3>. QED  BY <3>1, <3>2, WaitStep
  <2>2. CASE handler[Frame.signum] # Wait
    <3>1. ~Comes(Frame)
      BY <1>2, <2>2 DEF Comes
    <3>. QED  BY <1>1, <1>5, <2>2, <3>1, OtherFrame DEF call_handler, Wait, family
  <2>. QED  BY <2>1, <2>2
<1>6. CASE wait("waiting")
  <2>1. Frame.signum = SIGCHLD
    BY <1>3, <1>6 DEF wait, Running, Frame
  <2>. QED  BY <1>6, <2>1, WaitStep
<1>7. CASE ReturnFromWait
  <2>1. ~Comes(Frame)
    BY <1>7 DEF ReturnFromWait, Running, Frame, Comes
  <2>. QED  BY <1>1, <1>7, <2>1, OtherFrame DEF ReturnFromWait, family
<1>. QED  BY <1>4, <1>5, <1>6, <1>7 DEF Handle

LEMMA KernelKeepsBalance ==
  ASSUME AppInv, TypeOK', Kernel
  PROVE  Frames' /\ Balance'
<1>1. /\ zombies \in Nat /\ children \in Nat /\ merged \in Nat /\ stray \in Nat /\ forks \in Nat
      /\ frames \in Seq(FrameType) /\ TypeOK /\ Balance /\ Frames /\ Phase
  BY DEF AppInv, Registration, TypeOK, FrameType
<1>2. PICK p \in {0, 1} : p = 1 <=> SIGCHLD \in pending
  OBVIOUS
<1>3. PICK c \in {0, 1} : c = 1 <=> Coming(frames)
  OBVIOUS
<1>4. zombies <= merged + p + c /\ (stray = 0 => p + c <= zombies)
  BY <1>1, <1>2, <1>3, BalanceIs
<1>5. zombies + children <= forks
  BY <1>1 DEF Phase
<1>6. CASE ChildEnds
  <2>1. /\ SIGCHLD \in pending' /\ zombies' = zombies + 1 /\ children > 0
        /\ merged' = merged + p /\ UNCHANGED <<frames, stray, forks>>
    BY <1>1, <1>2, <1>6 DEF ChildEnds, Notify
  <2>2. Frames'
    BY <1>1, <1>5, <2>1 DEF Frames
  <2>3. zombies' <= merged' + 1 + c /\ (stray' = 0 => 1 + c <= zombies')
    BY <1>1, <1>4, <2>1
  <2>4. c = 1 <=> Coming(frames')
    BY <1>3, <2>1
  <2>. QED  BY <2>1, <2>2, <2>3, <2>4, BalanceBecomes
<1>7. CASE ChildStops
  <2>1. /\ SIGCHLD \in pending' /\ stray' = stray + 1 /\ children > 0
        /\ UNCHANGED <<frames, zombies, merged, forks>>
    BY <1>7 DEF ChildStops, Notify
  <2>2. Waits(frames', stray')
    BY <1>1, <2>1 DEF Frames, Waits
  <2>3. Frames'
    BY <1>1, <1>5, <2>1, <2>2 DEF Frames
  <2>4. zombies' <= merged' + 1 + c /\ (stray' = 0 => 1 + c <= zombies')
    BY <1>1, <1>4, <2>1
  <2>5. c = 1 <=> Coming(frames')
    BY <1>3, <2>1
  <2>. QED  BY <2>1, <2>3, <2>4, <2>5, BalanceBecomes
<1>8. ASSUME NEW s \in Signal, Send(s)
      PROVE  Frames' /\ Balance'
  <2>1. UNCHANGED <<frames, zombies, merged, stray, forks>>
        /\ (SIGCHLD \in pending' <=> SIGCHLD \in pending)
    BY <1>8 DEF Send, Notify, family
  <2>. QED  BY <1>1, <2>1 DEF Frames, Balance
<1>9. ASSUME NEW s \in Signal, Deliver(s)
      PROVE  Frames' /\ Balance'
  <2>1. /\ pending' = pending \ {s} /\ s \in pending /\ s \notin Blocked
        /\ UNCHANGED <<zombies, merged, stray, forks>>
    BY <1>9 DEF Deliver, family
  <2>2. CASE action[s] = "SIG_DFL"
    <3>1. frames' = frames
      BY <1>9, <2>2 DEF Deliver
    <3>2. s # SIGCHLD \/ forks = 0
      BY <1>1, <2>2 DEF Phase, Waiter
    <3>3. s # SIGCHLD
      BY <1>1, <2>1, <3>2 DEF Frames
    <3>4. SIGCHLD \in pending' <=> SIGCHLD \in pending
      BY <2>1, <3>3
    <3>. QED  BY <1>1, <2>1, <3>1, <3>4 DEF Frames, Balance
  <2>3. CASE action[s] # "SIG_DFL"
    <3>. DEFINE x == [signum |-> s, step |-> "set flag"]
    <3>1. frames' = <<x>> \o Interrupted
      BY <1>9, <2>3 DEF Deliver
    <3>2. x \in FrameType /\ x.signum = s /\ x.step = "set flag"
      BY DEF FrameType, FrameStep
    <3>. HIDE DEF x
    <3>3. /\ Interrupted \in Seq(FrameType) /\ Single(Interrupted) /\ Waits(Interrupted, stray)
          /\ Coming(Interrupted) <=> Coming(frames)
          /\ HasSIGCHLD(Interrupted) <=> HasSIGCHLD(frames)
      <4>1. CASE frames # <<>> /\ Head(frames).step = "waiting"
        <5>. DEFINE y == [Head(frames) EXCEPT !.step = "return"]
        <5>1. Head(frames) \in FrameType
          BY <1>1, <4>1, HeadAndTail
        <5>2. y \in FrameType /\ y.signum = Head(frames).signum /\ y.step = "return"
              /\ Interrupted = <<y>> \o Tail(frames)
          BY <4>1, <5>1 DEF FrameType, FrameStep, Interrupted
        <5>. HIDE DEF y
        <5>3. /\ Single(frames) /\ Waits(frames, stray)
              /\ Coming(frames) <=> Comes(Head(frames)) \/ Coming(Tail(frames))
              /\ Head(frames).signum = SIGCHLD /\ stray > 0
          BY <1>1, <4>1, PopFrame DEF Frames
        <5>4. /\ Single(Interrupted) /\ Waits(Interrupted, stray)
              /\ Coming(Interrupted) <=> Comes(y) \/ Coming(Tail(frames))
              /\ HasSIGCHLD(Interrupted) <=> HasSIGCHLD(frames)
          BY <1>1, <4>1, <5>2, <5>3, NextFrame
        <5>5. ~Comes(y) /\ ~Comes(Head(frames))
          BY <4>1, <5>2 DEF Comes
        <5>6. Interrupted \in Seq(FrameType)
          BY <1>1, <4>1, <5>2, NewHead
        <5>. QED  BY <5>3, <5>4, <5>5, <5>6
      <4>2. CASE ~(frames # <<>> /\ Head(frames).step = "waiting")
        BY <1>1, <4>2 DEF Interrupted, Frames
      <4>. QED  BY <4>1, <4>2
    <3>4. s = SIGCHLD => ~HasSIGCHLD(frames)
      <4>1. DOMAIN frames = 1..Len(frames)
        BY <1>1, LenProperties
      <4>. QED  BY <2>1, <4>1 DEF Blocked, HasSIGCHLD
    <3>5. /\ Single(frames') /\ Waits(frames', stray)
          /\ Coming(frames') <=> Comes(x) \/ Coming(frames)
          /\ HasSIGCHLD(frames') <=> s = SIGCHLD \/ HasSIGCHLD(frames)
      <4>1. x.signum = SIGCHLD => ~HasSIGCHLD(Interrupted)
        BY <3>2, <3>3, <3>4
      <4>2. x.step \notin {"waiting", "return"}
        BY <3>2
      <4>. DEFINE fs == Interrupted
      <4>3. fs \in Seq(FrameType) /\ Single(fs) /\ Waits(fs, stray)
        BY <3>3
      <4>4. x.signum = SIGCHLD => ~HasSIGCHLD(fs)
        BY <4>1
      <4>. HIDE DEF fs
      <4>5. /\ Single(<<x>> \o fs) /\ Waits(<<x>> \o fs, stray)
            /\ Coming(<<x>> \o fs) <=> Comes(x) \/ Coming(fs)
            /\ HasSIGCHLD(<<x>> \o fs) <=> x.signum = SIGCHLD \/ HasSIGCHLD(fs)
        BY <3>2, <4>2, <4>3, <4>4, PushFrame
      <4>6. frames' = <<x>> \o fs
        BY <3>1 DEF fs
      <4>7. (Coming(fs) <=> Coming(frames)) /\ (HasSIGCHLD(fs) <=> HasSIGCHLD(frames))
        BY <3>3 DEF fs
      <4>. QED  BY <3>2, <4>5, <4>6, <4>7
    <3>6. Frames'
      BY <1>1, <2>1, <3>5 DEF Frames
    <3>7. CASE s # SIGCHLD
      <4>1. (SIGCHLD \in pending' <=> SIGCHLD \in pending) /\ (Coming(frames') <=> Coming(frames))
        BY <2>1, <3>2, <3>5, <3>7 DEF Comes
      <4>. QED  BY <1>1, <2>1, <3>6, <4>1 DEF Balance, Count
    <3>8. CASE s = SIGCHLD
      <4>1. p = 1 /\ c = 0
        BY <1>2, <1>3, <2>1, <3>4, <3>8 DEF Coming, HasSIGCHLD, Comes
      <4>2. SIGCHLD \notin pending' /\ Coming(frames')
        BY <2>1, <3>2, <3>5, <3>8 DEF Comes
      <4>3. zombies' <= merged' + 0 + 1 /\ (stray' = 0 => 0 + 1 <= zombies')
        BY <1>1, <1>4, <2>1, <4>1
      <4>4. Balance'
        BY <4>2, <4>3, BalanceBecomes
      <4>. QED  BY <3>6, <4>4
    <3>. QED  BY <3>7, <3>8
  <2>. QED  BY <2>2, <2>3
<1>. QED  BY <1>6, <1>7, <1>8, <1>9 DEF Kernel

\* The program itself disturbs it only by taking a child.
LEMMA MainKeepsBalance ==
  ASSUME AppInv, TypeOK', UNCHANGED kernel,
         \/ UNCHANGED <<zombies, merged, stray>> /\ forks' >= forks
         \/ WaitItself
  PROVE  Frames' /\ Balance'
<1>1. /\ zombies \in Nat /\ merged \in Nat /\ stray \in Nat /\ forks \in Nat /\ forks' \in Nat
      /\ Balance /\ Frames /\ TypeOK
  BY DEF AppInv, Registration, TypeOK
<1>2. UNCHANGED <<pending, frames>>
  BY DEF kernel
<1>3. CASE UNCHANGED <<zombies, merged, stray>> /\ forks' >= forks
  BY <1>1, <1>2, <1>3 DEF Frames, Balance
<1>4. CASE WaitItself
  <2>1. zombies' = zombies - 1 /\ zombies > 0 /\ stray' = stray + 1 /\ UNCHANGED <<merged, forks>>
    BY <1>4 DEF WaitItself
  <2>2. Waits(frames', stray')
    BY <1>1, <1>2, <2>1 DEF Frames, Waits
  <2>3. Frames'
    BY <1>1, <1>2, <2>1, <2>2 DEF Frames
  <2>4. PICK p \in {0, 1} : p = 1 <=> SIGCHLD \in pending
    OBVIOUS
  <2>5. PICK c \in {0, 1} : c = 1 <=> Coming(frames)
    OBVIOUS
  <2>6. zombies <= merged + p + c
    BY <1>1, <2>4, <2>5, BalanceIs
  <2>7. zombies' <= merged' + p + c /\ (stray' = 0 => p + c <= zombies')
    BY <1>1, <2>1, <2>6
  <2>8. (p = 1 <=> SIGCHLD \in pending') /\ (c = 1 <=> Coming(frames'))
    BY <1>2, <2>4, <2>5
  <2>9. Balance'
    BY <2>7, <2>8, BalanceBecomes
  <2>. QED  BY <2>3, <2>9
<1>. QED  BY <1>3, <1>4

-----------------------------------------------------------------------------
(* The phases of the example program.                                      *)

LEMMA OthersKeepPhase ==
  ASSUME AppInv, (Handle \/ Kernel) /\ UNCHANGED at
  PROVE  Phase'
<1>1. /\ TypeOK /\ Phase /\ zombies \in Nat /\ children \in Nat /\ forks \in Nat
      /\ UNCHANGED <<pc, op, handler, action>>
  BY ForkType, KernelType, HandleType DEF AppInv, Registration, registry, TypeOK
<1>2. forks' = forks /\ zombies' + children' <= zombies + children
  <2>1. CASE Handle
    <3>1. children' = children /\ forks' = forks
          /\ (zombies' = zombies \/ (zombies > 0 /\ zombies' = zombies - 1))
      BY <2>1 DEF Handle, sig_set_happen_flag, call_handler, wait, ReturnFromWait, family
    <3>. QED  BY <1>1, <3>1
  <2>2. CASE Kernel
    <3>1. forks' = forks /\ \/ zombies' = zombies /\ children' = children
                            \/ zombies' = zombies + 1 /\ children' = children - 1
      BY <2>2 DEF Kernel, ChildEnds, ChildStops, Send, Deliver, family
    <3>. QED  BY <1>1, <3>1
  <2>. QED  BY <2>1, <2>2
<1>3. zombies' + children' <= forks'
  <2>1. zombies' + children' \in Int
    BY OthersKeepRegistration DEF AppInv, Registration, TypeOK
  <2>. QED  BY <1>1, <1>2, <2>1 DEF Phase
<1>. QED  BY <1>1, <1>2, <1>3 DEF Phase, Waiter

LEMMA StepsKeepPhase ==
  ASSUME AppInv, Step, UNCHANGED at
  PROVE  Phase' /\ UNCHANGED <<zombies, merged, stray, forks>>
<1>1. TypeOK /\ Phase /\ Registration /\ Progress
  BY DEF AppInv, Registration
<1>2. UNCHANGED family
  BY DEF Step, Register, Sigaction, Rollback, Free, Reset, Exit
<1>3. /\ zombies' + children' <= forks'
      /\ UNCHANGED <<zombies, merged, stray, forks>>
  BY <1>1, <1>2 DEF family, Phase
<1>4. CASE Free \/ Reset \/ Exit
  <2>1. /\ UNCHANGED <<op, handler, action>> /\ pc \in {"free", "reset", "exit"}
        /\ op = "exit" => pc' \in {"free", "reset", "exit"}
    BY <1>4 DEF Free, Reset, Exit, At, library, kernel, program
  <2>2. at = "exiting"
    BY <1>1, <2>1 DEF Phase
  <2>. QED  BY <1>1, <1>3, <2>1, <2>2 DEF Phase, Waiter
<1>5. CASE Register \/ Sigaction \/ Rollback
  <2>1. /\ pc \in {"register", "sigaction", "rollback"} /\ op' = op
        /\ pc' \in {"idle", "register", "sigaction", "rollback"}
    <3>1. CASE Register
      BY <3>1 DEF Register, Fail, Return, At
    <3>2. CASE Sigaction
      BY <3>2 DEF Sigaction, Fail, Return, At
    <3>3. CASE Rollback
      BY <3>3 DEF Rollback, Return, At
    <3>. QED  BY <1>5, <3>1, <3>2, <3>3
  <2>2. at = "registering" /\ op = "sig_simple_register" /\ ~(forks > 0)
    BY <1>1, <2>1 DEF Phase
  <2>3. \A s \in Signal : handler'[s] = Wait => s = SIGCHLD
    <3>1. CASE handler' = handler
      BY <1>1, <3>1 DEF Phase, Wait
    <3>2. CASE handler' # handler
      <4>. DEFINE e == Head(todo)
      <4>1. Register
        BY <1>5, <3>2 DEF Sigaction, Rollback, library
      <4>2. handler' = [handler EXCEPT ![e.name] = e.handler] /\ pc = "register"
        BY <3>2, <4>1 DEF Register, At
      <4>3. lists \in Lists /\ Suffix(todo, Order(lists)) /\ todo # <<>> /\ todo \in Seq(Entry)
        BY <1>1, <2>2, <4>2 DEF Registration, Forward, Progress, TypeOK
      <4>4. /\ Order(lists) \in Seq(Entry)
            /\ \A j \in 1..Len(Order(lists)) : From(Order(lists)[j], lists)
        BY <4>3, EntriesFrom
      <4>5. Len(Order(lists)) - Len(todo) + 1 \in 1..Len(Order(lists))
            /\ e = Order(lists)[Len(Order(lists)) - Len(todo) + 1]
        BY <4>3, <4>4, SuffixTail
      <4>6. From(e, lists)
        BY <4>4, <4>5
      <4>7. e.handler = Wait => e.name = SIGCHLD
        BY <4>3, <4>6, HandlerOfEntry
      <4>8. \A s \in Signal : handler'[s] = handler[s] \/ (s = e.name /\ handler'[s] = e.handler)
        BY <1>1, <4>2 DEF TypeOK
      <4>. QED  BY <1>1, <4>7, <4>8 DEF Phase, Wait
    <3>. QED  BY <3>1, <3>2
  <2>. QED  BY <1>3, <2>1, <2>2, <2>3 DEF Phase, Wait
<1>. QED  BY <1>4, <1>5 DEF Step

\* When the registration has succeeded, the handler of SIGCHLD is there.
LEMMA SuccessRegisters ==
  ASSUME Registration, op = "sig_simple_register", pc = "idle", result = "ok"
  PROVE  Waiter
<1>1. named /\ lists \in Lists /\ ~Intersect(lists)
  BY DEF Registration, Succeeded
<1>2. \A i \in DOMAIN Order(lists) :
        /\ action[Order(lists)[i].name] # "SIG_DFL"
        /\ handler[Order(lists)[i].name] = Order(lists)[i].handler
  BY <1>1 DEF Registration, AllOrNothing, Order
<1>3. lists.critical \in Seq(Name) /\ lists.plain \in Seq(Name)
  BY <1>1, ListsTyped
<1>4. /\ DOMAIN lists.critical = 1..Len(lists.critical)
      /\ DOMAIN lists.plain = 1..Len(lists.plain)
  BY <1>3, LenProperties
<1>5. \/ \E i \in 1..Len(lists.critical) : lists.critical[i] = SIGCHLD
      \/ \E i \in 1..Len(lists.plain) : lists.plain[i] = SIGCHLD
  <2>1. \E list \in {lists.critical, lists.plain} : \E i \in DOMAIN list : list[i] = SIGCHLD
    BY <1>1, ApplicationAssumption
  <2>. QED  BY <1>4, <2>1
<1>6. PICK e : From(e, lists) /\ e.name = SIGCHLD
  <2>1. CASE \E i \in 1..Len(lists.critical) : lists.critical[i] = SIGCHLD
    <3>1. PICK i \in 1..Len(lists.critical) : lists.critical[i] = SIGCHLD
      BY <2>1
    <3>2. CriticalEntries(lists)[i].name = SIGCHLD
      BY <1>3, <3>1, EntriesOf DEF CriticalEntries, Handler, Wait
    <3>. QED  BY <3>1, <3>2 DEF From
  <2>2. CASE \E i \in 1..Len(lists.plain) : lists.plain[i] = SIGCHLD
    <3>1. PICK i \in 1..Len(lists.plain) : lists.plain[i] = SIGCHLD
      BY <2>2
    <3>2. PlainEntries(lists)[i].name = SIGCHLD
      BY <1>3, <3>1, EntriesOf DEF PlainEntries, Handler, Wait
    <3>. QED  BY <3>1, <3>2 DEF From
  <2>. QED  BY <1>5, <2>1, <2>2
<1>7. e.handler = Wait
  BY <1>1, <1>6, HandlerOfEntry
<1>8. Order(lists) \in Seq(Entry) /\ \E i \in 1..Len(Order(lists)) : Order(lists)[i] = e
  BY <1>1, <1>6, EntriesFrom
<1>9. DOMAIN Order(lists) = 1..Len(Order(lists))
  BY <1>8, LenProperties
<1>10. action[e.name] # "SIG_DFL" /\ handler[e.name] = e.handler
  BY <1>2, <1>8, <1>9
<1>. QED  BY <1>6, <1>7, <1>10 DEF Waiter, Wait

LEMMA MainKeepsPhase ==
  ASSUME AppInv,
         Start \/ Registered \/ CheckCriticalFlag \/ Work \/ Sleep \/ ReturnFromMain
  PROVE  /\ Phase' /\ UNCHANGED kernel
         /\ WaitItself \/ (UNCHANGED <<zombies, merged, stray>> /\ forks' >= forks)
<1>1. /\ TypeOK /\ Phase /\ Registration
      /\ zombies \in Nat /\ children \in Nat /\ forks \in Nat
  BY DEF AppInv, Registration, TypeOK
<1>. USE DEF Enter, At
<1>2. CASE Start
  <2>1. PICK l \in Lists : CallSimpleRegister(l)
    BY <1>2 DEF Start
  <2>2. /\ at = "start" /\ at' = "registering" /\ op' = "sig_simple_register"
        /\ pc' \in {"idle", "register"} /\ UNCHANGED <<kernel, family>>
    BY <1>2, <2>1 DEF Start, CallSimpleRegister, Return
  <2>3. handler' = handler \/ handler' = [s \in Signal |-> "NULL"]
    BY <2>1 DEF CallSimpleRegister, sig_global_init
  <2>. QED  BY <1>1, <2>2, <2>3 DEF Phase, kernel, family
<1>3. CASE Registered
  <2>1. at = "registering" /\ pc = "idle" /\ UNCHANGED vars
        /\ at' = IF result = "ok" THEN "check" ELSE "over"
    BY <1>3 DEF Registered
  <2>2. op = "sig_simple_register"
    BY <1>1, <2>1 DEF Phase
  <2>3. at' = "check" => Waiter
    BY <1>1, <2>1, <2>2, SuccessRegisters
  <2>. QED  BY <1>1, <2>1, <2>2, <2>3 DEF Phase, Waiter, vars, library, kernel, family, program
<1>4. CASE CheckCriticalFlag \/ Sleep
  BY <1>1, <1>4 DEF CheckCriticalFlag, Sleep, Phase, Waiter, vars, library, kernel, family, program
<1>5. CASE Work
  <2>1. at = "work" /\ at' = "sleep" /\ Waiter /\ pc = "idle"
    BY <1>1, <1>5 DEF Work, Phase
  <2>2. CASE Fork
    BY <1>1, <2>1, <2>2 DEF Fork, Phase, Waiter, library, kernel, program
  <2>3. CASE WaitItself
    BY <1>1, <2>1, <2>3 DEF WaitItself, Phase, Waiter, library, kernel, program
  <2>4. CASE UNCHANGED vars
    BY <1>1, <2>1, <2>4 DEF Phase, Waiter, vars, library, kernel, family, program
  <2>. QED  BY <1>5, <2>2, <2>3, <2>4 DEF Work
<1>6. CASE ReturnFromMain
  BY <1>1, <1>6 DEF ReturnFromMain, Phase, Waiter, library, kernel, family
<1>. QED  BY <1>2, <1>3, <1>4, <1>5, <1>6

-----------------------------------------------------------------------------
(* The example program.                                                    *)

LEMMA AppKeepsRegistration ==
  ASSUME Registration, [AppNext]_appVars
  PROVE  Registration'
<1>1. CASE Start
  BY <1>1, BeginRegistration DEF Start
<1>2. CASE Registered \/ CheckCriticalFlag \/ Sleep \/ UNCHANGED appVars
  <2>1. UNCHANGED vars
    BY <1>2 DEF Registered, CheckCriticalFlag, Sleep, appVars
  <2>. QED  BY <2>1, RegistrationStutters
<1>3. CASE Work
  <2>1. CASE WaitItself
    <3>1. UNCHANGED registry
      BY <2>1 DEF WaitItself, library, kernel, program, registry
    <3>2. TypeOK'
      <4>1. zombies' \in Nat /\ stray' \in Nat
        BY <2>1 DEF WaitItself, Registration, TypeOK
      <4>. QED  BY <2>1, <4>1 DEF WaitItself, Registration, TypeOK, library, kernel, program
    <3>. QED  BY <3>1, <3>2, Elsewhere
  <2>. QED  BY <1>3, <2>1, OthersKeepRegistration, RegistrationStutters DEF Work
<1>4. CASE ReturnFromMain
  <2>1. BeginReset("exit")
    BY <1>4 DEF ReturnFromMain, BeginReset
  <2>. QED  BY <2>1, ResetSteps
<1>5. CASE Step
  BY <1>5, StepKeepsRegistration
<1>6. CASE Handle \/ Kernel
  BY <1>6, OthersKeepRegistration
<1>. QED  BY <1>1, <1>2, <1>3, <1>4, <1>5, <1>6 DEF AppNext, Main

LEMMA AppStep ==
  ASSUME AppInv, [AppNext]_appVars
  PROVE  AppInv'
<1>1. Registration' /\ TypeOK'
  BY AppKeepsRegistration DEF AppInv, Registration
<1>2. CASE Start \/ Registered \/ CheckCriticalFlag \/ Work \/ Sleep \/ ReturnFromMain
  BY <1>1, <1>2, MainKeepsPhase, MainKeepsBalance DEF AppInv
<1>3. CASE Step /\ UNCHANGED at
  <2>1. Phase' /\ UNCHANGED <<zombies, merged, stray, forks>>
    BY <1>3, StepsKeepPhase
  <2>2. UNCHANGED <<pending, frames>>
    BY <1>3 DEF Step, Register, Sigaction, Rollback, Free, Reset, Exit, kernel
  <2>3. Frames' /\ Balance'
    BY <2>1, <2>2 DEF AppInv, Frames, Balance
  <2>. QED  BY <1>1, <2>1, <2>3 DEF AppInv
<1>4. CASE (Handle \/ Kernel) /\ UNCHANGED at
  BY <1>1, <1>4, OthersKeepPhase, HandlersKeepBalance, KernelKeepsBalance DEF AppInv
<1>5. CASE UNCHANGED appVars
  <2>1. UNCHANGED <<at, pc, op, forks, zombies, children, handler, action, frames, stray, pending, merged>>
    BY <1>5 DEF appVars, vars, library, kernel, family, program
  <2>2. Phase' /\ Frames' /\ Balance'
    BY <2>1 DEF AppInv, Phase, Waiter, Frames, Balance
  <2>. QED  BY <1>1, <2>2 DEF AppInv
<1>. QED  BY <1>2, <1>3, <1>4, <1>5 DEF AppNext, Main

LEMMA AppInitially ==
  ASSUME AppInit
  PROVE  AppInv
<1>1. Registration
  BY RegistrationInitially DEF AppInit
<1>2. Phase
  BY DEF AppInit, Init, Phase
<1>3. Frames
  <2>1. frames = <<>> /\ Len(frames) = 0 /\ pending = {}
    BY DEF AppInit, Init
  <2>. QED  BY <2>1 DEF Frames, Single, Waits, HasSIGCHLD
<1>4. Balance
  <2>1. frames = <<>> /\ Len(frames) = 0 /\ pending = {} /\ zombies = 0 /\ merged = 0
    BY DEF AppInit, Init
  <2>. QED  BY <2>1 DEF Balance, Count, Coming
<1>. QED  BY <1>1, <1>2, <1>3, <1>4 DEF AppInv

\* The inductive invariant of the example program.
THEOREM AppInvariance == AppSpec => []AppInv
<1>1. AppInit => AppInv
  BY AppInitially
<1>2. AppInv /\ [AppNext]_appVars => AppInv'
  BY AppStep
<1>. QED  BY <1>1, <1>2, PTL DEF AppSpec

\* A child that ended is left a zombie only by the merging of SIGCHLDs: each of
\* the others has a SIGCHLD or a handler to come.
THEOREM ZombiesAwaited == AppSpec => []ZombiesAreAwaited
<1>1. AppInv => ZombiesAreAwaited
  <2>1. SUFFICES ASSUME AppInv
                 PROVE  ZombiesAreAwaited
    OBVIOUS
  <2>2. /\ frames \in Seq(FrameType) /\ zombies \in Nat /\ merged \in Nat
        /\ zombies <= merged + Count(SIGCHLD \in pending) + Count(Coming(frames))
    BY <2>1 DEF AppInv, Registration, TypeOK, FrameType, Balance
  <2>3. DOMAIN frames = 1..Len(frames)
    BY <2>2, LenProperties
  <2>4. Coming(frames) => \E i \in DOMAIN frames : frames[i].signum = SIGCHLD
    BY <2>3 DEF Coming, Comes
  <2>. QED  BY <2>2, <2>4 DEF ZombiesAreAwaited, Count
<1>. QED  BY AppInvariance, <1>1, PTL

\* The handler of SIGCHLD waits for a living child, and holds up the program, only
\* after a SIGCHLD that came without a child for it.
THEOREM BlockedByStray == AppSpec => []BlockedOnlyByStray
<1>1. AppInv => BlockedOnlyByStray
  <2>1. SUFFICES ASSUME AppInv, HeldUp
                 PROVE  stray > 0
    BY DEF BlockedOnlyByStray
  <2>2. frames \in Seq(FrameType) /\ Waits(frames, stray)
    BY <2>1 DEF AppInv, Registration, TypeOK, FrameType, Frames
  <2>3. DOMAIN frames = 1..Len(frames)
    BY <2>2, LenProperties
  <2>. QED  BY <2>1, <2>2, <2>3 DEF HeldUp, Waits
<1>. QED  BY AppInvariance, <1>1, PTL
=============================================================================
