------------------------- MODULE ReaderGroupProofs -------------------------
(***************************************************************************)
(* What holds of ReaderGroup for any number of readers, behaviors and      *)
(* goroutines, however often GetCapabilities asks and however late the     *)
(* device service notices a reader.                                        *)
(*                                                                         *)
(* The six invariants that run Group checks follow from one inductive     *)
(* invariant, Inv: besides the types it says what a goroutine can be at    *)
(* (Consistent), who has the mutex (MutexHeld), that a SetBehavior has it  *)
(* to itself (Alone), what StartAll and StopAll have done to each reader   *)
(* (Promises), why a reader may not yet hold the group's behavior (Owes),  *)
(* that nobody is sent a behavior it rejects (Acceptable), and where a     *)
(* reader is going (Follows).                                              *)
(***************************************************************************)
EXTENDS ReaderGroup, SequenceTheorems, TLAPS

ReplaceCommands == {<<"DeleteAll", "Add">>, <<"Add">>}
StartCommands   == {<<"Enable", "Start">>, <<"Enable">>, <<"Start">>}
StopCommands    == {<<"Stop", "Disable">>, <<"Disable">>}

\* What a goroutine at l can still have to send to d.
Remaining(l, d) ==
  \/ l.chain[d] = <<>>
  \/ /\ l.pc = "Replace" /\ l.chain[d] \in ReplaceCommands
     /\ l.op = "AddReader" => d = l.dev
     /\ l.op = "SetBehavior" => d \in l.todo
  \/ l.pc = "Loop" /\ l.op = "StartAll" /\ l.chain[d] \in StartCommands
  \/ l.pc = "Loop" /\ l.op = "StopAll" /\ l.chain[d] \in StopCommands

\* What an operation is at, and what it knows there.
Consistent(l) ==
  /\ l.op = "None" <=> l.pc = "Idle"
  /\ l.pc \in {"Query", "Extend", "Config"} => l.op = "AddReader"
  /\ l.pc \in {"RLock", "RLocked"} => l.op \in {"AddReader", "StartAll", "StopAll", "Look"}
  /\ l.pc \in {"Lock", "Locked"} => l.op \in {"AddReader", "RemoveReader", "SetBehavior"}
  /\ l.pc = "Replace" => l.op \in {"AddReader", "SetBehavior"}
  /\ l.pc = "Loop" => l.op \in {"StartAll", "StopAll"}
  /\ l.op \in {"AddReader", "RemoveReader"} => l.dev \in Device
  /\ l.op = "SetBehavior" => l.b \in Behavior
  /\ l.op = "AddReader" /\ l.pc \in {"Replace", "Lock", "Locked"} => l.b \in Behavior
  /\ \A d \in Device : Remaining(l, d)

Consistency == \A t \in Thread : Consistent(local[t])

Writing(t) == local[t].pc = "Locked" \/ Replacing(t)

\* A goroutine that writes has announced itself, one that replaces ROSpecs has
\* outlasted the readers, and one that loops over the group is a reader.
Announced  == \A t \in Thread : mu.writer = t <=> Writing(t)
Outlasted  == \A t \in Thread : Replacing(t) => mu.readers = {}
LoopsRead  == \A t \in Thread : local[t].pc = "Loop" => t \in mu.readers
ReadersAt  == \A t \in Thread : t \in mu.readers => local[t].pc \in {"RLocked", "Loop"}
QueueAt    == \A t \in Thread : t \in mu.queue => local[t].pc = "RLocked" /\ t \notin mu.readers

\* Who asked for a share has it or is in the queue, and there is a queue only
\* behind a writer.
RLockedAt   == \A t \in Thread : local[t].pc = "RLocked" => t \in mu.readers \cup mu.queue
QueueBehind == mu.queue # {} => mu.writer # Nobody

MutexHeld ==
  /\ Announced /\ Outlasted /\ LoopsRead
  /\ ReadersAt /\ QueueAt /\ RLockedAt /\ QueueBehind

Alone ==
  \A t \in Thread : Replacing(t) => local[t].todo = group /\ local[t].b = behavior

Promises ==
  /\ \A t \in Thread, d \in Device :
       local[t].pc = "Loop" /\ local[t].chain[d] # <<>> => promised[d] = "Nothing"
  /\ \A d \in Device :
       /\ promised[d] = "Started" => device[d].state \in {"Inactive", "Active"}
       /\ promised[d] = "Stopped" => device[d].state \in {"None", "Disabled"}

Matches(d) == device[d] # NoSpec /\ device[d].behavior = behavior

Brings(t, d) == local[t].op = "AddReader" /\ local[t].dev = d

\* An AddReader that has replaced the ROSpec of d, with the group's behavior.
Brought(t, d) ==
  /\ Brings(t, d) /\ local[t].b = behavior
  /\ \/ local[t].pc \in {"Lock", "Locked"}
     \/ local[t].pc = "Replace" /\ local[t].chain[d] = <<>>

\* Goroutine t has still to replace the ROSpec of d, or to find that the one it
\* brought is no longer what the group wants.
Owes(t, d) ==
  \/ Brings(t, d) /\ local[t].pc \in {"RLock", "RLocked"}
  \/ Brings(t, d) /\ local[t].pc = "Replace" /\ local[t].chain[d] # <<>>
  \/ Brings(t, d) /\ local[t].pc \in {"Replace", "Lock", "Locked"} /\ local[t].b # behavior
  \/ Replacing(t) /\ local[t].chain[d] # <<>>

Accounted(d) ==
  d \in group \/ (\E t \in Thread : Brought(t, d)) =>
     Matches(d) \/ (\E t \in Thread : Owes(t, d))

MatchesOrOwed == \A d \in Device \ suspect : Accounted(d)

\* An AddReader brings a behavior its reader accepts, a SetBehavior replaces
\* ROSpecs by those of one the whole group accepts, and that one is still what
\* the members accept that are not suspect.
Carried(t) ==
  local[t].op = "AddReader" /\ local[t].pc \in {"Replace", "Lock", "Locked"} =>
     <<local[t].dev, local[t].b>> \in Accepts

Acceptable ==
  /\ \A t \in Thread : Carried(t)
  /\ \A t \in Thread : Replacing(t) => GroupAccepts
  /\ \A d \in group \ suspect : <<d, behavior>> \in Accepts

\* t adds or removes d.
Moves(t, d) == local[t].op \in {"AddReader", "RemoveReader"} /\ local[t].dev = d

\* An AddReader that still asks can ask often enough.
Reaches(t, d) ==
  local[t].pc = "Query" =>
     2 * lag[d] + local[t].tries * (local[t].tries + 1) <= (MaxTries - 1) * MaxTries

OneMoves(d)  == \A t, u \in Thread : Moves(t, d) /\ Moves(u, d) => t = u
BroughtIn(d) == \A t \in Thread : Moves(t, d) => local[t].op = "AddReader" /\ Reaches(t, d)
TakenOut(d)  == \A t \in Thread : Moves(t, d) => local[t].op = "RemoveReader"

Follow(d) ==
  /\ wanted[d] # "Unsure" => OneMoves(d)
  /\ wanted[d] = "In"     => BroughtIn(d) /\ (~InTransit(d) => d \in group)
  /\ wanted[d] = "Out"    => TakenOut(d) /\ (~InTransit(d) => d \notin group)

Follows == \A d \in Device : Follow(d)

Inv ==
  /\ TypeOK
  /\ Consistency
  /\ MutexHeld
  /\ Alone
  /\ Promises
  /\ MatchesOrOwed
  /\ Acceptable
  /\ Follows
-----------------------------------------------------------------------------
(* Data: sequences of commands, and ROSpecs. *)

LEMMA Pair ==
  ASSUME NEW x, NEW y
  PROVE  Head(<<x, y>>) = x /\ Tail(<<x, y>>) = <<y>> /\ <<x, y>> # <<>>
<1> DEFINE S == {x, y}
<1>1. x \in S /\ y \in S
  OBVIOUS
<1> HIDE DEF S
<1> QED BY <1>1

LEMMA Single ==
  ASSUME NEW x
  PROVE  Head(<<x>>) = x /\ Tail(<<x>>) = <<>> /\ <<x>> # <<>>
<1> DEFINE S == {x}
<1>1. x \in S
  OBVIOUS
<1> HIDE DEF S
<1> QED BY <1>1

\* What is sent first, and what is left then.
LEMMA ReplaceLeft ==
  ASSUME NEW c \in ReplaceCommands
  PROVE  /\ c # <<>>
         /\ \/ Head(c) = "DeleteAll" /\ Tail(c) \in ReplaceCommands
            \/ Head(c) = "Add" /\ Tail(c) = <<>>
BY Pair, Single, Zenon DEF ReplaceCommands

LEMMA StartLeft ==
  ASSUME NEW c \in StartCommands
  PROVE  /\ c # <<>>
         /\ \/ Head(c) = "Enable" /\ Tail(c) \in StartCommands \cup {<<>>}
            \/ Head(c) = "Start" /\ Tail(c) = <<>>
<1>1. CASE c = <<"Enable", "Start">>
  BY <1>1, Pair, Zenon DEF StartCommands
<1>2. CASE c \in {<<"Enable">>, <<"Start">>}
  BY <1>2, Single, Zenon
<1> QED BY <1>1, <1>2 DEF StartCommands

LEMMA StopLeft ==
  ASSUME NEW c \in StopCommands
  PROVE  /\ c # <<>>
         /\ \/ Head(c) = "Stop" /\ Tail(c) \in StopCommands
            \/ Head(c) = "Disable" /\ Tail(c) = <<>>
BY Pair, Single, Zenon DEF StopCommands

LEMMA CommandTypes ==
  /\ Commands = {<<>>} \cup ReplaceCommands \cup StartCommands \cup StopCommands
  /\ ReplaceRO \in ReplaceCommands
BY Zenon DEF Commands, ReplaceCommands, StartCommands, StopCommands, ReplaceRO

LEMMA SendType ==
  ASSUME NEW S, NEW c \in Commands
  PROVE  /\ Send(S, c) \in [Device -> Commands]
         /\ \A d \in Device : Send(S, c)[d] = IF d \in S THEN c ELSE <<>>
BY CommandTypes DEF Send

LEMMA ROSpecTypes ==
  /\ NoSpec \in ROSpecs /\ NoSpec.state = "None"
  /\ \A b \in Behavior, s \in {"Disabled", "Inactive", "Active"} :
       /\ ROSpec(b, s) \in ROSpecs /\ ROSpec(b, s) # NoSpec
       /\ ROSpec(b, s).state = s /\ ROSpec(b, s).behavior = b
  /\ \A r \in ROSpecs \ {NoSpec} :
       /\ r.state \in {"Disabled", "Inactive", "Active"} /\ r.behavior \in Behavior
       /\ \A s \in {"Disabled", "Inactive", "Active"} :
            [r EXCEPT !.state = s] = ROSpec(r.behavior, s)
<1>1. NoSpec \in ROSpecs /\ NoSpec.state = "None"
  BY DEF ROSpecs, NoSpec
<1>2. ASSUME NEW b \in Behavior, NEW s \in {"Disabled", "Inactive", "Active"}
      PROVE  /\ ROSpec(b, s) \in ROSpecs /\ ROSpec(b, s) # NoSpec
             /\ ROSpec(b, s).state = s /\ ROSpec(b, s).behavior = b
  <2>1. ROSpec(b, s).state = s /\ ROSpec(b, s).behavior = b
    BY DEF ROSpec
  <2>2. ROSpec(b, s) \in ROSpecs
    BY DEF ROSpecs
  <2> QED BY <1>1, <2>1, <2>2
<1>3. ASSUME NEW r \in ROSpecs \ {NoSpec}
      PROVE  /\ r.state \in {"Disabled", "Inactive", "Active"} /\ r.behavior \in Behavior
             /\ \A s \in {"Disabled", "Inactive", "Active"} :
                  [r EXCEPT !.state = s] = ROSpec(r.behavior, s)
  <2>1. PICK b \in Behavior, s \in {"Disabled", "Inactive", "Active"} : r = ROSpec(b, s)
    BY <1>3 DEF ROSpecs
  <2>2. r.behavior = b /\ r.state = s
    BY <2>1 DEF ROSpec
  <2>3. ASSUME NEW x \in {"Disabled", "Inactive", "Active"}
        PROVE  [r EXCEPT !.state = x] = ROSpec(b, x)
    BY <2>1 DEF ROSpec
  <2> QED BY <2>2, <2>3
<1> QED BY <1>1, <1>2, <1>3

\* A command leaves a reader with a ROSpec it can have.
LEMMA EffectTypes ==
  ASSUME NEW r \in ROSpecs, NEW b
  PROVE  /\ Effect("DeleteAll", r, b) = NoSpec
         /\ b \in Behavior => Effect("Add", r, b) = ROSpec(b, "Disabled")
         /\ \A cmd \in {"Enable", "Start", "Disable", "Stop"} :
              Legal(cmd, r) =>
                 /\ r # NoSpec
                 /\ Effect(cmd, r, b) \in ROSpecs \ {NoSpec}
                 /\ Effect(cmd, r, b).behavior = r.behavior
                 /\ cmd \in {"Enable", "Start"} =>
                       Effect(cmd, r, b).state \in {"Inactive", "Active"}
                 /\ cmd = "Disable" => Effect(cmd, r, b).state = "Disabled"
<1>1. ASSUME NEW cmd \in {"Enable", "Start", "Disable", "Stop"}, Legal(cmd, r)
      PROVE  /\ r # NoSpec
             /\ Effect(cmd, r, b) \in ROSpecs \ {NoSpec}
             /\ Effect(cmd, r, b).behavior = r.behavior
             /\ cmd \in {"Enable", "Start"} =>
                   Effect(cmd, r, b).state \in {"Inactive", "Active"}
             /\ cmd = "Disable" => Effect(cmd, r, b).state = "Disabled"
  <2>1. r # NoSpec
    BY <1>1, ROSpecTypes DEF Legal
  <2> DEFINE R(s) == ROSpec(r.behavior, s)
  <2>2. /\ r.behavior \in Behavior /\ r.state \in {"Disabled", "Inactive", "Active"}
        /\ \A s \in {"Disabled", "Inactive", "Active"} :
             /\ [r EXCEPT !.state = s] = R(s)
             /\ R(s) \in ROSpecs \ {NoSpec} /\ R(s).behavior = r.behavior /\ R(s).state = s
    BY <2>1, ROSpecTypes
  <2> HIDE DEF R
  <2>3. CASE cmd = "Enable"
    BY <2>1, <2>2, <2>3 DEF Effect
  <2>4. CASE cmd = "Disable"
    BY <2>1, <2>2, <2>4 DEF Effect
  <2>5. CASE cmd = "Start"
    BY <2>1, <2>2, <2>5 DEF Effect
  <2>6. CASE cmd = "Stop"
    BY <2>1, <2>2, <2>6 DEF Effect
  <2> QED BY <1>1, <2>3, <2>4, <2>5, <2>6
<1>2. Effect("DeleteAll", r, b) = NoSpec /\ (b \in Behavior => Effect("Add", r, b) = ROSpec(b, "Disabled"))
  BY DEF Effect
<1> QED BY <1>1, <1>2
-----------------------------------------------------------------------------
(* Types, and what each goroutine is at. *)

Fits(l) == l \in Local /\ Consistent(l)

LEMMA ReturnedFits == Fits(Returned)
<1>1. Send({}, <<>>) \in [Device -> Commands] /\ \A d \in Device : Send({}, <<>>)[d] = <<>>
  BY SendType, CommandTypes
<1>2. 0 \in 0..MaxTries-1
  BY ReaderGroupAssumption
<1>3. Returned \in Local
  BY <1>1, <1>2 DEF Returned, Local, Op, Pc
<1>4. Consistent(Returned)
  BY <1>1 DEF Returned, Consistent, Remaining
<1> QED BY <1>3, <1>4 DEF Fits

\* No command is to be sent where none is sent.
LEMMA NothingToSend ==
  ASSUME NEW l, Fits(l), ~(l.pc \in {"Replace", "Loop"})
  PROVE  \A d \in Device : l.chain[d] = <<>>
BY DEF Fits, Consistent, Remaining

\* An operation goes to another of its points.
LEMMA GotoFits ==
  ASSUME NEW l, Fits(l), \A d \in Device : l.chain[d] = <<>>,
         NEW pc \in {"Extend", "Config", "RLock", "RLocked", "Lock", "Locked"},
         pc \in {"Extend", "Config"} => l.op = "AddReader",
         pc \in {"RLock", "RLocked"} => l.op \in {"AddReader", "StartAll", "StopAll", "Look"},
         pc \in {"Lock", "Locked"} => l.op \in {"AddReader", "RemoveReader", "SetBehavior"},
         l.op = "AddReader" /\ pc \in {"Lock", "Locked"} => l.b \in Behavior,
         l.op # "None"
  PROVE  Fits([l EXCEPT !.pc = pc])
<1> DEFINE m == [l EXCEPT !.pc = pc]
<1>1. /\ m \in Local /\ m.pc = pc /\ m.op = l.op /\ m.dev = l.dev /\ m.b = l.b
      /\ m.chain = l.chain
  BY DEF Fits, Local, Pc
<1> HIDE DEF m
<1>2. Consistent(m)
  BY <1>1 DEF Fits, Consistent, Remaining
<1> QED BY <1>1, <1>2 DEF Fits, m

\* A command is over.
LEMMA SentFits ==
  ASSUME NEW l, Fits(l), NEW d \in Device, NEW rest \in Commands, NEW failed \in SUBSET Device,
         rest = <<>> \/ /\ l.chain[d] # <<>>
                        /\ l.chain[d] \in ReplaceCommands => rest \in ReplaceCommands
                        /\ l.chain[d] \in StartCommands => rest \in StartCommands
                        /\ l.chain[d] \in StopCommands => rest \in StopCommands
  PROVE  Fits([l EXCEPT !.chain = [@ EXCEPT ![d] = rest], !.failed = failed])
<1> DEFINE c == [l.chain EXCEPT ![d] = rest]
           m == [l EXCEPT !.chain = c, !.failed = failed]
<1>1. c \in [Device -> Commands] /\ \A e \in Device : c[e] = IF e = d THEN rest ELSE l.chain[e]
  BY DEF Fits, Local
<1> HIDE DEF c
<1>2. /\ m \in Local /\ m.pc = l.pc /\ m.op = l.op /\ m.dev = l.dev /\ m.b = l.b
      /\ m.chain = c /\ m.todo = l.todo
  BY <1>1 DEF Fits, Local
<1> HIDE DEF m
<1>3. Remaining(l, d)
  BY DEF Fits, Consistent
<1>4. Remaining(m, d)
  BY <1>1, <1>2, <1>3 DEF Remaining
<1>5. Consistent(m)
  BY <1>1, <1>2, <1>4 DEF Fits, Consistent, Remaining
<1> QED BY <1>2, <1>5 DEF Fits, m, c

\* Commands are to be sent.
LEMMA SendFits ==
  ASSUME NEW l, Fits(l), NEW m \in Local, NEW S, NEW c \in Commands,
         m.op = l.op, m.dev = l.dev, m.chain = Send(S, c),
         \/ /\ m.pc = "Replace" /\ m.b \in Behavior /\ c \in ReplaceCommands
            /\ \/ m.op = "AddReader" /\ S = {m.dev}
               \/ m.op = "SetBehavior" /\ S = m.todo
         \/ /\ m.pc = "Loop" /\ l.pc = "Loop"
            /\ \/ m.op = "StartAll" /\ c \in StartCommands
               \/ m.op = "StopAll" /\ c \in StopCommands
  PROVE  Fits(m)
<1>1. \A d \in Device : m.chain[d] = IF d \in S THEN c ELSE <<>>
  BY SendType
<1>2. Consistent(m)
  BY <1>1 DEF Fits, Consistent, Remaining
<1> QED BY <1>2 DEF Fits

\* Step by step: a goroutine goes from where it may be to where it may be.
Local1 == local \in [Thread -> Local] /\ Consistency

LEMMA BecomeFits ==
  ASSUME Local1, NEW t \in Thread, NEW l, Fits(l), Become(t, l)
  PROVE  Local1'
BY DEF Local1, Consistency, Fits, Become

LEMMA FitsNow ==
  ASSUME Local1, NEW t \in Thread
  PROVE  Fits(local[t])
BY DEF Local1, Consistency, Fits

LEMMA BeginFits ==
  ASSUME Local1, NEW t \in Thread, NEW op, NEW pc, NEW d, NEW b, Begin(t, op, pc, d, b),
         \/ op = "AddReader" /\ pc = "Query" /\ d \in Device /\ b = Nobody
         \/ op = "RemoveReader" /\ pc = "Lock" /\ d \in Device /\ b = Nobody
         \/ op = "SetBehavior" /\ pc = "Lock" /\ d = Nobody /\ b \in Behavior
         \/ op \in {"StartAll", "StopAll", "Look"} /\ pc = "RLock" /\ d = Nobody /\ b = Nobody
  PROVE  Local1'
<1> DEFINE m == [Returned EXCEPT !.op = op, !.pc = pc, !.dev = d, !.b = b]
<1>1. /\ m \in Local /\ m.pc = pc /\ m.op = op /\ m.dev = d /\ m.b = b
      /\ m.chain = Returned.chain
  BY ReturnedFits DEF Fits, Local, Op, Pc
<1>2. \A e \in Device : m.chain[e] = <<>>
  BY <1>1, ReturnedFits, NothingToSend DEF Returned
<1> HIDE DEF m
<1>3. Fits(m)
  BY <1>1, <1>2 DEF Fits, Consistent, Remaining
<1> QED BY <1>3, BecomeFits DEF Begin, m

LEMMA StartsFit ==
  ASSUME Local1, NEW t \in Thread, Starts(t)
  PROVE  Local1'
BY BeginFits DEF Starts, Call, CallAddReader, CallRemoveReader, CallSetBehavior, CallAll, CallLook

LEMMA FailFits ==
  ASSUME Local1, NEW t \in Thread, Become(t, Returned)
  PROVE  Local1'
BY ReturnedFits, BecomeFits

LEMMA GotoStep ==
  ASSUME Local1, NEW t \in Thread, ~(local[t].pc \in {"Replace", "Loop"}) \/ ReplaceDone(t),
         NEW pc \in {"Extend", "Config", "RLock", "RLocked", "Lock", "Locked"}, Goto(t, pc),
         pc \in {"Extend", "Config"} => local[t].op = "AddReader",
         pc \in {"RLock", "RLocked"} => local[t].op \in {"AddReader", "StartAll", "StopAll", "Look"},
         pc \in {"Lock", "Locked"} => local[t].op \in {"AddReader", "RemoveReader", "SetBehavior"},
         local[t].op = "AddReader" /\ pc \in {"Lock", "Locked"} => local[t].b \in Behavior,
         local[t].op # "None"
  PROVE  Local1'
<1>1. \A d \in Device : local[t].chain[d] = <<>>
  BY FitsNow, NothingToSend DEF ReplaceDone, Talking
<1> QED BY <1>1, FitsNow, GotoFits, BecomeFits DEF Goto

LEMMA ContinuesFits ==
  ASSUME TypeOK, Consistency, NEW t \in Thread, Continues(t)
  PROVE  Local1'
<1> DEFINE l == local[t]
<1>0. /\ Local1 /\ Fits(l) /\ l \in Local /\ Consistent(l)
      /\ Become(t, Returned) => Local1'
  BY FitsNow, FailFits DEF TypeOK, Local1, Consistency
<1> USE <1>0
<1>1. CASE GetCapabilities(t)
  <2>1. CASE Answers(t, l.dev)
    BY <1>1, <2>1, GotoStep DEF GetCapabilities, At, Answers, Fail
  <2>2. CASE AskedInVain(t, l.dev, l.tries + 1, l.tries + 1)
    <3> DEFINE m == [l EXCEPT !.tries = l.tries + 1]
    <3>1. CASE l.tries + 1 < MaxTries
      <4>1. /\ m \in Local /\ m.pc = l.pc /\ m.op = l.op /\ m.dev = l.dev /\ m.b = l.b
            /\ m.chain = l.chain /\ m.todo = l.todo
        BY <3>1, ReaderGroupAssumption DEF Local
      <4> HIDE DEF m
      <4>2. Fits(m)
        BY <4>1 DEF Fits, Consistent, Remaining
      <4> QED BY <4>2, <2>2, <3>1, BecomeFits DEF AskedInVain, m
    <3> QED BY <2>2, <3>1 DEF AskedInVain
  <2> QED BY <1>1, <2>1, <2>2 DEF GetCapabilities
<1>2. CASE EnableCustomExt(t)
  BY <1>2, GotoStep DEF EnableCustomExt, At, Fail
<1>3. CASE SetConfig(t)
  BY <1>3, GotoStep DEF SetConfig, At, Fail
<1>4. CASE WantRead(t) \/ WantWrite(t)
  BY <1>4, GotoStep DEF WantRead, WantWrite, Consistent
<1>5. CASE CopyBehavior(t)
  <2>1. CASE Become(t, [l EXCEPT !.pc = "Replace", !.b = behavior,
                                 !.chain = Send({l.dev}, ReplaceRO)])
    <3> DEFINE s == Send({l.dev}, ReplaceRO)
               m == [l EXCEPT !.pc = "Replace", !.b = behavior, !.chain = s]
    <3>1. s \in [Device -> Commands] /\ ReplaceRO \in Commands /\ ReplaceRO \in ReplaceCommands
      BY SendType, CommandTypes
    <3> HIDE DEF s
    <3>2. /\ m \in Local /\ m.pc = "Replace" /\ m.op = l.op /\ m.dev = l.dev /\ m.b = behavior
          /\ m.chain = s
      BY <3>1 DEF Local, Pc, TypeOK
    <3> HIDE DEF m
    <3>3. Fits(m)
      BY <1>5, <3>1, <3>2, SendFits DEF CopyBehavior, At, TypeOK, s
    <3> QED BY <2>1, <3>3, BecomeFits DEF m, s
  <2> QED BY <1>5, <2>1 DEF CopyBehavior, Fail
<1>6. ASSUME NEW d \in Device, ReplaceStep(t, d) \/ CommandOfAll(t, d) PROVE Local1'
  <2> DEFINE c == l.chain[d]
  <2>1. /\ c \in Commands /\ c # <<>> /\ Remaining(l, d)
    BY <1>6 DEF ReplaceStep, CommandOfAll, Local, Consistent
  <2>2. PICK ok \in BOOLEAN, rest \in {Tail(c), <<>>} : Sent(t, d, rest, ok)
    BY <1>6 DEF ReplaceStep, CommandOfAll
  <2>3. /\ rest \in Commands
        /\ rest = <<>> \/ /\ c \in ReplaceCommands => rest \in ReplaceCommands
                          /\ c \in StartCommands => rest \in StartCommands
                          /\ c \in StopCommands => rest \in StopCommands
    BY <2>1, <2>2, ReplaceLeft, StartLeft, StopLeft, CommandTypes
  <2> DEFINE f == IF ok THEN l.failed ELSE l.failed \cup {d}
  <2>4. f \in SUBSET Device
    BY DEF Local
  <2>5. Become(t, [l EXCEPT !.chain = [@ EXCEPT ![d] = rest], !.failed = f])
    BY <2>2 DEF Sent
  <2> HIDE DEF f
  <2> QED BY <2>1, <2>3, <2>4, <2>5, SentFits, BecomeFits
<1>7. CASE WantInsert(t)
  BY <1>7, GotoStep DEF WantInsert, Fail, Consistent, ReplaceDone
<1>8. CASE Insert(t) \/ Remove(t) \/ FinishSetBehavior(t) \/ FinishAll(t) \/ FinishLook(t)
  BY <1>8 DEF Insert, Remove, FinishSetBehavior, FinishAll, FinishLook
<1>9. CASE Accept(t)
  <2>1. CASE Become(t, [l EXCEPT !.pc = "Replace", !.todo = group, !.chain = Send(group, ReplaceRO)])
    <3> DEFINE s == Send(group, ReplaceRO)
               m == [l EXCEPT !.pc = "Replace", !.todo = group, !.chain = s]
    <3>1. s \in [Device -> Commands] /\ ReplaceRO \in Commands /\ ReplaceRO \in ReplaceCommands
      BY SendType, CommandTypes
    <3> HIDE DEF s
    <3>2. /\ m \in Local /\ m.pc = "Replace" /\ m.op = l.op /\ m.dev = l.dev /\ m.b = l.b
          /\ m.chain = s /\ m.todo = group
      BY <3>1 DEF Local, Pc, TypeOK
    <3> HIDE DEF m
    <3>3. Fits(m)
      BY <1>9, <3>1, <3>2, SendFits DEF Accept, At, Consistent, s
    <3> QED BY <2>1, <3>3, BecomeFits DEF m, s
  <2> QED BY <1>9, <2>1 DEF Accept
<1>10. CASE EnterAll(t)
  <2> DEFINE m == [l EXCEPT !.pc = "Loop", !.todo = group]
  <2>1. /\ m \in Local /\ m.pc = "Loop" /\ m.op = l.op /\ m.dev = l.dev /\ m.b = l.b
        /\ m.chain = l.chain
    BY DEF Local, Pc, TypeOK
  <2>2. \A d \in Device : l.chain[d] = <<>>
    BY <1>10, NothingToSend DEF EnterAll
  <2> HIDE DEF m
  <2>3. Fits(m)
    BY <1>10, <2>1, <2>2 DEF Fits, Consistent, Remaining, EnterAll
  <2> QED BY <1>10, <2>3, BecomeFits DEF EnterAll, m
<1>11. ASSUME NEW d \in Device, NextOfAll(t, d) PROVE Local1'
  <2> DEFINE c == CommandsOfAll(l.op)
             s == Send({d}, c)
             m == [l EXCEPT !.todo = @ \ {d}, !.chain = s]
  <2>1. /\ \/ l.op = "StartAll" /\ c \in StartCommands
           \/ l.op = "StopAll" /\ c \in StopCommands
        /\ c \in Commands
    <3>1. l.op = "StartAll" => c \in StartCommands
      BY Zenon DEF CommandsOfAll, StartCommands
    <3>2. l.op = "StopAll" => c \in StopCommands
      BY Zenon DEF CommandsOfAll, StopCommands
    <3> HIDE DEF c
    <3>3. l.op \in {"StartAll", "StopAll"}
      BY <1>11 DEF NextOfAll, Consistent
    <3>4. c \in StartCommands \cup StopCommands => c \in Commands
      BY CommandTypes, Zenon
    <3> QED BY <3>1, <3>2, <3>3, <3>4
  <2>2. s \in [Device -> Commands]
    BY <2>1, SendType
  <2> HIDE DEF s, c
  <2>3. /\ m \in Local /\ m.pc = l.pc /\ m.op = l.op /\ m.dev = l.dev /\ m.b = l.b
        /\ m.chain = s
    BY <2>2 DEF Local
  <2> HIDE DEF m
  <2>4. Fits(m)
    BY <1>11, <2>1, <2>3, SendFits DEF NextOfAll, s
  <2> QED BY <1>11, <2>4, BecomeFits DEF NextOfAll, m, s, c
<1> QED BY <1>1, <1>2, <1>3, <1>4, <1>5, <1>6, <1>7, <1>8, <1>9, <1>10, <1>11 DEF Continues
-----------------------------------------------------------------------------
(* What commands do to the readers. *)

\* replaceRO: the reader holds what it held, nothing, or the new ROSpec, and
\* the new one if no command failed.
LEMMA ReplaceStepDoes ==
  ASSUME TypeOK, Consistency, NEW t \in Thread, NEW d \in Device, ReplaceStep(t, d)
  PROVE  /\ device' \in [Device -> ROSpecs]
         /\ \A e \in Device \ {d} : device'[e] = device[e]
         /\ device'[d] \in {device[d], NoSpec, ROSpec(local[t].b, "Disabled")}
         /\ local[t].b \in Behavior
         /\ \A e \in Device \ {d} : local'[t].chain[e] = local[t].chain[e]
         /\ local'[t].chain[d] = <<>> =>
              \/ d \in suspect'
              \/ /\ device'[d] = ROSpec(local[t].b, "Disabled")
                 /\ suspect' = IF local[t].b = behavior THEN suspect \ {d} ELSE suspect
         /\ suspect' \in {suspect, suspect \cup {d}, suspect \ {d}}
         /\ d \in suspect \ suspect' => local'[t].chain[d] = <<>>
<1> DEFINE l == local[t]
           c == l.chain[d]
<1>1. l \in Local /\ Consistent(l) /\ Remaining(l, d)
  BY DEF TypeOK, Consistency, Consistent
<1>2. l.pc = "Replace" /\ l.b \in Behavior /\ c \in ReplaceCommands
  BY <1>1 DEF ReplaceStep, Consistent, Remaining
<1>3. \/ Head(c) = "DeleteAll" /\ Tail(c) \in ReplaceCommands /\ Tail(c) # <<>>
      \/ Head(c) = "Add" /\ Tail(c) = <<>>
  BY <1>2, ReplaceLeft
<1>4. PICK ok \in BOOLEAN :
        /\ Command(Head(c), d, l.b, ok)
        /\ Sent(t, d, IF ok THEN Tail(c) ELSE <<>>, ok)
        /\ suspect' = IF ~ok THEN suspect \cup {d}
                      ELSE IF Tail(c) = <<>> /\ l.b = behavior
                           THEN suspect \ {d} ELSE suspect
  BY DEF ReplaceStep
<1>5. device[d] \in ROSpecs /\ NoSpec \in ROSpecs /\ ROSpec(l.b, "Disabled") \in ROSpecs
  BY <1>2, ROSpecTypes DEF TypeOK
<1>6. /\ Effect("DeleteAll", device[d], l.b) = NoSpec
      /\ Effect("Add", device[d], l.b) = ROSpec(l.b, "Disabled")
  BY <1>2, <1>5, EffectTypes
<1> DEFINE e == Effect(Head(c), device[d], l.b)
<1>7. e \in {NoSpec, ROSpec(l.b, "Disabled")} /\ (Tail(c) = <<>> => e = ROSpec(l.b, "Disabled"))
  BY <1>3, <1>6
<1>8. \/ device' = [device EXCEPT ![d] = e]
      \/ ~ok /\ device' = device
  BY <1>4 DEF Command
<1>9. /\ local'[t].chain[d] = IF ok THEN Tail(c) ELSE <<>>
      /\ \A x \in Device \ {d} : local'[t].chain[x] = l.chain[x]
  BY <1>1, <1>4 DEF Sent, Become, TypeOK, Local
<1> HIDE DEF e
<1>10. /\ device' \in [Device -> ROSpecs]
       /\ \A x \in Device \ {d} : device'[x] = device[x]
       /\ device'[d] \in {device[d], e} /\ (ok => device'[d] = e)
  BY <1>5, <1>7, <1>8 DEF TypeOK
<1> HIDE DEF c
<1> QED BY <1>2, <1>3, <1>4, <1>7, <1>9, <1>10 DEF c

\* StartAll and StopAll: the reader keeps its ROSpec, and is as it was asked
\* to be once the last command has succeeded.
LEMMA CommandOfAllDoes ==
  ASSUME TypeOK, Consistency, NEW t \in Thread, NEW d \in Device, CommandOfAll(t, d)
  PROVE  /\ device' \in [Device -> ROSpecs]
         /\ \A e \in Device \ {d} : device'[e] = device[e]
         /\ device[d] = NoSpec => device'[d] = NoSpec
         /\ device[d] # NoSpec => device'[d] # NoSpec /\ device'[d].behavior = device[d].behavior
         /\ \A e \in Device : local'[t].chain[e] # <<>> => local[t].chain[e] # <<>>
         /\ \/ promised' = promised
            \/ /\ local[t].op = "StartAll" /\ promised' = [promised EXCEPT ![d] = "Started"]
               /\ device'[d].state \in {"Inactive", "Active"}
               /\ local'[t].chain[d] = <<>> /\ ~Contended(t, d)
            \/ /\ local[t].op = "StopAll" /\ promised' = [promised EXCEPT ![d] = "Stopped"]
               /\ device'[d].state = "Disabled"
               /\ local'[t].chain[d] = <<>> /\ ~Contended(t, d)
<1> DEFINE l == local[t]
           c == l.chain[d]
<1>1. l \in Local /\ Consistent(l) /\ Remaining(l, d)
  BY DEF TypeOK, Consistency, Consistent
<1>2. /\ l.pc = "Loop"
      /\ \/ l.op = "StartAll" /\ c \in StartCommands
         \/ l.op = "StopAll" /\ c \in StopCommands
  BY <1>1 DEF CommandOfAll, Remaining
<1>3. /\ Head(c) \in {"Enable", "Start", "Disable", "Stop"}
      /\ Tail(c) = <<>> => \/ l.op = "StartAll" /\ Head(c) \in {"Enable", "Start"}
                           \/ l.op = "StopAll" /\ Head(c) = "Disable"
  <2>1. CASE l.op = "StartAll" /\ c \in StartCommands
    BY <2>1, StartLeft
  <2>2. CASE l.op = "StopAll" /\ c \in StopCommands
    <3>1. Tail(c) \in StopCommands => Tail(c) # <<>>
      BY StopLeft
    <3> QED BY <2>2, <3>1, StopLeft
  <2> QED BY <1>2, <2>1, <2>2
<1>4. PICK ok \in BOOLEAN :
        /\ Command(Head(c), d, Nobody, ok)
        /\ Sent(t, d, Tail(c), ok)
        /\ promised' = IF Tail(c) = <<>> /\ ok /\ d \notin l.failed /\ ~Contended(t, d)
                       THEN [promised EXCEPT ![d] = IF l.op = "StartAll"
                                                    THEN "Started" ELSE "Stopped"]
                       ELSE promised
  BY DEF CommandOfAll
<1> DEFINE e == Effect(Head(c), device[d], Nobody)
<1>5. Legal(Head(c), device[d]) =>
        /\ device[d] # NoSpec /\ e \in ROSpecs \ {NoSpec} /\ e.behavior = device[d].behavior
        /\ Head(c) \in {"Enable", "Start"} => e.state \in {"Inactive", "Active"}
        /\ Head(c) = "Disable" => e.state = "Disabled"
  BY <1>3, EffectTypes DEF TypeOK
<1>6. \/ Legal(Head(c), device[d]) /\ device' = [device EXCEPT ![d] = e]
      \/ ~ok /\ device' = device
  BY <1>4 DEF Command
<1>7. /\ local'[t].chain[d] = Tail(c)
      /\ \A x \in Device \ {d} : local'[t].chain[x] = l.chain[x]
      /\ c # <<>>
  BY <1>1, <1>4 DEF Sent, Become, TypeOK, Local, CommandOfAll
<1> HIDE DEF e
<1>8. /\ device' \in [Device -> ROSpecs]
      /\ \A x \in Device \ {d} : device'[x] = device[x]
      /\ \/ Legal(Head(c), device[d]) /\ device'[d] = e
         \/ ~ok /\ device'[d] = device[d]
  BY <1>5, <1>6 DEF TypeOK
<1> HIDE DEF c
<1> QED BY <1>2, <1>3, <1>4, <1>5, <1>7, <1>8 DEF c
-----------------------------------------------------------------------------
(* Every step keeps the types. *)

LEMMA TurnedROSpec ==
  ASSUME NEW r \in ROSpecs \ {NoSpec}, NEW s \in {"Inactive", "Active"}
  PROVE  /\ [r EXCEPT !.state = s] \in ROSpecs \ {NoSpec}
         /\ [r EXCEPT !.state = s].state = s
         /\ [r EXCEPT !.state = s].behavior = r.behavior
<1>1. [r EXCEPT !.state = s] = ROSpec(r.behavior, s) /\ r.behavior \in Behavior
  BY ROSpecTypes
<1> QED BY <1>1, ROSpecTypes

\* On its own a reader only starts or stops.
LEMMA TurnDoes ==
  ASSUME TypeOK, NEW d \in Device, Trigger(d) \/ Expire(d)
  PROVE  /\ device' \in [Device -> ROSpecs]
         /\ \A e \in Device \ {d} : device'[e] = device[e]
         /\ device[d].state \in {"Inactive", "Active"}
         /\ device'[d].state \in {"Inactive", "Active"}
         /\ device[d] # NoSpec /\ device'[d] # NoSpec
         /\ device'[d].behavior = device[d].behavior
<1>1. device[d].state \in {"Inactive", "Active"}
  BY DEF Trigger, Expire
<1>2. device[d] \in ROSpecs \ {NoSpec}
  BY <1>1, ROSpecTypes DEF TypeOK
<1>3. PICK s \in {"Inactive", "Active"} : Turn(d, s)
  BY DEF Trigger, Expire
<1> DEFINE r == [device[d] EXCEPT !.state = s]
<1>4. device' = [device EXCEPT ![d] = r]
  BY <1>3 DEF Turn
<1>5. r \in ROSpecs \ {NoSpec} /\ r.state = s /\ r.behavior = device[d].behavior
  BY <1>2, TurnedROSpec
<1> HIDE DEF r
<1>6. \A e \in Device \ {d} : device'[e] = device[e]
  BY <1>4 DEF TypeOK
<1>8. device' \in [Device -> ROSpecs]
  BY <1>4, <1>5 DEF TypeOK
<1>9. device'[d] = r
  BY <1>4 DEF TypeOK
<1> QED BY <1>1, <1>2, <1>5, <1>6, <1>8, <1>9

MuType == mu \in [writer : Thread \cup {Nobody}, readers : SUBSET Thread, queue : SUBSET Thread]

LEMMA MuStep ==
  ASSUME TypeOK, NEW t \in Thread, Starts(t) \/ Continues(t)
  PROVE  MuType'
<1>1. MuType
  BY DEF MuType, TypeOK
<1>2. Announce(t) => MuType'
  BY <1>1 DEF MuType, Announce
<1>3. Unlock => MuType'
  BY <1>1 DEF MuType, Unlock
<1>4. RLock(t) \/ RUnlock(t) => MuType'
  BY <1>1 DEF MuType, RLock, RUnlock
<1>5. UNCHANGED mu => MuType'
  BY <1>1 DEF MuType
<1>6. UNCHANGED mu \/ Announce(t) \/ Unlock \/ RLock(t) \/ RUnlock(t)
  BY DEF Starts, Call, CallAddReader, CallRemoveReader, CallSetBehavior, CallAll, CallLook, Begin,
         Continues, GetCapabilities, EnableCustomExt, SetConfig, WantRead, CopyBehavior,
         ReplaceStep, WantInsert, WantWrite, Insert, Remove, Accept, FinishSetBehavior, EnterAll,
         NextOfAll, CommandOfAll, FinishAll, FinishLook
<1> QED BY <1>2, <1>3, <1>4, <1>5, <1>6

\* The variables but for the mutex, the readers and the goroutines.
RestType ==
  /\ group \subseteq Device
  /\ behavior \in Behavior
  /\ lag \in [Device -> Nat]
  /\ ops \in 0..MaxOps /\ resets \in 0..MaxResets
  /\ suspect \subseteq Device
  /\ promised \in [Device -> {"Nothing", "Started", "Stopped"}]
  /\ wanted \in [Device -> {"In", "Out", "Unsure"}]

LEMMA PassDoes ==
  ASSUME lag \in [Device -> Nat], NEW n \in Nat, Pass(n)
  PROVE  /\ lag' \in [Device -> Nat]
         /\ \A d \in Device : /\ lag'[d] <= lag[d]
                              /\ lag[d] > n => lag'[d] = lag[d] - n
                              /\ lag[d] <= n => lag'[d] = 0
BY DEF Pass

LEMMA DevOf ==
  ASSUME TypeOK, Consistency, NEW t \in Thread, local[t].op \in {"AddReader", "RemoveReader"}
  PROVE  local[t].dev \in Device
BY DEF TypeOK, Consistency, Consistent

LEMMA RestStep ==
  ASSUME TypeOK, Consistency, [Next]_vars
  PROVE  RestType'
<1>0. RestType
  BY DEF TypeOK, RestType
<1> USE <1>0, ReaderGroupAssumption
<1>1. ASSUME NEW t \in Thread, Starts(t) PROVE RestType'
  <2>1. ops' = ops \/ (ops < MaxOps /\ ops' = ops + 1)
    BY <1>1 DEF Starts, Call, CallAddReader, CallRemoveReader, CallSetBehavior, CallAll, CallLook
  <2>2. UNCHANGED <<group, behavior, lag, resets, suspect, promised>>
    BY <1>1 DEF Starts, Call, CallAddReader, CallRemoveReader, CallSetBehavior, CallAll, CallLook,
                Begin
  <2>3. wanted' \in [Device -> {"In", "Out", "Unsure"}]
    <3>1. \/ wanted' = wanted
          \/ \E d \in Device, w \in {"In", "Out", "Unsure"} : Want(d, w)
      BY <1>1 DEF Starts, CallAddReader, CallRemoveReader, CallSetBehavior, CallAll, CallLook, WantIn
    <3> QED BY <3>1 DEF Want, RestType
  <2> QED BY <2>1, <2>2, <2>3 DEF RestType
<1>2. ASSUME NEW t \in Thread, Continues(t) PROVE RestType'
  <2> DEFINE d == local[t].dev
  <2>0. ASSUME Fail(t), d \in Device
        PROVE  suspect' \subseteq Device /\ wanted' \in [Device -> {"In", "Out", "Unsure"}]
    BY <2>0 DEF Fail, RestType
  <2>1. CASE GetCapabilities(t)
    <3>1. d \in Device
      BY <2>1, DevOf DEF GetCapabilities, At
    <3>2. CASE Answers(t, d)
      BY <2>0, <2>1, <3>1, <3>2 DEF GetCapabilities, Answers, RestType
    <3>3. CASE AskedInVain(t, d, local[t].tries + 1, local[t].tries + 1)
      <4>1. local[t].tries + 1 \in Nat
        BY DEF TypeOK, Local
      <4>2. lag' \in [Device -> Nat]
        BY <3>3, <4>1, PassDoes DEF AskedInVain, RestType
      <4> QED BY <2>1, <3>3, <4>2 DEF GetCapabilities, AskedInVain, RestType
    <3> QED BY <2>1, <3>2, <3>3 DEF GetCapabilities
  <2>2. CASE EnableCustomExt(t) \/ WantInsert(t) \/ CopyBehavior(t)
    BY <2>0, <2>2, DevOf DEF EnableCustomExt, WantInsert, CopyBehavior, At, RestType
  <2>3. CASE SetConfig(t)
    BY <2>0, <2>3, DevOf DEF SetConfig, At, RestType
  <2>4. CASE WantRead(t) \/ WantWrite(t) \/ FinishSetBehavior(t) \/ EnterAll(t)
             \/ FinishAll(t) \/ FinishLook(t)
    BY <2>4 DEF WantRead, WantWrite, FinishSetBehavior, EnterAll, FinishAll, FinishLook, Private,
                RestType
  <2>5. ASSUME NEW e \in Device, ReplaceStep(t, e) PROVE RestType'
    <3>1. suspect' \in {suspect, suspect \cup {e}, suspect \ {e}}
      BY <2>5, ReplaceStepDoes
    <3>2. suspect' \subseteq Device
      BY <3>1 DEF RestType
    <3> QED BY <2>5, <3>2 DEF ReplaceStep, RestType
  <2>6. CASE Insert(t) \/ Remove(t)
    BY <2>6, DevOf DEF Insert, Remove, At, RestType
  <2>7. CASE Accept(t)
    <3>1. local[t].b \in Behavior
      BY <2>7 DEF Accept, At, Consistency, Consistent
    <3>2. suspect' \subseteq Device
      BY <2>7 DEF Accept, Joining, RestType
    <3> QED BY <2>7, <3>1, <3>2 DEF Accept, RestType
  <2>8. ASSUME NEW e \in Device, NextOfAll(t, e) \/ CommandOfAll(t, e) PROVE RestType'
    <3>1. promised' \in [Device -> {"Nothing", "Started", "Stopped"}]
      BY <2>8, CommandOfAllDoes DEF NextOfAll, RestType
    <3> QED BY <2>8, <3>1 DEF NextOfAll, CommandOfAll, RestType
  <2> QED BY <1>2, <2>1, <2>2, <2>3, <2>4, <2>5, <2>6, <2>7, <2>8 DEF Continues
<1>3. ASSUME NEW d \in Device, Trigger(d) \/ Expire(d) PROVE RestType'
  BY <1>3 DEF Trigger, Expire, RestType
<1>4. ASSUME NEW d \in Device, Reset(d) PROVE RestType'
  <2>1. lag' \in [Device -> Nat]
    BY <1>4 DEF Reset, RestType
  <2> QED BY <1>4, <2>1 DEF Reset, RestType
<1>5. CASE UNCHANGED vars
  BY <1>5 DEF vars, RestType
<1> QED BY <1>1, <1>2, <1>3, <1>4, <1>5 DEF Next, Over

LEMMA DeviceStep ==
  ASSUME TypeOK, Consistency, [Next]_vars
  PROVE  device' \in [Device -> ROSpecs]
<1>1. ASSUME NEW t \in Thread, Starts(t) PROVE device' = device
  BY <1>1 DEF Starts, Call, CallAddReader, CallRemoveReader, CallSetBehavior, CallAll, CallLook,
              Begin
<1>2. ASSUME NEW t \in Thread, Continues(t) PROVE device' \in [Device -> ROSpecs]
  <2>1. CASE SetConfig(t)
    BY <2>1, ROSpecTypes DEF SetConfig, TypeOK
  <2>2. ASSUME NEW d \in Device, ReplaceStep(t, d) \/ CommandOfAll(t, d)
        PROVE  device' \in [Device -> ROSpecs]
    BY <2>2, ReplaceStepDoes, CommandOfAllDoes
  <2>3. CASE device' = device
    BY <2>3 DEF TypeOK
  <2> QED BY <1>2, <2>1, <2>2, <2>3 DEF Continues, GetCapabilities, EnableCustomExt, WantRead,
         CopyBehavior, WantInsert, WantWrite, Insert, Remove, Accept, FinishSetBehavior, EnterAll,
         NextOfAll, FinishAll, FinishLook, Private
<1>3. ASSUME NEW d \in Device, Trigger(d) \/ Expire(d) PROVE device' \in [Device -> ROSpecs]
  BY <1>3, TurnDoes
<1>4. ASSUME NEW d \in Device, Reset(d) PROVE device' \in [Device -> ROSpecs]
  BY <1>4, ROSpecTypes DEF Reset, TypeOK
<1> QED BY <1>1, <1>2, <1>3, <1>4 DEF Next, Over, vars, TypeOK

LEMMA TypeStep ==
  ASSUME TypeOK, Consistency, [Next]_vars
  PROVE  TypeOK' /\ Consistency'
<1>1. Local1' /\ MuType'
  <2>1. Local1 /\ MuType
    BY DEF TypeOK, Local1, MuType
  <2>2. ASSUME NEW t \in Thread, Starts(t) \/ Continues(t) PROVE Local1' /\ MuType'
    BY <2>1, <2>2, StartsFit, ContinuesFits, MuStep
  <2>3. CASE UNCHANGED <<local, mu>>
    BY <2>1, <2>3 DEF Local1, Consistency, MuType
  <2> QED BY <2>2, <2>3 DEF Next, Over, vars, Trigger, Expire, Reset
<1> QED BY <1>1, RestStep, DeviceStep DEF TypeOK, Local1, MuType, RestType
-----------------------------------------------------------------------------
(* The mutex, and what SetBehavior does under it. *)

\* Every step of the program is one of goroutine t, or none of them moves.
LEMMA OthersStay ==
  ASSUME TypeOK, NEW t \in Thread, Starts(t) \/ Continues(t)
  PROVE  \A u \in Thread \ {t} : local'[u] = local[u]
<1>1. \E l : Become(t, l)
  BY DEF Starts, Call, CallAddReader, CallRemoveReader, CallSetBehavior, CallAll, CallLook, Begin,
         Continues, GetCapabilities, Answers, AskedInVain, EnableCustomExt, SetConfig, WantRead,
         CopyBehavior, ReplaceStep, Sent, WantInsert, WantWrite, Insert, Remove, Accept,
         FinishSetBehavior, EnterAll, NextOfAll, CommandOfAll, FinishAll, FinishLook, Goto, Fail
<1> QED BY <1>1 DEF Become, TypeOK

LEMMA GotoDoes ==
  ASSUME TypeOK, NEW t \in Thread, NEW pc \in Pc, Goto(t, pc)
  PROVE  /\ local'[t].pc = pc
         /\ local'[t].op = local[t].op /\ local'[t].dev = local[t].dev /\ local'[t].b = local[t].b
         /\ local'[t].chain = local[t].chain /\ local'[t].todo = local[t].todo
         /\ local'[t].tries = local[t].tries
BY DEF Goto, Become, TypeOK, Local

LEMMA ReturnDoes ==
  ASSUME TypeOK, NEW t \in Thread, Become(t, Returned)
  PROVE  /\ local'[t].pc = "Idle" /\ local'[t].op = "None"
         /\ \A d \in Device : local'[t].chain[d] = <<>>
<1>1. local'[t] = Returned
  BY DEF Become, TypeOK
<1> QED BY <1>1, ReturnedFits, NothingToSend DEF Returned

LEMMA BeginDoes ==
  ASSUME TypeOK, NEW t \in Thread, NEW op, NEW pc, NEW d, NEW b, Begin(t, op, pc, d, b)
  PROVE  /\ local[t].op = "None"
         /\ local'[t].op = op /\ local'[t].pc = pc /\ local'[t].dev = d /\ local'[t].b = b
         /\ local'[t].tries = 0
         /\ \A e \in Device : local'[t].chain[e] = <<>>
<1>1. local'[t] = [Returned EXCEPT !.op = op, !.pc = pc, !.dev = d, !.b = b]
  BY DEF Begin, Become, TypeOK
<1>2. \A e \in Device : Returned.chain[e] = <<>>
  BY ReturnedFits, NothingToSend DEF Returned
<1> QED BY <1>1, <1>2 DEF Begin, Returned

LEMMA SentDoes ==
  ASSUME TypeOK, NEW t \in Thread, NEW d \in Device, ReplaceStep(t, d) \/ CommandOfAll(t, d)
  PROVE  /\ local'[t].pc = local[t].pc /\ local'[t].op = local[t].op
         /\ local'[t].dev = local[t].dev /\ local'[t].b = local[t].b
         /\ local'[t].todo = local[t].todo
<1>1. PICK ok \in BOOLEAN : \E rest : Sent(t, d, rest, ok)
  BY DEF ReplaceStep, CommandOfAll
<1> QED BY <1>1 DEF Sent, Become, TypeOK, Local

\* What the mutex does not depend on.
LEMMA MutexFrame ==
  ASSUME TypeOK, MutexHeld, UNCHANGED mu, NEW t \in Thread,
         \A u \in Thread \ {t} : local'[u] = local[u],
         \/ local'[t].pc = local[t].pc /\ local'[t].op = local[t].op
         \/ /\ ~Writing(t) /\ local[t].pc \notin {"RLocked", "Loop"}
            /\ local'[t].pc \notin {"RLocked", "Locked", "Loop", "Replace"}
         \/ /\ ~Writing(t) /\ local[t].pc = "RLocked" /\ t \in mu.readers
            /\ local'[t].pc = "Loop"
  PROVE  MutexHeld'
<1>1. \A u \in Thread : Replacing(u)' => Replacing(u)
  BY DEF Replacing, At
<1>2. \A u \in Thread : Writing(u)' = Writing(u)
  BY DEF Writing, Replacing, At
<1> QED BY <1>1, <1>2 DEF MutexHeld, Announced, Outlasted, LoopsRead, ReadersAt, QueueAt, RLockedAt,
                           QueueBehind, TypeOK

LEMMA MutexStep ==
  ASSUME TypeOK, Consistency, MutexHeld, [Next]_vars
  PROVE  MutexHeld'
<1>1. ASSUME NEW t \in Thread, Starts(t) PROVE MutexHeld'
  <2>1. /\ local[t].pc = "Idle" /\ local'[t].pc \in {"Query", "Lock", "RLock"} /\ UNCHANGED mu
        /\ local[t].op = "None"
    <3>1. PICK op, pc, d, b : Begin(t, op, pc, d, b) /\ pc \in {"Query", "Lock", "RLock"}
      BY <1>1 DEF Starts, Call, CallAddReader, CallRemoveReader, CallSetBehavior, CallAll, CallLook
    <3>2. local[t].op = "None" /\ local'[t].pc = pc /\ UNCHANGED mu
      <4>1. local'[t].pc = pc
        BY <3>1, BeginDoes, Zenon
      <4> QED BY <3>1, <4>1 DEF Begin
    <3> QED BY <3>1, <3>2 DEF Consistency, Consistent
  <2> QED BY <1>1, <2>1, OthersStay, MutexFrame DEF Writing, Replacing, At
<1>2. ASSUME NEW t \in Thread, Continues(t) PROVE MutexHeld'
  <2>0. /\ \A u \in Thread \ {t} : local'[u] = local[u]
        /\ Consistent(local[t])
        /\ \A u \in Thread \ {t} : Writing(u)' = Writing(u) /\ Replacing(u)' = Replacing(u)
    BY <1>2, OthersStay DEF Consistency, Writing, Replacing, At
  <2>1. CASE GetCapabilities(t)
    <3>1. local'[t].pc \in {"Query", "Extend", "Config", "Idle"}
      <4>1. CASE Answers(t, local[t].dev)
        BY <4>1, GotoDoes, ReturnDoes DEF Answers, Fail, Pc
      <4>2. CASE \E n : AskedInVain(t, local[t].dev, n, n)
        BY <2>1, <4>2, ReturnDoes DEF AskedInVain, GetCapabilities, At, Become, TypeOK, Local
      <4> QED BY <2>1, <4>1, <4>2 DEF GetCapabilities
    <3> QED BY <2>0, <2>1, <3>1, MutexFrame DEF GetCapabilities, At, Writing, Replacing
  <2>2. CASE EnableCustomExt(t) \/ SetConfig(t)
    <3>1. local'[t].pc \in {"Config", "RLock", "Idle"}
      BY <2>2, GotoDoes, ReturnDoes DEF EnableCustomExt, SetConfig, Fail, Pc
    <3> QED BY <2>0, <2>2, <3>1, MutexFrame DEF EnableCustomExt, SetConfig, At, Writing, Replacing
  <2>3. CASE WantRead(t)
    <3>1. local'[t].pc = "RLocked" /\ ~Writing(t) /\ ~Writing(t)' /\ local[t].pc = "RLock"
      BY <2>3, GotoDoes DEF WantRead, Pc, Writing, Replacing, At
    <3>2. t \notin mu.readers /\ t \notin mu.queue
      BY <3>1 DEF MutexHeld, Announced, Outlasted, LoopsRead, ReadersAt, QueueAt
    <3>3. CASE mu.writer = Nobody
      <4>1. mu' = [mu EXCEPT !.readers = @ \cup {t}]
        BY <2>3, <3>3 DEF WantRead, RLock
      <4>2. mu'.writer = mu.writer /\ mu'.readers = mu.readers \cup {t} /\ mu'.queue = mu.queue
        BY <4>1 DEF TypeOK
      <4>3. \A u \in Thread : ~Writing(u)
        BY <3>3, ReaderGroupAssumption DEF MutexHeld, Announced, Outlasted, LoopsRead, ReadersAt, QueueAt
      <4> QED
        <5>1. Announced'
          BY <2>0, <3>1, <3>2, <4>2, <4>3 DEF MutexHeld, Announced
        <5>2. Outlasted'
          BY <2>0, <3>1, <3>2, <4>2, <4>3 DEF MutexHeld, Outlasted, Writing
        <5>3. LoopsRead'
          BY <2>0, <3>1, <3>2, <4>2, <4>3 DEF MutexHeld, LoopsRead
        <5>4. ReadersAt'
          BY <2>0, <3>1, <3>2, <4>2, <4>3 DEF MutexHeld, ReadersAt
        <5>5. QueueAt'
          BY <2>0, <3>1, <3>2, <4>2, <4>3 DEF MutexHeld, QueueAt
        <5>6. RLockedAt'
          BY <2>0, <3>1, <3>2, <4>2, <4>3 DEF MutexHeld, RLockedAt
        <5>7. QueueBehind'
          BY <2>0, <3>1, <3>2, <4>2, <4>3, ReaderGroupAssumption DEF MutexHeld, QueueBehind
        <5> QED BY <5>1, <5>2, <5>3, <5>4, <5>5, <5>6, <5>7 DEF MutexHeld
    <3>4. CASE mu.writer # Nobody
      <4>1. mu' = [mu EXCEPT !.queue = @ \cup {t}]
        BY <2>3, <3>4 DEF WantRead, RLock
      <4>2. mu'.writer = mu.writer /\ mu'.readers = mu.readers /\ mu'.queue = mu.queue \cup {t}
        BY <4>1 DEF TypeOK
      <4> QED
        <5>1. Announced'
          BY <2>0, <3>1, <3>2, <4>2 DEF MutexHeld, Announced
        <5>2. Outlasted'
          BY <2>0, <3>1, <3>2, <4>2 DEF MutexHeld, Outlasted, Writing
        <5>3. LoopsRead'
          BY <2>0, <3>1, <3>2, <4>2 DEF MutexHeld, LoopsRead
        <5>4. ReadersAt'
          BY <2>0, <3>1, <3>2, <4>2 DEF MutexHeld, ReadersAt
        <5>5. QueueAt'
          BY <2>0, <3>1, <3>2, <4>2 DEF MutexHeld, QueueAt
        <5>6. RLockedAt'
          BY <2>0, <3>1, <3>2, <4>2 DEF MutexHeld, RLockedAt
        <5>7. QueueBehind'
          BY <3>4, <4>2 DEF QueueBehind
        <5> QED BY <5>1, <5>2, <5>3, <5>4, <5>5, <5>6, <5>7 DEF MutexHeld
    <3> QED BY <3>3, <3>4
  <2>4. CASE CopyBehavior(t) \/ FinishAll(t) \/ FinishLook(t)
    <3>1. RUnlock(t) /\ ~Writing(t) /\ local[t].op # "SetBehavior"
      BY <2>0, <2>4 DEF CopyBehavior, FinishAll, FinishLook, Writing, Replacing, At, Consistent
    <3>2. /\ local'[t].pc = "Idle" \/ (local'[t].pc = "Replace" /\ local'[t].op = "AddReader")
      <4>1. CASE Become(t, Returned)
        BY <4>1, ReturnDoes
      <4>2. CASE CopyBehavior(t) /\ ~Become(t, Returned)
        <5>1. Become(t, [local[t] EXCEPT !.pc = "Replace", !.b = behavior,
                                         !.chain = Send({local[t].dev}, ReplaceRO)])
          BY <4>2 DEF CopyBehavior, Fail
        <5> QED BY <4>2, <5>1 DEF CopyBehavior, At, Become, TypeOK, Local
      <4> QED BY <2>4, <4>1, <4>2 DEF FinishAll, FinishLook
    <3>3. /\ mu'.writer = mu.writer /\ mu'.readers = mu.readers \ {t} /\ mu'.queue = mu.queue
      BY <3>1 DEF RUnlock, TypeOK
    <3>4. t \notin mu.queue
      BY <2>4 DEF MutexHeld, Announced, Outlasted, LoopsRead, ReadersAt, QueueAt, CopyBehavior, FinishAll, FinishLook, RLocked
    <3>5. ~Writing(t)' /\ ~Replacing(t)'
      BY <3>2 DEF Writing, Replacing, At
    <3> QED
      <4>1. Announced'
        BY <2>0, <3>1, <3>2, <3>3, <3>4, <3>5 DEF MutexHeld, Announced
      <4>2. Outlasted'
        BY <2>0, <3>1, <3>2, <3>3, <3>4, <3>5 DEF MutexHeld, Outlasted
      <4>3. LoopsRead'
        BY <2>0, <3>1, <3>2, <3>3, <3>4, <3>5 DEF MutexHeld, LoopsRead
      <4>4. ReadersAt'
        BY <2>0, <3>1, <3>2, <3>3, <3>4, <3>5 DEF MutexHeld, ReadersAt
      <4>5. QueueAt'
        BY <2>0, <3>1, <3>2, <3>3, <3>4, <3>5 DEF MutexHeld, QueueAt
      <4>6. RLockedAt'
        BY <2>0, <3>1, <3>2, <3>3, <3>4, <3>5 DEF MutexHeld, RLockedAt
      <4>7. QueueBehind'
        BY <2>0, <3>1, <3>2, <3>3, <3>4, <3>5, ReaderGroupAssumption DEF MutexHeld, QueueBehind
      <4> QED BY <4>1, <4>2, <4>3, <4>4, <4>5, <4>6, <4>7 DEF MutexHeld
  <2>5. ASSUME NEW d \in Device, ReplaceStep(t, d) \/ CommandOfAll(t, d) PROVE MutexHeld'
    BY <2>0, <2>5, SentDoes, MutexFrame DEF ReplaceStep, CommandOfAll
  <2>6. CASE WantInsert(t)
    <3>1. local'[t].pc \in {"Lock", "Idle"}
      BY <2>6, GotoDoes, ReturnDoes DEF WantInsert, Fail, Pc
    <3> QED BY <2>0, <2>6, <3>1, MutexFrame DEF WantInsert, ReplaceDone, At, Writing, Replacing
  <2>7. CASE WantWrite(t)
    <3>1. /\ local'[t].pc = "Locked" /\ local[t].pc = "Lock" /\ mu.writer = Nobody
          /\ mu'.writer = t /\ mu'.readers = mu.readers /\ mu'.queue = mu.queue
      BY <2>7, GotoDoes DEF WantWrite, Announce, TypeOK, Pc
    <3>2. \A u \in Thread : ~Writing(u)
      BY <3>1, ReaderGroupAssumption DEF MutexHeld, Announced, Outlasted, LoopsRead, ReadersAt, QueueAt
    <3>3. Writing(t)' /\ ~Replacing(t)'
      BY <3>1 DEF Writing, Replacing, At
    <3> QED
      <4>1. Announced'
        BY <2>0, <3>1, <3>2, <3>3 DEF MutexHeld, Announced
      <4>2. Outlasted'
        BY <2>0, <3>1, <3>2, <3>3 DEF MutexHeld, Outlasted
      <4>3. LoopsRead'
        BY <2>0, <3>1, <3>2, <3>3 DEF MutexHeld, LoopsRead
      <4>4. ReadersAt'
        BY <2>0, <3>1, <3>2, <3>3 DEF MutexHeld, ReadersAt
      <4>5. QueueAt'
        BY <2>0, <3>1, <3>2, <3>3 DEF MutexHeld, QueueAt
      <4>6. RLockedAt'
        BY <2>0, <3>1, <3>2, <3>3 DEF MutexHeld, RLockedAt
      <4>7. QueueBehind'
        BY <2>0, <3>1, <3>2, <3>3, ReaderGroupAssumption DEF MutexHeld, QueueBehind
      <4> QED BY <4>1, <4>2, <4>3, <4>4, <4>5, <4>6, <4>7 DEF MutexHeld
  <2>8. CASE Become(t, Returned) /\ Unlock /\ mu.writer = t /\ mu.readers = {}
    <3>1. local'[t].pc = "Idle" /\ ~Writing(t)' /\ ~Replacing(t)'
      BY <2>8, ReturnDoes DEF Writing, Replacing, At
    <3>2. \A u \in Thread \ {t} : ~Writing(u) /\ ~Replacing(u)
      BY <2>8 DEF MutexHeld, Announced, Outlasted, LoopsRead, ReadersAt, QueueAt, Writing
    <3>3. mu'.writer = Nobody /\ mu'.readers = mu.queue /\ mu'.queue = {}
      BY <2>8 DEF Unlock
    <3>4. local[t].pc \in {"Locked", "Replace"}
      BY <2>8 DEF MutexHeld, Announced, Outlasted, LoopsRead, ReadersAt, QueueAt, Writing, Replacing, At
    <3> QED
      <4>1. Announced'
        BY <2>0, <2>8, <3>1, <3>2, <3>3, <3>4, ReaderGroupAssumption DEF MutexHeld, Announced
      <4>2. Outlasted'
        BY <2>0, <2>8, <3>1, <3>2, <3>3, <3>4, ReaderGroupAssumption DEF MutexHeld, Outlasted
      <4>3. LoopsRead'
        BY <2>0, <2>8, <3>1, <3>2, <3>3, <3>4, ReaderGroupAssumption DEF MutexHeld, LoopsRead
      <4>4. ReadersAt'
        BY <2>0, <2>8, <3>1, <3>2, <3>3, <3>4, ReaderGroupAssumption DEF MutexHeld, ReadersAt, QueueAt
      <4>5. QueueAt'
        BY <2>0, <2>8, <3>1, <3>2, <3>3, <3>4, ReaderGroupAssumption DEF MutexHeld, QueueAt
      <4>6. RLockedAt'
        BY <2>0, <2>8, <3>1, <3>2, <3>3, <3>4, ReaderGroupAssumption DEF MutexHeld, RLockedAt
      <4>7. QueueBehind'
        BY <2>0, <2>8, <3>1, <3>2, <3>3, <3>4, ReaderGroupAssumption DEF MutexHeld, QueueBehind
      <4> QED BY <4>1, <4>2, <4>3, <4>4, <4>5, <4>6, <4>7 DEF MutexHeld
  <2>9. CASE Accept(t) /\ ~Become(t, Returned)
    <3>1. /\ UNCHANGED mu /\ mu.readers = {} /\ local[t].pc = "Locked"
          /\ local'[t].pc = "Replace" /\ local'[t].op = "SetBehavior"
      <4>1. /\ UNCHANGED mu /\ local[t].op = "SetBehavior"
            /\ Become(t, [local[t] EXCEPT !.pc = "Replace", !.todo = group,
                                          !.chain = Send(group, ReplaceRO)])
        BY <2>9 DEF Accept, At
      <4> QED BY <2>9, <4>1 DEF Accept, Locked, At, Become, TypeOK, Local
    <3>2. Writing(t) /\ Writing(t)' /\ Replacing(t)'
      BY <3>1 DEF Writing, Replacing, At
    <3> QED
      <4>1. Announced'
        BY <2>0, <3>1, <3>2 DEF MutexHeld, Announced
      <4>2. Outlasted'
        BY <2>0, <3>1, <3>2 DEF MutexHeld, Outlasted
      <4>3. LoopsRead'
        BY <2>0, <3>1, <3>2 DEF MutexHeld, LoopsRead
      <4>4. ReadersAt'
        BY <2>0, <3>1, <3>2 DEF MutexHeld, ReadersAt
      <4>5. QueueAt'
        BY <2>0, <3>1, <3>2 DEF MutexHeld, QueueAt
      <4>6. RLockedAt'
        BY <2>0, <3>1, <3>2 DEF MutexHeld, RLockedAt
      <4>7. QueueBehind'
        BY <2>0, <3>1, <3>2, ReaderGroupAssumption DEF MutexHeld, QueueBehind
      <4> QED BY <4>1, <4>2, <4>3, <4>4, <4>5, <4>6, <4>7 DEF MutexHeld
  <2>10. CASE EnterAll(t)
    <3>1. /\ local[t].pc = "RLocked" /\ t \in mu.readers /\ UNCHANGED mu
          /\ local'[t].pc = "Loop"
      BY <2>10 DEF EnterAll, RLocked, Become, TypeOK, Local
    <3> QED BY <2>0, <3>1, MutexFrame DEF Writing, Replacing, At
  <2>11. ASSUME NEW d \in Device, NextOfAll(t, d) PROVE MutexHeld'
    <3>1. local'[t].pc = local[t].pc /\ local'[t].op = local[t].op
      BY <2>11 DEF NextOfAll, Become, TypeOK, Local
    <3> QED BY <2>0, <2>11, <3>1, MutexFrame DEF NextOfAll
  <2>12. CASE Insert(t) \/ Remove(t) \/ (Accept(t) /\ Become(t, Returned))
    <3>1. Become(t, Returned) /\ mu.writer = t /\ mu.readers = {}
      BY <2>12 DEF Insert, Remove, Accept, Locked
    <3>2. Unlock
      <4>1. CASE Accept(t) /\ Become(t, Returned)
        <5>1. local'[t].pc = "Idle"
          BY <4>1, ReturnDoes
        <5>2. Become(t, [local[t] EXCEPT !.pc = "Replace", !.todo = group,
                                         !.chain = Send(group, ReplaceRO)])
              => local'[t].pc = "Replace"
          BY DEF Become, TypeOK, Local
        <5> QED BY <4>1, <5>1, <5>2 DEF Accept
      <4> QED BY <2>12, <4>1 DEF Insert, Remove
    <3> QED BY <2>8, <3>1, <3>2
  <2>13. CASE FinishSetBehavior(t)
    <3>1. Become(t, Returned) /\ Replacing(t) /\ Unlock
      BY <2>13 DEF FinishSetBehavior, ReplaceDone, Replacing, At
    <3> QED BY <2>8, <3>1 DEF MutexHeld, Announced, Outlasted, LoopsRead, ReadersAt, QueueAt, Writing
  <2> QED BY <1>2, <2>1, <2>2, <2>3, <2>4, <2>5, <2>6, <2>7, <2>9, <2>10, <2>11, <2>12, <2>13
          DEF Continues
<1>3. CASE UNCHANGED <<local, mu>>
  BY <1>3 DEF MutexHeld, Announced, Outlasted, LoopsRead, ReadersAt, QueueAt, RLockedAt, QueueBehind,
              Writing, Replacing, At
<1> QED BY <1>1, <1>2, <1>3 DEF Next, Over, vars, Trigger, Expire, Reset

\* Along the mutex nobody waits in a circle: behind a writer that waits are
\* readers, and they go on.
HolderGoesOn ==
  \A t \in Thread : Waits(t) => \E u \in Thread : Holds(u) /\ ~Waits(u)

LEMMA HolderInvariant ==
  ASSUME TypeOK, Consistency, MutexHeld
  PROVE  HolderGoesOn
<1>1. \A u \in Thread : local[u].op = "None" <=> local[u].pc = "Idle"
  BY DEF Consistency, Consistent
<1>2. ASSUME NEW u \in Thread, u \in mu.readers PROVE Holds(u) /\ ~Waits(u)
  BY <1>1, <1>2 DEF MutexHeld, ReadersAt, Holds, Waits, RLocked
<1>3. ASSUME NEW u \in Thread, mu.writer = u
      PROVE  \E v \in Thread : Holds(v) /\ ~Waits(v)
  <2>1. CASE mu.readers = {}
    <3>1. local[u].pc \in {"Locked", "Replace"}
      BY <1>3 DEF MutexHeld, Announced, Writing, Replacing, At
    <3>2. Holds(u) /\ ~Waits(u)
      BY <1>1, <1>3, <2>1, <3>1 DEF Holds, Waits, Locked
    <3> QED BY <3>2
  <2>2. CASE mu.readers # {}
    <3>1. PICK v \in Thread : v \in mu.readers
      BY <2>2 DEF TypeOK
    <3> QED BY <1>2, <3>1
  <2> QED BY <2>1, <2>2
<1>4. ASSUME NEW t \in Thread, Waits(t) PROVE mu.writer \in Thread
  <2>1. mu.writer # Nobody => mu.writer \in Thread
    BY DEF TypeOK
  <2>2. CASE local[t].pc = "Lock"
    BY <1>4, <2>1, <2>2 DEF Waits
  <2>3. CASE local[t].pc = "Locked"
    BY <2>3 DEF MutexHeld, Announced, Writing
  <2>4. CASE local[t].pc = "RLocked"
    BY <1>4, <2>1, <2>4 DEF Waits, RLocked, MutexHeld, RLockedAt, QueueBehind
  <2> QED BY <1>4, <2>2, <2>3, <2>4 DEF Waits
<1> QED BY <1>3, <1>4 DEF HolderGoesOn

\* Where each operation of a goroutine gets it, as far as it matters to others.
LEMMA AcceptDoes ==
  ASSUME TypeOK, NEW t \in Thread, Accept(t)
  PROVE  /\ local[t].op = "SetBehavior" /\ local[t].pc = "Locked" /\ mu.writer = t
         /\ \/ Become(t, Returned) /\ behavior' = behavior /\ suspect' = suspect
            \/ /\ behavior' = local[t].b /\ Valid(local[t].b)
               /\ suspect' = suspect \cup Joining
               /\ local'[t].op = "SetBehavior" /\ local'[t].pc = "Replace"
               /\ local'[t].b = local[t].b /\ local'[t].todo = group
               /\ \A d \in Device : local'[t].chain[d] = IF d \in group THEN ReplaceRO ELSE <<>>
<1> DEFINE s == Send(group, ReplaceRO)
<1>1. \A d \in Device : s[d] = IF d \in group THEN ReplaceRO ELSE <<>>
  BY SendType, CommandTypes
<1> HIDE DEF s
<1>2. Become(t, [local[t] EXCEPT !.pc = "Replace", !.todo = group, !.chain = s])
      => /\ local'[t].op = local[t].op /\ local'[t].pc = "Replace" /\ local'[t].b = local[t].b
         /\ local'[t].todo = group /\ local'[t].chain = s
  BY DEF Become, TypeOK, Local
<1>3. /\ local[t].op = "SetBehavior" /\ local[t].pc = "Locked" /\ mu.writer = t
      /\ suspect' = suspect \cup IF Valid(local[t].b) THEN Joining ELSE {}
      /\ \/ ~Valid(local[t].b) /\ Become(t, Returned) /\ behavior' = behavior
         \/ /\ Valid(local[t].b) /\ behavior' = local[t].b
            /\ Become(t, [local[t] EXCEPT !.pc = "Replace", !.todo = group, !.chain = s])
  BY DEF Accept, At, Locked, s
<1> QED BY <1>1, <1>2, <1>3

LEMMA CopyBehaviorDoes ==
  ASSUME TypeOK, Consistency, NEW t \in Thread, CopyBehavior(t)
  PROVE  /\ local[t].op = "AddReader" /\ local[t].pc = "RLocked"
         /\ \/ Fail(t)
            \/ /\ local'[t].op = "AddReader" /\ local'[t].dev = local[t].dev
               /\ local'[t].pc = "Replace" /\ local'[t].b = behavior
               /\ local'[t].chain[local[t].dev] # <<>>
               /\ <<local[t].dev, behavior>> \in Accepts
               /\ UNCHANGED <<suspect, wanted>>
<1> DEFINE s == Send({local[t].dev}, ReplaceRO)
<1>1. local[t].dev \in Device /\ s[local[t].dev] # <<>>
  BY SendType, CommandTypes, ReplaceLeft, DevOf DEF CopyBehavior, At
<1> HIDE DEF s
<1>2. Become(t, [local[t] EXCEPT !.pc = "Replace", !.b = behavior, !.chain = s])
      => /\ local'[t].op = local[t].op /\ local'[t].pc = "Replace" /\ local'[t].b = behavior
         /\ local'[t].dev = local[t].dev /\ local'[t].chain = s
  BY DEF Become, TypeOK, Local
<1>3. /\ local[t].op = "AddReader" /\ local[t].pc = "RLocked"
      /\ \/ Fail(t)
         \/ /\ Become(t, [local[t] EXCEPT !.pc = "Replace", !.b = behavior, !.chain = s])
            /\ <<local[t].dev, behavior>> \in Accepts
            /\ UNCHANGED <<suspect, wanted>>
  BY DEF CopyBehavior, At, s
<1> QED BY <1>1, <1>2, <1>3

\* The other steps leave alone what an AddReader or a SetBehavior is about.
LEMMA SameCall ==
  ASSUME TypeOK, Consistency, NEW t \in Thread, Continues(t), ~Become(t, Returned),
         ~Accept(t), ~CopyBehavior(t)
  PROVE  /\ local'[t].op = local[t].op /\ local'[t].dev = local[t].dev
         /\ local'[t].b = local[t].b
         /\ local[t].op = "SetBehavior" => local'[t].todo = local[t].todo
         /\ UNCHANGED <<group, behavior>>
<1> DEFINE l == local[t]
<1>1. l \in Local /\ Consistent(l)
  BY DEF TypeOK, Consistency
<1>2. CASE \E pc \in Pc : Goto(t, pc)
  <2>1. UNCHANGED <<group, behavior>>
    BY DEF Continues, GetCapabilities, EnableCustomExt, SetConfig, WantRead, ReplaceStep,
           WantInsert, WantWrite, Insert, Remove, FinishSetBehavior, EnterAll, NextOfAll,
           CommandOfAll, FinishAll, FinishLook, Private
  <2> QED BY <1>2, <2>1, GotoDoes
<1>3. CASE \E d \in Device : ReplaceStep(t, d) \/ CommandOfAll(t, d)
  BY <1>3, SentDoes DEF ReplaceStep, CommandOfAll
<1>4. CASE \E n : AskedInVain(t, l.dev, n, n) /\ GetCapabilities(t)
  BY <1>1, <1>4 DEF AskedInVain, GetCapabilities, At, Become, TypeOK, Local
<1>5. CASE EnterAll(t) \/ \E d \in Device : NextOfAll(t, d)
  <2>1. CASE EnterAll(t)
    BY <1>1, <2>1 DEF EnterAll, Become, TypeOK, Local, Private
  <2>2. ASSUME NEW d \in Device, NextOfAll(t, d)
        PROVE  /\ local'[t].op = local[t].op /\ local'[t].dev = local[t].dev
               /\ local'[t].b = local[t].b
               /\ local[t].op # "SetBehavior"
               /\ UNCHANGED <<group, behavior>>
    BY <1>1, <2>2 DEF NextOfAll, Become, TypeOK, Local, Consistent
  <2> QED BY <1>5, <2>1, <2>2
<1>6. \/ \E pc \in Pc : Goto(t, pc)
      \/ \E d \in Device : ReplaceStep(t, d) \/ CommandOfAll(t, d)
      \/ \E n : AskedInVain(t, l.dev, n, n) /\ GetCapabilities(t)
      \/ EnterAll(t) \/ \E d \in Device : NextOfAll(t, d)
  BY DEF Continues, GetCapabilities, Answers, Fail, EnableCustomExt, SetConfig, WantRead,
         WantInsert, WantWrite, Insert, Remove, FinishSetBehavior, FinishAll, FinishLook, Pc
<1> QED BY <1>2, <1>3, <1>4, <1>5, <1>6

\* A step of a call is one of a call there is, and goes on with it or ends it.
LEMMA CallGoesOn ==
  ASSUME TypeOK, Consistency, NEW t \in Thread, Continues(t)
  PROVE  local[t].op # "None" /\ local'[t].op \in {local[t].op, "None"}
<1>1. local[t].pc # "Idle" \/ local[t].op \in Op \ {"None"}
  BY DEF Continues, GetCapabilities, EnableCustomExt, SetConfig, WantRead, CopyBehavior,
         ReplaceStep, WantInsert, WantWrite, Insert, Remove, Accept, FinishSetBehavior, EnterAll,
         NextOfAll, CommandOfAll, FinishAll, FinishLook, At, Op
<1>2. local[t].op # "None"
  BY <1>1 DEF Consistency, Consistent
<1>3. CASE Become(t, Returned)
  BY <1>2, <1>3, ReturnDoes
<1>4. CASE Accept(t) /\ ~Become(t, Returned)
  BY <1>2, <1>4, AcceptDoes
<1>5. CASE CopyBehavior(t) /\ ~Become(t, Returned)
  BY <1>2, <1>5, CopyBehaviorDoes DEF Fail
<1> QED BY <1>2, <1>3, <1>4, <1>5, SameCall

LEMMA AloneStep ==
  ASSUME TypeOK, Consistency, MutexHeld, Alone, [Next]_vars
  PROVE  Alone'
<1>1. ASSUME NEW t \in Thread, Starts(t) PROVE Alone'
  <2>1. UNCHANGED <<group, behavior>> /\ local'[t].pc # "Replace"
    <3>1. PICK op, pc, d, b : Begin(t, op, pc, d, b) /\ pc \in {"Query", "Lock", "RLock"}
      BY <1>1 DEF Starts, Call, CallAddReader, CallRemoveReader, CallSetBehavior, CallAll, CallLook
    <3>2. local'[t].pc = pc
      BY <3>1, BeginDoes, Zenon
    <3> QED BY <3>1, <3>2 DEF Begin
  <2> QED BY <1>1, <2>1, OthersStay DEF Alone, Replacing, At
<1>2. ASSUME NEW t \in Thread, Continues(t) PROVE Alone'
  <2>0. /\ \A u \in Thread \ {t} : local'[u] = local[u]
        /\ mu.writer = t => \A u \in Thread \ {t} : ~Replacing(u)
    BY <1>2, OthersStay DEF MutexHeld, Announced, Writing
  <2>1. CASE Accept(t)
    <3>1. /\ \A u \in Thread \ {t} : ~Replacing(u)
          /\ UNCHANGED group
          /\ local'[t].pc = "Replace" => local'[t].todo = group /\ local'[t].b = behavior'
      BY <2>0, <2>1, AcceptDoes, ReturnDoes DEF Accept
    <3> QED BY <2>0, <3>1 DEF Alone, Replacing, At
  <2>2. CASE Become(t, Returned) /\ ~Accept(t)
    <3>1. local'[t].pc = "Idle" /\ (UNCHANGED <<group, behavior>> \/ mu.writer = t)
      BY <1>2, <2>2, ReturnDoes DEF Continues, GetCapabilities, EnableCustomExt, SetConfig,
         WantRead, CopyBehavior, ReplaceStep, WantInsert, WantWrite, Insert, Remove, Locked,
         FinishSetBehavior, EnterAll, NextOfAll, CommandOfAll, FinishAll, FinishLook, Private
    <3> QED BY <2>0, <3>1 DEF Alone, Replacing, At
  <2>3. CASE CopyBehavior(t) /\ ~Become(t, Returned)
    <3>1. local'[t].op = "AddReader" /\ UNCHANGED <<group, behavior>>
      BY <2>3, CopyBehaviorDoes DEF CopyBehavior, Fail
    <3> QED BY <2>0, <3>1 DEF Alone, Replacing, At
  <2>4. CASE ~Accept(t) /\ ~Become(t, Returned) /\ ~CopyBehavior(t)
    <3>1. local[t].pc # "Replace" /\ local[t].op = "SetBehavior" => local'[t].pc # "Replace"
      <4>1. SUFFICES ASSUME local[t].pc # "Replace", local[t].op = "SetBehavior"
                     PROVE  local'[t].pc # "Replace"
        OBVIOUS
      <4>2. CASE WantWrite(t)
        BY <4>2, GotoDoes DEF WantWrite, Pc
      <4> QED BY <1>2, <2>4, <4>1, <4>2 DEF Continues, GetCapabilities, EnableCustomExt, SetConfig,
         WantRead, ReplaceStep, WantInsert, ReplaceDone, Insert, Remove, At, FinishSetBehavior,
         EnterAll, NextOfAll, CommandOfAll, FinishAll, FinishLook, Consistency, Consistent
    <3> QED BY <1>2, <2>0, <2>4, <3>1, SameCall DEF Alone, Replacing, At
  <2> QED BY <2>1, <2>2, <2>3, <2>4
<1>3. CASE UNCHANGED <<local, group, behavior>>
  BY <1>3 DEF Alone, Replacing, At
<1> QED BY <1>1, <1>2, <1>3 DEF Next, Over, vars, Trigger, Expire, Reset

LEMMA AloneInvariant ==
  ASSUME TypeOK, Consistency, MutexHeld, Alone
  PROVE  ReplacesAlone
<1> SUFFICES ASSUME NEW t \in Thread, Replacing(t)
             PROVE  /\ \A u \in Thread \ {t} : ~Replacing(u) /\ local[u].pc # "Loop"
                    /\ local[t].todo = group /\ local[t].b = behavior
  BY DEF ReplacesAlone
<1> QED BY DEF MutexHeld, Announced, Outlasted, LoopsRead, Writing, Alone
-----------------------------------------------------------------------------
(* What StartAll and StopAll did to a reader stays done. *)

LEMMA NextOfAllDoes ==
  ASSUME TypeOK, Consistency, NEW t \in Thread, NEW d \in Device, NextOfAll(t, d)
  PROVE  /\ local[t].pc = "Loop" /\ local'[t].pc = "Loop" /\ local'[t].op = local[t].op
         /\ \A e \in Device : local'[t].chain[e] # <<>> => e = d
<1> DEFINE c == CommandsOfAll(local[t].op)
           s == Send({d}, c)
<1>1. \A e \in Device : s[e] # <<>> => e = d
  BY DEF Send
<1> HIDE DEF s
<1>2. Become(t, [local[t] EXCEPT !.todo = @ \ {d}, !.chain = s]) /\ local[t].pc = "Loop"
  BY DEF NextOfAll, s
<1>3. /\ local'[t].pc = local[t].pc /\ local'[t].op = local[t].op /\ local'[t].chain = s
  BY <1>2 DEF Become, TypeOK, Local
<1> QED BY <1>1, <1>2, <1>3

\* What an AddReader, a SetBehavior or a look does about it all: nothing.
LEMMA NotLooping ==
  ASSUME TypeOK, Consistency, NEW t \in Thread, Continues(t), ~SetConfig(t),
         \A d \in Device : ~ReplaceStep(t, d) /\ ~NextOfAll(t, d) /\ ~CommandOfAll(t, d)
  PROVE  /\ UNCHANGED <<device, promised>>
         /\ local'[t].pc = "Loop" => \A d \in Device : local'[t].chain[d] = <<>>
<1>1. UNCHANGED <<device, promised>>
  BY DEF Continues, GetCapabilities, EnableCustomExt, WantRead, CopyBehavior, WantInsert,
         WantWrite, Insert, Remove, Accept, FinishSetBehavior, EnterAll, FinishAll, FinishLook,
         Private
<1>2. CASE Become(t, Returned) \/ \E pc \in Pc \ {"Loop"} : Goto(t, pc)
  BY <1>1, <1>2, ReturnDoes, GotoDoes
<1>3. CASE EnterAll(t)
  <2>1. local'[t].chain = local[t].chain /\ local[t].pc = "RLocked"
    BY <1>3 DEF EnterAll, Become, TypeOK, Local
  <2>2. \A d \in Device : local[t].chain[d] = <<>>
    BY <2>1, NothingToSend DEF Fits, TypeOK, Consistency
  <2> QED BY <1>1, <2>1, <2>2
<1>4. CASE CopyBehavior(t) \/ Accept(t)
  BY <1>1, <1>4, CopyBehaviorDoes, AcceptDoes, ReturnDoes DEF Fail
<1>5. CASE \E n : AskedInVain(t, local[t].dev, n, n) /\ GetCapabilities(t)
  <2>1. local'[t].pc \in {"Query", "Idle"}
    BY <1>5, ReturnDoes DEF AskedInVain, GetCapabilities, At, Become, TypeOK, Local
  <2> QED BY <1>1, <2>1
<1> QED BY <1>2, <1>3, <1>4, <1>5
        DEF Continues, GetCapabilities, Answers, Fail, EnableCustomExt, WantRead, WantInsert,
            WantWrite, Insert, Remove, FinishSetBehavior, FinishAll, FinishLook, Pc

LEMMA PromisesStep ==
  ASSUME TypeOK, Consistency, Promises, [Next]_vars
  PROVE  Promises'
<1>0. TypeOK' /\ Consistency' /\ \A d \in Device : device[d] \in ROSpecs
  BY TypeStep DEF TypeOK
<1>1. ASSUME NEW t \in Thread, Starts(t) PROVE Promises'
  <2>1. PICK op, pc, d, b : Begin(t, op, pc, d, b)
    BY <1>1 DEF Starts, Call, CallAddReader, CallRemoveReader, CallSetBehavior, CallAll, CallLook
  <2>2. \A e \in Device : local'[t].chain[e] = <<>>
    BY <2>1, BeginDoes, Zenon
  <2>3. UNCHANGED <<device, promised>>
    BY <2>1 DEF Begin
  <2> QED BY <1>1, <2>2, <2>3, OthersStay DEF Promises
<1>2. ASSUME NEW t \in Thread, Continues(t) PROVE Promises'
  <2>0. \A u \in Thread \ {t} : local'[u] = local[u]
    BY <1>2, OthersStay
  <2>1. CASE SetConfig(t)
    <3>1. local[t].dev \in Device
      BY <2>1, DevOf DEF SetConfig, At
    <3>2. local'[t].pc \in {"RLock", "Idle"}
      BY <2>1, GotoDoes, ReturnDoes DEF SetConfig, Fail, Pc
    <3>3. CASE UNCHANGED <<device, promised>>
      BY <2>0, <3>2, <3>3 DEF Promises
    <3>4. CASE /\ device' = [device EXCEPT ![local[t].dev] = NoSpec]
               /\ promised' = [promised EXCEPT ![local[t].dev] = "Nothing"]
      BY <2>0, <3>1, <3>2, <3>4 DEF Promises, TypeOK
    <3> QED BY <2>1, <3>3, <3>4 DEF SetConfig
  <2>2. ASSUME NEW d \in Device, ReplaceStep(t, d) PROVE Promises'
    <3>1. /\ local'[t].pc = "Replace"
          /\ promised' = [promised EXCEPT ![d] = IF @ = "Started" THEN "Nothing" ELSE @]
      BY <2>2, SentDoes DEF ReplaceStep
    <3>2. /\ \A e \in Device \ {d} : device'[e] = device[e]
          /\ device'[d] = device[d] \/ device'[d].state \in {"None", "Disabled"}
      BY <2>2, ReplaceStepDoes, ROSpecTypes
    <3>3. /\ promised'[d] \in {"Nothing", "Stopped"} /\ (promised'[d] = "Stopped" => promised[d] = "Stopped")
          /\ \A e \in Device \ {d} : promised'[e] = promised[e]
          /\ promised[d] = "Nothing" => promised'[d] = "Nothing"
      BY <3>1 DEF TypeOK
    <3> QED BY <2>0, <3>1, <3>2, <3>3 DEF Promises
  <2>3. ASSUME NEW d \in Device, NextOfAll(t, d) PROVE Promises'
    <3>1. /\ device' = device
          /\ promised'[d] = "Nothing" /\ \A e \in Device \ {d} : promised'[e] = promised[e]
      BY <2>3 DEF NextOfAll, TypeOK
    <3> QED BY <2>0, <2>3, <3>1, NextOfAllDoes DEF Promises
  <2>4. ASSUME NEW d \in Device, CommandOfAll(t, d) PROVE Promises'
    <3>0. /\ local[t].pc = "Loop" /\ local'[t].pc = "Loop" /\ local[t].chain[d] # <<>>
          /\ promised[d] = "Nothing"
      BY <2>4, SentDoes DEF CommandOfAll, Promises
    <3>1. /\ \A e \in Device \ {d} : device'[e] = device[e]
          /\ \A e \in Device : local'[t].chain[e] # <<>> => local[t].chain[e] # <<>>
      BY <2>4, CommandOfAllDoes
    <3>2. CASE promised' = promised
      BY <2>0, <3>0, <3>1, <3>2 DEF Promises
    <3>3. ASSUME NEW p \in {"Started", "Stopped"}, promised' = [promised EXCEPT ![d] = p],
                 p = "Started" => device'[d].state \in {"Inactive", "Active"},
                 p = "Stopped" => device'[d].state = "Disabled",
                 local'[t].chain[d] = <<>>, ~Contended(t, d)
          PROVE  Promises'
      <4>1. promised'[d] = p /\ \A e \in Device \ {d} : promised'[e] = promised[e]
        BY <3>3 DEF TypeOK
      <4>2. \A u \in Thread : local'[u].chain[d] = <<>>
        BY <2>0, <3>3 DEF Contended
      <4> QED BY <2>0, <3>0, <3>1, <3>3, <4>1, <4>2 DEF Promises
    <3> QED BY <2>4, <3>2, <3>3, CommandOfAllDoes
  <2>5. CASE /\ UNCHANGED <<device, promised>>
             /\ local'[t].pc = "Loop" => \A d \in Device : local'[t].chain[d] = <<>>
    BY <2>0, <2>5 DEF Promises
  <2> QED BY <1>2, <2>1, <2>2, <2>3, <2>4, <2>5, NotLooping
<1>3. ASSUME NEW d \in Device, Trigger(d) \/ Expire(d) PROVE Promises'
  <2>1. UNCHANGED <<local, promised>>
    BY <1>3 DEF Trigger, Expire
  <2> QED BY <1>3, <2>1, TurnDoes DEF Promises
<1>4. ASSUME NEW d \in Device, Reset(d) PROVE Promises'
  BY <1>4 DEF Reset, Promises, TypeOK
<1>5. CASE UNCHANGED <<local, promised, device>>
  BY <1>5 DEF Promises
<1> QED BY <1>1, <1>2, <1>3, <1>4, <1>5 DEF Next, Over, vars

LEMMA PromisesInvariant ==
  ASSUME TypeOK, Promises
  PROVE  PromisesKept
BY DEF Promises, PromisesKept
-----------------------------------------------------------------------------
(* Readers hold the ROSpec of the group's behavior, or someone still has to *)
(* replace it.                                                              *)

LEMMA OwedFrame ==
  ASSUME MatchesOrOwed, NEW d \in Device \ suspect, Matches(d) => Matches(d)',
         d \in group' => d \in group,
         \A u \in Thread : Brought(u, d)' => Brought(u, d),
         \A u \in Thread : Owes(u, d) => Owes(u, d)'
  PROVE  Accounted(d)'
BY DEF MatchesOrOwed, Accounted

\* As long as the group's behavior stays, others owe and have brought the same.
LEMMA OthersOwe ==
  ASSUME UNCHANGED behavior, NEW u \in Thread, local'[u] = local[u], NEW d \in Device
  PROVE  Brought(u, d)' = Brought(u, d) /\ Owes(u, d)' = Owes(u, d)
BY DEF Brought, Owes, Brings, Replacing, At

\* Goroutine t has nothing to do with the ROSpec of d, before or after.
LEMMA IdleFrame ==
  ASSUME MatchesOrOwed, UNCHANGED behavior, NEW t \in Thread,
         \A u \in Thread \ {t} : local'[u] = local[u],
         NEW d \in Device \ suspect, Matches(d) => Matches(d)', d \in group' => d \in group,
         ~Owes(t, d), ~Brought(t, d)'
  PROVE  Accounted(d)'
BY OthersOwe, OwedFrame

\* It has the same to do as before.
LEMMA SameFrame ==
  ASSUME MatchesOrOwed, UNCHANGED behavior, NEW t \in Thread,
         \A u \in Thread \ {t} : local'[u] = local[u],
         NEW d \in Device \ suspect, Matches(d) => Matches(d)', d \in group' => d \in group,
         Owes(t, d) => Owes(t, d)', Brought(t, d)' => Brought(t, d)
  PROVE  Accounted(d)'
BY OthersOwe, OwedFrame

LEMMA SameROSpec ==
  ASSUME UNCHANGED behavior, NEW d \in Device, device'[d] = device[d]
  PROVE  Matches(d) => Matches(d)'
BY DEF Matches

LEMMA FailDoes ==
  ASSUME TypeOK, NEW t \in Thread, Fail(t)
  PROVE  /\ local'[t].pc = "Idle" /\ local'[t].op = "None"
         /\ suspect' = suspect \cup {local[t].dev}
BY ReturnDoes DEF Fail

LEMMA ContinuesOwed ==
  ASSUME TypeOK, Consistency, MutexHeld, Alone, MatchesOrOwed, NEW t \in Thread, Continues(t),
         NEW d \in Device \ suspect'
  PROVE  Accounted(d)'
<1> DEFINE l == local[t]
<1>0. /\ \A u \in Thread \ {t} : local'[u] = local[u]
      /\ Consistent(l) /\ Remaining(l, d)
  BY OthersStay DEF Consistency, Consistent
<1>1. CASE GetCapabilities(t)
  <2>1. local'[t].pc \in {"Query", "Extend", "Config", "Idle"} /\ d \notin suspect
    <3>1. CASE Answers(t, l.dev)
      BY <3>1, GotoDoes, FailDoes DEF Answers, Pc
    <3>2. CASE \E n : AskedInVain(t, l.dev, n, n)
      BY <1>1, <3>2, ReturnDoes DEF AskedInVain, GetCapabilities, At, Become, TypeOK, Local
    <3> QED BY <1>1, <3>1, <3>2 DEF GetCapabilities
  <2>2. ~Owes(t, d) /\ ~Brought(t, d)'
    BY <1>1, <2>1 DEF GetCapabilities, At, Owes, Brought, Replacing
  <2> QED BY <1>0, <1>1, <2>1, <2>2, IdleFrame, SameROSpec DEF GetCapabilities
<1>2. CASE EnableCustomExt(t)
  <2>1. local'[t].pc \in {"Config", "Idle"} /\ d \notin suspect
    BY <1>2, GotoDoes, FailDoes DEF EnableCustomExt, Pc
  <2>2. ~Owes(t, d) /\ ~Brought(t, d)'
    BY <1>2, <2>1 DEF EnableCustomExt, At, Owes, Brought, Replacing
  <2> QED BY <1>0, <1>2, <2>1, <2>2, IdleFrame, SameROSpec DEF EnableCustomExt
<1>3. CASE SetConfig(t)
  <2>1. /\ \/ local'[t].pc = "RLock" /\ local'[t].op = "AddReader" /\ local'[t].dev = l.dev
           \/ local'[t].pc = "Idle" /\ d # l.dev
        /\ d \notin suspect
    BY <1>3, GotoDoes, FailDoes DEF SetConfig, At, Pc
  <2>2. CASE d = l.dev
    BY <2>1, <2>2 DEF Accounted, Owes, Brings
  <2>3. CASE d # l.dev
    <3>1. ~Owes(t, d) /\ ~Brought(t, d)'
      BY <1>3, <2>1 DEF SetConfig, At, Owes, Brought, Replacing
    <3>2. device'[d] = device[d]
      BY <1>3, <2>3 DEF SetConfig, TypeOK
    <3> QED BY <1>0, <1>3, <2>1, <3>1, <3>2, IdleFrame, SameROSpec DEF SetConfig
  <2> QED BY <2>2, <2>3
<1>4. CASE WantRead(t) \/ WantWrite(t)
  <2>1. /\ \/ l.pc = "RLock" /\ local'[t].pc = "RLocked"
           \/ l.pc = "Lock" /\ local'[t].pc = "Locked"
        /\ local'[t].op = l.op /\ local'[t].dev = l.dev /\ local'[t].b = l.b
    BY <1>4, GotoDoes DEF WantRead, WantWrite, Pc
  <2>2. UNCHANGED <<group, behavior, device, suspect>>
    BY <1>4 DEF WantRead, WantWrite, Private
  <2>3. Owes(t, d) => Owes(t, d)'
    BY <2>1, <2>2 DEF Owes, Brings, Replacing, At
  <2>4. Brought(t, d)' => Brought(t, d)
    BY <2>1, <2>2 DEF Brought, Brings
  <2> QED BY <1>0, <2>2, <2>3, <2>4, SameFrame, SameROSpec
<1>5. CASE CopyBehavior(t)
  <2>1. UNCHANGED <<group, behavior, device>> /\ d \notin suspect
    BY <1>5, CopyBehaviorDoes, FailDoes DEF CopyBehavior
  <2>2. CASE d = l.dev
    <3>1. ~Fail(t)
      BY <2>2, FailDoes
    <3> QED BY <1>5, <2>2, <3>1, CopyBehaviorDoes DEF Accounted, Owes, Brings
  <2>3. CASE d # l.dev
    <3>1. ~Owes(t, d) /\ ~Brought(t, d)'
      BY <1>5, <2>3, CopyBehaviorDoes, FailDoes DEF Owes, Brought, Brings, Replacing, At
    <3> QED BY <1>0, <2>1, <3>1, IdleFrame, SameROSpec
  <2> QED BY <2>2, <2>3
<1>6. ASSUME NEW e \in Device, ReplaceStep(t, e) PROVE Accounted(d)'
  <2>1. /\ local'[t].pc = "Replace" /\ local'[t].op = l.op /\ l.pc = "Replace"
        /\ local'[t].dev = l.dev /\ local'[t].b = l.b
        /\ UNCHANGED <<group, behavior>>
    BY <1>6, SentDoes DEF ReplaceStep
  <2>2. CASE d # e
    <3>1. local'[t].chain[d] = l.chain[d] /\ device'[d] = device[d] /\ d \notin suspect
      BY <1>6, <2>2, ReplaceStepDoes
    <3>2. Owes(t, d)' = Owes(t, d) /\ Brought(t, d)' = Brought(t, d)
      BY <2>1, <3>1 DEF Owes, Brought, Brings, Replacing, At
    <3> QED BY <1>0, <2>1, <3>1, <3>2, SameFrame, SameROSpec
  <2>3. CASE d = e
    <3>1. l.op = "SetBehavior" \/ (l.op = "AddReader" /\ l.dev = d)
      <4>1. l.chain[d] # <<>>
        BY <1>6, <2>3 DEF ReplaceStep
      <4> QED BY <1>0, <2>1, <4>1 DEF Consistent, Remaining
    <3>2. CASE local'[t].chain[d] # <<>>
      BY <2>1, <3>1, <3>2 DEF Accounted, Owes, Brings, Replacing, At
    <3>3. CASE local'[t].chain[d] = <<>>
      <4>1. device'[d] = ROSpec(l.b, "Disabled") /\ l.b \in Behavior
        BY <1>6, <2>3, <3>3, ReplaceStepDoes
      <4>2. CASE l.b = behavior
        BY <2>1, <4>1, <4>2, ROSpecTypes DEF Accounted, Matches
      <4>3. CASE l.b # behavior
        <5>1. l.op = "AddReader"
          BY <2>1, <3>1, <4>3 DEF Alone, Replacing, At
        <5> QED BY <2>1, <3>1, <4>3, <5>1 DEF Accounted, Owes, Brings
      <4> QED BY <4>2, <4>3
    <3> QED BY <3>2, <3>3
  <2> QED BY <2>2, <2>3
<1>7. CASE WantInsert(t)
  <2>1. /\ UNCHANGED <<group, behavior, device>> /\ d \notin suspect
        /\ l.op = "AddReader" /\ l.pc = "Replace" /\ \A e \in Device : l.chain[e] = <<>>
    BY <1>7, FailDoes DEF WantInsert, ReplaceDone, Talking
  <2>2. CASE Fail(t)
    <3>1. ~Owes(t, d) /\ ~Brought(t, d)'
      BY <2>1, <2>2, FailDoes DEF Owes, Brought, Brings, Replacing, At
    <3> QED BY <1>0, <2>1, <3>1, IdleFrame, SameROSpec
  <2>3. CASE Goto(t, "Lock")
    <3>1. local'[t].pc = "Lock" /\ local'[t].op = l.op /\ local'[t].dev = l.dev /\ local'[t].b = l.b
      BY <2>3, GotoDoes DEF Pc
    <3>2. (Owes(t, d) => Owes(t, d)') /\ (Brought(t, d)' => Brought(t, d))
      BY <2>1, <3>1 DEF Owes, Brought, Brings, Replacing, At
    <3> QED BY <1>0, <2>1, <3>2, SameFrame, SameROSpec
  <2> QED BY <1>7, <2>2, <2>3 DEF WantInsert
<1>8. CASE Insert(t)
  <2>1. /\ UNCHANGED <<behavior, device>> /\ d \notin suspect
        /\ l.op = "AddReader" /\ l.pc = "Locked" /\ group' = group \cup {l.dev}
        /\ local'[t].pc = "Idle" /\ local'[t].op = "None"
        /\ l.b # behavior => d # l.dev
    BY <1>8, ReturnDoes DEF Insert, At
  <2>2. CASE d # l.dev
    <3>1. ~Owes(t, d) /\ ~Brought(t, d)'
      BY <2>1, <2>2 DEF Owes, Brought, Brings, Replacing, At
    <3> QED BY <1>0, <2>1, <2>2, <3>1, IdleFrame, SameROSpec
  <2>3. CASE d = l.dev
    <3>1. Brought(t, d) /\ ~Owes(t, d)
      BY <2>1, <2>3 DEF Brought, Owes, Brings, Replacing, At
    <3>2. Matches(d) \/ \E u \in Thread \ {t} : Owes(u, d)
      BY <2>1, <3>1 DEF MatchesOrOwed, Accounted
    <3> QED BY <1>0, <2>1, <3>2, SameROSpec, OthersOwe DEF Accounted
  <2> QED BY <2>2, <2>3
<1>9. CASE Accept(t)
  <2>1. CASE Become(t, Returned)
    <3>1. UNCHANGED <<group, behavior, device, suspect>> /\ local'[t].pc = "Idle"
          /\ l.pc = "Locked" /\ l.op = "SetBehavior"
      BY <1>9, <2>1, AcceptDoes, ReturnDoes DEF Accept
    <3>2. ~Owes(t, d) /\ ~Brought(t, d)'
      BY <3>1 DEF Owes, Brought, Brings, Replacing, At
    <3> QED BY <1>0, <3>1, <3>2, IdleFrame, SameROSpec
  <2>2. CASE ~Become(t, Returned)
    <3>1. /\ suspect' = suspect \cup Joining /\ group' = group
          /\ local'[t].op = "SetBehavior" /\ local'[t].pc = "Replace"
          /\ local'[t].chain[d] = IF d \in group THEN ReplaceRO ELSE <<>>
      BY <1>9, <2>2, AcceptDoes DEF Accept
    <3>2. \A u \in Thread : ~Brought(u, d)'
      BY <1>0, <3>1 DEF Joining, Brought, Brings
    <3>3. d \in group => Owes(t, d)'
      BY <3>1, CommandTypes, ReplaceLeft DEF Owes, Replacing, At
    <3> QED BY <3>1, <3>2, <3>3 DEF Accounted
  <2> QED BY <2>1, <2>2
<1>10. CASE Remove(t) \/ FinishSetBehavior(t) \/ FinishAll(t) \/ FinishLook(t)
  <2>1. /\ UNCHANGED <<behavior, device, suspect>> /\ local'[t].pc = "Idle"
        /\ d \in group' => d \in group
    BY <1>10, ReturnDoes DEF Remove, FinishSetBehavior, FinishAll, FinishLook, Private
  <2>2. ~Owes(t, d)
    BY <1>0, <1>10 DEF Remove, FinishSetBehavior, FinishAll, FinishLook, ReplaceDone, Talking, Owes,
                       Brings, Replacing, At, Consistent
  <2>3. ~Brought(t, d)'
    BY <2>1 DEF Brought
  <2> QED BY <1>0, <2>1, <2>2, <2>3, IdleFrame, SameROSpec
<1>11. CASE EnterAll(t) \/ \E e \in Device : NextOfAll(t, e) \/ CommandOfAll(t, e)
  <2>1. /\ UNCHANGED <<group, behavior, suspect>>
        /\ l.op \in {"StartAll", "StopAll"} /\ local'[t].op = l.op
    <3>1. CASE EnterAll(t)
      BY <3>1 DEF EnterAll, Private, Become, TypeOK, Local
    <3>2. ASSUME NEW e \in Device, NextOfAll(t, e) \/ CommandOfAll(t, e)
          PROVE  /\ UNCHANGED <<group, behavior, suspect>>
                 /\ l.op \in {"StartAll", "StopAll"} /\ local'[t].op = l.op
      BY <1>0, <3>2, NextOfAllDoes, SentDoes DEF NextOfAll, CommandOfAll, Consistent
    <3> QED BY <1>11, <3>1, <3>2
  <2>2. Matches(d) => Matches(d)'
    <3>1. CASE device'[d] = device[d]
      BY <2>1, <3>1, SameROSpec
    <3>2. ASSUME NEW e \in Device, CommandOfAll(t, e) PROVE Matches(d) => Matches(d)'
      <4>1. device'[d] = device[d] \/ (device[d] # NoSpec => device'[d] # NoSpec /\ device'[d].behavior = device[d].behavior)
        BY <3>2, CommandOfAllDoes
      <4> QED BY <2>1, <4>1 DEF Matches
    <3> QED BY <1>11, <3>1, <3>2 DEF EnterAll, NextOfAll, Private
  <2>3. ~Owes(t, d) /\ ~Brought(t, d)'
    BY <2>1 DEF Owes, Brought, Brings, Replacing, At
  <2> QED BY <1>0, <2>1, <2>2, <2>3, IdleFrame
<1> QED BY <1>1, <1>2, <1>3, <1>4, <1>5, <1>6, <1>7, <1>8, <1>9, <1>10, <1>11 DEF Continues

LEMMA OwedStep ==
  ASSUME TypeOK, Consistency, MutexHeld, Alone, MatchesOrOwed, [Next]_vars
  PROVE  MatchesOrOwed'
<1> SUFFICES ASSUME NEW d \in Device \ suspect' PROVE Accounted(d)'
  BY DEF MatchesOrOwed
<1>1. ASSUME NEW t \in Thread, Starts(t) PROVE Accounted(d)'
  <2>1. PICK op, pc, e, b : Begin(t, op, pc, e, b) /\ pc \in {"Query", "Lock", "RLock"}
                            /\ (op = "AddReader" => pc = "Query")
    BY <1>1 DEF Starts, Call, CallAddReader, CallRemoveReader, CallSetBehavior, CallAll, CallLook
  <2>2. local'[t].pc = pc /\ local'[t].op = op
    BY <2>1, BeginDoes, Zenon
  <2>3. UNCHANGED <<group, behavior, device, suspect>> /\ local[t].op = "None"
    BY <2>1 DEF Begin
  <2>4. ~Owes(t, d) /\ ~Brought(t, d)'
    BY <2>1, <2>2, <2>3 DEF Owes, Brought, Brings, Replacing, At
  <2> QED BY <1>1, <2>3, <2>4, OthersStay, IdleFrame, SameROSpec
<1>2. ASSUME NEW t \in Thread, Continues(t) PROVE Accounted(d)'
  BY <1>2, ContinuesOwed
<1>3. ASSUME UNCHANGED <<local, group, behavior>>, d \notin suspect, Matches(d) => Matches(d)'
      PROVE  Accounted(d)'
  BY <1>3, OwedFrame DEF Owes, Brought, Brings, Replacing, At
<1>4. ASSUME NEW e \in Device, Trigger(e) \/ Expire(e) PROVE Accounted(d)'
  <2>1. UNCHANGED <<local, group, behavior, suspect>>
    BY <1>4 DEF Trigger, Expire
  <2>2. Matches(d) => Matches(d)'
    BY <1>4, <2>1, TurnDoes, SameROSpec DEF Matches
  <2> QED BY <1>3, <2>1, <2>2
<1>5. ASSUME NEW e \in Device, Reset(e) PROVE Accounted(d)'
  <2>1. UNCHANGED <<local, group, behavior>> /\ d \notin suspect /\ device'[d] = device[d]
    BY <1>5 DEF Reset, TypeOK
  <2> QED BY <1>3, <2>1, SameROSpec
<1>6. CASE UNCHANGED vars
  BY <1>3, <1>6, SameROSpec DEF vars
<1> QED BY <1>1, <1>2, <1>4, <1>5, <1>6 DEF Next, Over
-----------------------------------------------------------------------------
(* What the readers of the group accept. *)

\* A step that takes nobody in, changes no behavior and clears no suspicion.
LEMMA AcceptableFrame ==
  ASSUME Acceptable, group' \subseteq group, behavior' = behavior, suspect \subseteq suspect',
         \A t \in Thread : /\ Carried(t)'
                           /\ Replacing(t)' => \E u \in Thread : Replacing(u)
  PROVE  Acceptable'
BY DEF Acceptable, GroupAccepts

LEMMA ContinuesAcceptable ==
  ASSUME TypeOK, Consistency, MutexHeld, Alone, Acceptable, NEW t \in Thread, Continues(t)
  PROVE  Acceptable'
<1> DEFINE l == local[t]
<1>0. /\ \A u \in Thread \ {t} : local'[u] = local[u]
      /\ \A u \in Thread \ {t} : Carried(u)' /\ (Replacing(u)' => Replacing(u))
      /\ mu.writer = t => \A u \in Thread \ {t} : ~Replacing(u)
  BY OthersStay DEF Acceptable, Carried, Replacing, At, MutexHeld, Announced, Writing
<1>1. CASE Accept(t)
  <2>1. CASE Become(t, Returned) /\ behavior' = behavior /\ suspect' = suspect
    <3>1. Carried(t)' /\ ~Replacing(t)' /\ UNCHANGED group
      BY <1>1, <2>1, ReturnDoes DEF Carried, Replacing, At, Accept
    <3> QED BY <1>0, <2>1, <3>1, AcceptableFrame
  <2>2. CASE behavior' = l.b /\ Valid(l.b) /\ local'[t].op = "SetBehavior"
    BY <1>0, <1>1, <2>2 DEF Accept, Acceptable, Carried, Valid, GroupAccepts
  <2> QED BY <1>1, <2>1, <2>2, AcceptDoes
<1>2. CASE CopyBehavior(t)
  <2>1. UNCHANGED <<group, behavior>> /\ suspect \subseteq suspect'
    BY <1>2 DEF CopyBehavior, Fail
  <2>2. Carried(t)' /\ ~Replacing(t)'
    <3>1. CASE Fail(t)
      BY <3>1, ReturnDoes DEF Fail, Carried, Replacing, At
    <3>2. CASE ~Fail(t)
      BY <1>2, <3>2, CopyBehaviorDoes DEF Carried, Replacing, At
    <3> QED BY <3>1, <3>2
  <2> QED BY <1>0, <2>1, <2>2, AcceptableFrame
<1>3. CASE Insert(t)
  <2>1. /\ group' = group \cup {l.dev} /\ behavior' = behavior
        /\ suspect' = IF l.b # behavior THEN suspect \cup {l.dev} ELSE suspect
        /\ <<l.dev, l.b>> \in Accepts
    BY <1>3 DEF Insert, At, Acceptable, Carried
  <2>2. Carried(t)' /\ ~Replacing(t)' /\ mu.writer = t
    BY <1>3, ReturnDoes DEF Insert, Locked, Carried, Replacing, At
  <2> QED BY <1>0, <2>1, <2>2 DEF Acceptable
<1>4. CASE Become(t, Returned) /\ ~Accept(t) /\ ~CopyBehavior(t) /\ ~Insert(t)
  <2>1. Carried(t)' /\ ~Replacing(t)'
    BY <1>4, ReturnDoes DEF Carried, Replacing, At
  <2>2. group' \subseteq group /\ behavior' = behavior
    BY <1>4 DEF Continues, GetCapabilities, EnableCustomExt, SetConfig, WantRead, ReplaceStep,
         WantInsert, WantWrite, Remove, FinishSetBehavior, EnterAll, NextOfAll, CommandOfAll,
         FinishAll, FinishLook, Private
  <2>3. suspect \subseteq suspect' \/ \E d \in Device : ReplaceStep(t, d)
    BY <1>4 DEF Continues, GetCapabilities, Answers, AskedInVain, EnableCustomExt, SetConfig,
         WantRead, WantInsert, WantWrite, Remove, FinishSetBehavior, EnterAll, NextOfAll,
         CommandOfAll, FinishAll, FinishLook, Private, Fail
  <2>4. ASSUME NEW d \in Device, ReplaceStep(t, d) PROVE FALSE
    <3>1. local'[t].pc = l.pc
      BY <2>4, SentDoes DEF ReplaceStep
    <3> QED BY <1>4, <2>4, <3>1, ReturnDoes DEF ReplaceStep
  <2> QED BY <1>0, <2>1, <2>2, <2>3, <2>4, AcceptableFrame
<1>5. CASE ~Become(t, Returned) /\ ~Accept(t) /\ ~CopyBehavior(t)
  <2>1. /\ local'[t].op = l.op /\ local'[t].dev = l.dev /\ local'[t].b = l.b
        /\ UNCHANGED <<group, behavior>>
    BY <1>5, SameCall
  <2>2. /\ l.op = "AddReader" /\ local'[t].pc \in {"Replace", "Lock", "Locked"}
            => l.pc \in {"Replace", "Lock", "Locked"}
        /\ Replacing(t)' => Replacing(t)
    <3>1. CASE WantWrite(t)
      BY <3>1, GotoDoes DEF WantWrite, Replacing, At, Pc
    <3>2. CASE WantInsert(t)
      BY <1>5, <3>2, GotoDoes DEF WantInsert, ReplaceDone, Fail, Replacing, At, Pc
    <3>3. CASE \E d \in Device : ReplaceStep(t, d) \/ CommandOfAll(t, d)
      BY <3>3, SentDoes DEF Replacing, At
    <3>4. CASE WantRead(t) \/ EnableCustomExt(t) \/ SetConfig(t)
      <4>1. local'[t].pc \in {"RLocked", "Config", "RLock"}
        BY <1>5, <3>4, GotoDoes DEF WantRead, EnableCustomExt, SetConfig, Fail, Pc
      <4> QED BY <4>1 DEF Replacing, At
    <3>5. CASE GetCapabilities(t)
      <4>1. local'[t].pc \in {"Query", "Extend", "Config"}
        BY <1>5, <3>5, GotoDoes DEF GetCapabilities, Answers, AskedInVain, Fail, At, Become, Pc,
                                    TypeOK, Local
      <4> QED BY <4>1 DEF Replacing, At
    <3>6. CASE EnterAll(t) \/ \E d \in Device : NextOfAll(t, d)
      <4>1. l.op \in {"StartAll", "StopAll"}
        BY <3>6 DEF EnterAll, NextOfAll, Consistency, Consistent
      <4> QED BY <2>1, <4>1 DEF Replacing, At
    <3> QED BY <1>5, <3>1, <3>2, <3>3, <3>4, <3>5, <3>6 DEF Continues, Insert, Remove,
         FinishSetBehavior, FinishAll, FinishLook
  <2>3. Carried(t)'
    BY <2>1, <2>2 DEF Acceptable, Carried
  <2>4. ASSUME NEW d \in Device, ReplaceStep(t, d) PROVE Acceptable'
    <3>1. suspect' \in {suspect, suspect \cup {d}, suspect \ {d}}
      BY <2>4, ReplaceStepDoes
    <3>2. d \in suspect \ suspect' => l.b = behavior
      BY <2>4, ReplaceStepDoes
    <3>3. \/ l.op = "AddReader" /\ l.dev = d
          \/ Replacing(t) /\ d \in group
      BY <2>4 DEF ReplaceStep, Consistency, Consistent, Remaining, Replacing, At, Alone
    <3>4. l.b = behavior => d \notin group \/ <<d, behavior>> \in Accepts
      BY <2>4, <3>3 DEF ReplaceStep, Acceptable, Carried, GroupAccepts
    <3> QED BY <1>0, <2>1, <2>2, <2>3, <3>1, <3>2, <3>4 DEF Acceptable, GroupAccepts
  <2>5. CASE suspect \subseteq suspect'
    BY <1>0, <2>1, <2>2, <2>3, <2>5, AcceptableFrame
  <2>6. suspect \subseteq suspect' \/ \E d \in Device : ReplaceStep(t, d)
    BY <1>5 DEF Continues, GetCapabilities, Answers, AskedInVain, EnableCustomExt, SetConfig,
         WantRead, WantInsert, WantWrite, Insert, Remove, FinishSetBehavior, EnterAll, NextOfAll,
         CommandOfAll, FinishAll, FinishLook, Private, Fail
  <2> QED BY <2>4, <2>5, <2>6
<1> QED BY <1>1, <1>2, <1>3, <1>4, <1>5

LEMMA AcceptableStep ==
  ASSUME TypeOK, Consistency, MutexHeld, Alone, Acceptable, [Next]_vars
  PROVE  Acceptable'
<1>1. ASSUME NEW t \in Thread, Starts(t) PROVE Acceptable'
  <2>1. PICK op, pc, d, b : Begin(t, op, pc, d, b) /\ pc \in {"Query", "Lock", "RLock"}
                            /\ (op = "AddReader" => pc = "Query")
    BY <1>1 DEF Starts, Call, CallAddReader, CallRemoveReader, CallSetBehavior, CallAll, CallLook
  <2>2. local'[t].pc = pc /\ local'[t].op = op
    BY <2>1, BeginDoes, Zenon
  <2>3. UNCHANGED <<group, behavior, suspect>>
    BY <2>1 DEF Begin
  <2>4. \A u \in Thread : Carried(u)' /\ (Replacing(u)' => Replacing(u))
    BY <1>1, <2>1, <2>2, OthersStay DEF Acceptable, Carried, Replacing, At
  <2> QED BY <2>3, <2>4, AcceptableFrame
<1>2. ASSUME NEW t \in Thread, Continues(t) PROVE Acceptable'
  BY <1>2, ContinuesAcceptable
<1>3. CASE UNCHANGED <<local, group, behavior>> /\ suspect \subseteq suspect'
  <2>1. \A t \in Thread : Carried(t)' /\ (Replacing(t)' => Replacing(t))
    BY <1>3 DEF Acceptable, Carried, Replacing, At
  <2> QED BY <1>3, <2>1, AcceptableFrame
<1> QED BY <1>1, <1>2, <1>3 DEF Next, Over, vars, Trigger, Expire, Reset

LEMMA BehaviorInvariant ==
  ASSUME TypeOK, MatchesOrOwed, Acceptable
  PROVE  EveryoneOnBehavior
<1> SUFFICES ASSUME NEW d \in group \ suspect
             PROVE  /\ <<d, behavior>> \in Accepts
                    /\ Quiet(d) => device[d] # NoSpec /\ device[d].behavior = behavior
  BY DEF EveryoneOnBehavior
<1>1. Quiet(d) => \A t \in Thread : ~Owes(t, d)
  BY DEF Quiet, Owes, Brings, Replacing, At
<1> QED BY <1>1 DEF TypeOK, MatchesOrOwed, Accounted, Matches, Acceptable
-----------------------------------------------------------------------------
(* The group follows the connection events of each reader. *)

LEMMA InTransitMoves == \A d : InTransit(d) <=> \E t \in Thread : Moves(t, d)
BY DEF InTransit, Moves

LEMMA UnsureFollows == \A d \in Device : wanted[d] = "Unsure" => Follow(d)
BY DEF Follow

\* As long as a reader is wanted where it was, and whoever moves it goes on.
LEMMA FollowFrame ==
  ASSUME TypeOK, TypeOK', NEW t \in Thread, \A u \in Thread \ {t} : local'[u] = local[u],
         NEW d \in Device, Follow(d), wanted'[d] = wanted[d],
         d \in group' <=> d \in group, lag'[d] <= lag[d],
         Moves(t, d)' = Moves(t, d),
         Moves(t, d) => /\ local'[t].op = local[t].op
                        /\ local'[t].pc = "Query" => /\ local[t].pc = "Query"
                                                     /\ local'[t].tries = local[t].tries
  PROVE  Follow(d)'
<1>1. \A u \in Thread : Moves(u, d)' = Moves(u, d)
  BY DEF Moves
<1>2. InTransit(d)' = InTransit(d)
  BY <1>1 DEF InTransit, Moves
<1>3. \A u \in Thread : Moves(u, d) => local'[u].op = local[u].op
  OBVIOUS
<1>4. ASSUME NEW u \in Thread, Moves(u, d), Reaches(u, d) PROVE Reaches(u, d)'
  <2>1. SUFFICES ASSUME local'[u].pc = "Query"
                 PROVE  2 * lag'[d] + local'[u].tries * (local'[u].tries + 1)
                        <= (MaxTries - 1) * MaxTries
    BY DEF Reaches
  <2>2. local[u].pc = "Query" /\ local'[u].tries = local[u].tries
    BY <1>4, <2>1
  <2> DEFINE x == local[u].tries * (local[u].tries + 1)
             y == (MaxTries - 1) * MaxTries
  <2>3. 2 * lag[d] + x <= y
    BY <1>4, <2>2 DEF Reaches
  <2>4. x \in Int /\ y \in Int /\ lag[d] \in Int /\ lag'[d] \in Int
    BY ReaderGroupAssumption DEF TypeOK, Local
  <2> HIDE DEF x, y
  <2>5. 2 * lag'[d] + x <= y
    BY <2>3, <2>4
  <2> QED BY <2>2, <2>5 DEF x, y
<1>5. OneMoves(d) => OneMoves(d)'
  BY <1>1 DEF OneMoves
<1>6. BroughtIn(d) => BroughtIn(d)'
  BY <1>1, <1>3, <1>4 DEF BroughtIn
<1>7. TakenOut(d) => TakenOut(d)'
  BY <1>1, <1>3 DEF TakenOut
<1> QED BY <1>2, <1>5, <1>6, <1>7 DEF Follow

\* A goroutine that has nothing to do with d.
LEMMA StrangerFrame ==
  ASSUME TypeOK, TypeOK', NEW t \in Thread, \A u \in Thread \ {t} : local'[u] = local[u],
         NEW d \in Device, Follow(d), wanted'[d] = wanted[d],
         d \in group' <=> d \in group, lag'[d] <= lag[d],
         ~Moves(t, d), ~Moves(t, d)'
  PROVE  Follow(d)'
<1>1. Moves(t, d)' = Moves(t, d)
  BY DEF Moves
<1> QED BY <1>1, FollowFrame

\* AddReader fails: its reader need not be anywhere.
LEMMA FailFollows ==
  ASSUME TypeOK, TypeOK', NEW t \in Thread, \A u \in Thread \ {t} : local'[u] = local[u],
         NEW d \in Device, Follow(d), Fail(t), local[t].dev \in Device,
         UNCHANGED <<group, lag>>
  PROVE  Follow(d)'
<1>1. CASE d = local[t].dev
  <2>1. wanted'[d] = "Unsure"
    BY <1>1 DEF Fail, TypeOK
  <2> QED BY <2>1 DEF Follow
<1>2. CASE d # local[t].dev
  <2>1. wanted'[d] = wanted[d] /\ lag'[d] <= lag[d]
    BY <1>2 DEF Fail, TypeOK
  <2>2. ~Moves(t, d) /\ ~Moves(t, d)'
    BY <1>2, FailDoes DEF Moves
  <2> QED BY <2>1, <2>2, StrangerFrame
<1> QED BY <1>1, <1>2

LEMMA StartsFollow ==
  ASSUME TypeOK, TypeOK', NEW t \in Thread, Starts(t), NEW d \in Device, Follow(d)
  PROVE  Follow(d)'
<1>0. /\ \A u \in Thread \ {t} : local'[u] = local[u]
      /\ UNCHANGED <<group, lag>> /\ local[t].op = "None" /\ lag'[d] <= lag[d]
  <2>1. \E op, pc, e, b : Begin(t, op, pc, e, b)
    BY DEF Starts, Call, CallAddReader, CallRemoveReader, CallSetBehavior, CallAll, CallLook
  <2> QED BY <2>1, OthersStay DEF Begin, TypeOK
<1>1. ASSUME NEW e \in Device, NEW op \in {"AddReader", "RemoveReader"},
             NEW pc, Begin(t, op, pc, e, Nobody), NEW w \in {"In", "Out", "Unsure"}, Want(e, w),
             w = "In" => op = "AddReader" /\ InReach(e),
             w = "Out" => op = "RemoveReader"
      PROVE  Follow(d)'
  <2>1. local'[t].op = op /\ local'[t].dev = e /\ local'[t].tries = 0
    BY <1>1, BeginDoes, Zenon
  <2>2. CASE d # e
    <3>1. wanted'[d] = wanted[d]
      BY <1>1, <2>2 DEF Want, TypeOK
    <3>2. ~Moves(t, d) /\ ~Moves(t, d)'
      BY <1>0, <2>1, <2>2 DEF Moves
    <3> QED BY <1>0, <3>1, <3>2, StrangerFrame
  <2>3. CASE d = e
    <3>1. wanted'[d] = IF InTransit(d) THEN "Unsure" ELSE w
      BY <1>1, <2>3 DEF Want, TypeOK
    <3>2. CASE InTransit(d) \/ w = "Unsure"
      BY <3>1, <3>2 DEF Follow
    <3>3. CASE ~InTransit(d) /\ w # "Unsure"
      <4>1. \A u \in Thread \ {t} : ~Moves(u, d)'
        BY <1>0, <3>3 DEF InTransit, Moves
      <4>2. InTransit(d)' /\ OneMoves(d)'
        BY <2>1, <2>3, <4>1 DEF InTransit, OneMoves, Moves
      <4>3. w = "In" => BroughtIn(d)'
        <5>1. SUFFICES ASSUME w = "In" PROVE local'[t].op = "AddReader" /\ Reaches(t, d)'
          BY <4>1 DEF BroughtIn
        <5>2. 2 * lag[d] <= (MaxTries - 1) * MaxTries
          BY <1>1, <2>3, <5>1 DEF InReach
        <5> DEFINE y == (MaxTries - 1) * MaxTries
        <5>3. lag'[d] = lag[d] /\ lag[d] \in Nat /\ y \in Int
          BY <1>0, ReaderGroupAssumption DEF TypeOK
        <5> HIDE DEF y
        <5>4. 2 * lag'[d] + 0 * (0 + 1) <= y
          BY <5>2, <5>3 DEF y
        <5> QED BY <1>1, <2>1, <5>1, <5>4 DEF Reaches, y
      <4>4. w = "Out" => TakenOut(d)'
        BY <1>1, <2>1, <4>1 DEF TakenOut
      <4> QED BY <3>1, <3>3, <4>2, <4>3, <4>4 DEF Follow
    <3> QED BY <3>2, <3>3
  <2> QED BY <2>2, <2>3
<1>2. ASSUME NEW op \in {"SetBehavior", "StartAll", "StopAll", "Look"}, NEW pc, NEW e, NEW b,
             Begin(t, op, pc, e, b), UNCHANGED wanted
      PROVE  Follow(d)'
  <2>1. local'[t].op = op
    BY <1>2, BeginDoes, Zenon
  <2>2. ~Moves(t, d) /\ ~Moves(t, d)'
    BY <1>0, <2>1 DEF Moves
  <2> QED BY <1>0, <1>2, <2>2, StrangerFrame
<1>3. ASSUME NEW e \in Device, CallAddReader(t, e) PROVE Follow(d)'
  BY <1>1, <1>3 DEF CallAddReader, Call, WantIn
<1>4. ASSUME NEW e \in Device, CallRemoveReader(t, e) PROVE Follow(d)'
  BY <1>1, <1>4 DEF CallRemoveReader, Call
<1>5. ASSUME NEW b \in Behavior, CallSetBehavior(t, b) PROVE Follow(d)'
  BY <1>2, <1>5 DEF CallSetBehavior, Call
<1>6. ASSUME NEW op \in {"StartAll", "StopAll"}, CallAll(t, op) PROVE Follow(d)'
  BY <1>2, <1>6 DEF CallAll, Call
<1>7. CASE CallLook(t)
  BY <1>2, <1>7 DEF CallLook, Call
<1> QED BY <1>3, <1>4, <1>5, <1>6, <1>7 DEF Starts

\* The pauses of GetCapabilities add up to what a reader may lag.
LEMMA PausesAddUp ==
  ASSUME NEW m \in Nat \ {0}, NEW n \in Nat, n < m, NEW k \in Nat, NEW j \in Nat,
         2 * k + (n - 1) * n <= (m - 1) * m, k > n => j = k - n, k <= n => j = 0
  PROVE  2 * j + n * (n + 1) <= (m - 1) * m
<1>1. (n - 1) * n = n * n - n /\ n * (n + 1) = n * n + n /\ (m - 1) * m = m * m - m
  OBVIOUS
<1>2. CASE k > n
  BY <1>1, <1>2
<1>3. CASE k <= n
  <2>1. n * (n + 1) <= (m - 1) * m
    <3>1. PICK i \in Nat : m = n + 1 + i
      <4>1. m - n - 1 \in Nat /\ m = n + 1 + (m - n - 1)
        OBVIOUS
      <4> QED BY <4>1
    <3>2. (n + i) * (n + 1 + i) = n * (n + 1) + i * (2 * n + 1 + i)
      OBVIOUS
    <3>3. i * (2 * n + 1 + i) >= 0
      OBVIOUS
    <3>4. (m - 1) * m = (n + i) * (n + 1 + i)
      BY <3>1
    <3> QED BY <3>2, <3>3, <3>4
  <2> QED BY <1>3, <2>1
<1> QED BY <1>2, <1>3

\* AddReader and RemoveReader are done: the reader is in the group or not.
LEMMA MovedFollows ==
  ASSUME TypeOK, TypeOK', NEW t \in Thread, \A u \in Thread \ {t} : local'[u] = local[u],
         NEW d \in Device, Follow(d), Become(t, Returned), UNCHANGED <<wanted, lag>>,
         local[t].dev \in Device,
         \/ local[t].op = "AddReader" /\ group' = group \cup {local[t].dev}
         \/ local[t].op = "RemoveReader" /\ group' = group \ {local[t].dev}
  PROVE  Follow(d)'
<1>0. ~Moves(t, d)' /\ lag'[d] <= lag[d]
  BY ReturnDoes DEF Moves, TypeOK
<1>1. CASE d # local[t].dev
  <2>1. ~Moves(t, d) /\ (d \in group' <=> d \in group)
    BY <1>1 DEF Moves
  <2> QED BY <1>0, <2>1, StrangerFrame
<1>2. CASE d = local[t].dev
  <2>1. Moves(t, d)
    BY <1>2 DEF Moves
  <2>2. wanted[d] # "Unsure" => \A u \in Thread : ~Moves(u, d)'
    BY <1>0, <2>1 DEF Follow, OneMoves, Moves
  <2>3. wanted[d] = "In" => d \in group'
    BY <1>2, <2>1 DEF Follow, BroughtIn
  <2>4. wanted[d] = "Out" => d \notin group'
    BY <1>2, <2>1 DEF Follow, TakenOut
  <2>5. wanted[d] # "Unsure" => OneMoves(d)' /\ BroughtIn(d)' /\ TakenOut(d)'
    BY <2>2 DEF OneMoves, BroughtIn, TakenOut
  <2> QED BY <2>3, <2>4, <2>5 DEF Follow
<1> QED BY <1>1, <1>2

LEMMA AskingFollows ==
  ASSUME TypeOK, TypeOK', Consistency, NEW t \in Thread,
         \A u \in Thread \ {t} : local'[u] = local[u],
         NEW d \in Device, Follow(d), GetCapabilities(t)
  PROVE  Follow(d)'
<1> DEFINE l == local[t]
           n == l.tries + 1
<1>0. /\ l \in Local /\ l.dev \in Device /\ UNCHANGED group
      /\ l.op = "AddReader" /\ l.pc = "Query"
      /\ n \in Nat /\ n - 1 \in Nat /\ n <= MaxTries /\ MaxTries \in Nat \ {0}
      /\ l.tries = n - 1
  BY DevOf, ReaderGroupAssumption DEF GetCapabilities, At, TypeOK, Local
<1>1. CASE Answers(t, l.dev)
  <2>1. CASE Fail(t)
    BY <1>0, <1>1, <2>1, FailFollows DEF Answers
  <2>2. CASE ~Fail(t)
    <3>1. /\ local'[t].pc \in {"Extend", "Config"} /\ local'[t].op = l.op /\ local'[t].dev = l.dev
          /\ UNCHANGED <<wanted, lag>>
      BY <1>1, <2>2, GotoDoes DEF Answers, Pc
    <3>2. Moves(t, d)' = Moves(t, d) /\ lag'[d] <= lag[d]
      BY <3>1 DEF Moves, TypeOK
    <3> QED BY <1>0, <3>1, <3>2, FollowFrame
  <2> QED BY <2>1, <2>2
<1>2. CASE AskedInVain(t, l.dev, n, n)
  <2>1. lag[l.dev] > 0 /\ wanted' = wanted /\ lag \in [Device -> Nat]
    BY <1>2 DEF AskedInVain, TypeOK
  <2>2. CASE n < MaxTries /\ Pass(n) /\ Become(t, [l EXCEPT !.tries = n])
    <3>1. /\ local'[t].op = l.op /\ local'[t].dev = l.dev /\ local'[t].tries = n
          /\ local'[t].pc = "Query"
      BY <1>0, <2>2 DEF Become, TypeOK, Local
    <3>2. \A e \in Device : /\ lag'[e] <= lag[e]
                            /\ lag[e] > n => lag'[e] = lag[e] - n
                            /\ lag[e] <= n => lag'[e] = 0
      BY <1>0, <2>1, <2>2, PassDoes
    <3>3. CASE d # l.dev
      <4>1. ~Moves(t, d) /\ ~Moves(t, d)'
        BY <3>1, <3>3 DEF Moves
      <4> QED BY <1>0, <2>1, <3>2, <4>1, StrangerFrame
    <3>4. CASE d = l.dev
      <4>1. wanted[d] # "Unsure" =>
              /\ OneMoves(d) /\ Moves(t, d) /\ \A u \in Thread \ {t} : ~Moves(u, d) /\ ~Moves(u, d)'
        BY <1>0, <3>4 DEF Follow, OneMoves, Moves
      <4>2. Moves(t, d)' /\ InTransit(d)'
        BY <1>0, <3>1, <3>4 DEF Moves, InTransit
      <4>3. wanted[d] # "Unsure" => OneMoves(d)'
        BY <4>1 DEF OneMoves
      <4>4. wanted[d] # "Out"
        BY <1>0, <4>1 DEF Follow, TakenOut
      <4>5. wanted[d] = "In" => Reaches(t, d)'
        <5>1. SUFFICES ASSUME wanted[d] = "In" PROVE Reaches(t, d)'
          OBVIOUS
        <5>2. 2 * lag[d] + (n - 1) * n <= (MaxTries - 1) * MaxTries
          <6>1. Reaches(t, d)
            BY <4>1, <5>1 DEF Follow, BroughtIn
          <6>2. l.tries + 1 = n /\ l.tries = n - 1
            BY <1>0
          <6> HIDE DEF n
          <6> QED BY <1>0, <6>1, <6>2 DEF Reaches
        <5>3. 2 * lag'[d] + n * (n + 1) <= (MaxTries - 1) * MaxTries
          <6>1. lag[d] \in Nat /\ lag'[d] \in Nat
            BY DEF TypeOK
          <6> HIDE DEF n
          <6> QED BY <1>0, <2>2, <3>2, <5>2, <6>1, PausesAddUp
        <5> QED BY <3>1, <5>3 DEF Reaches
      <4>6. wanted[d] = "In" => BroughtIn(d)'
        BY <1>0, <3>1, <4>1, <4>5 DEF BroughtIn
      <4> QED BY <2>1, <4>2, <4>3, <4>4, <4>6 DEF Follow, TypeOK
    <3> QED BY <3>3, <3>4
  <2>3. CASE n = MaxTries /\ Become(t, Returned) /\ UNCHANGED lag
    <3>1. ~Moves(t, d)' /\ lag'[d] <= lag[d]
      BY <2>1, <2>3, ReturnDoes DEF Moves
    <3>2. CASE d # l.dev
      <4>1. ~Moves(t, d)
        BY <3>2 DEF Moves
      <4> QED BY <1>0, <2>1, <3>1, <4>1, StrangerFrame
    <3>3. CASE d = l.dev
      <4>1. Moves(t, d)
        BY <1>0, <3>3 DEF Moves
      <4>2. wanted[d] # "In"
        <5>1. SUFFICES ASSUME wanted[d] = "In" PROVE FALSE
          OBVIOUS
        <5>2. Reaches(t, d)
          BY <4>1, <5>1 DEF Follow, BroughtIn
        <5> DEFINE y == (MaxTries - 1) * MaxTries
        <5>3. 2 * lag[d] + l.tries * (l.tries + 1) <= y
          BY <1>0, <5>2 DEF Reaches
        <5>4. l.tries * (l.tries + 1) = y /\ y \in Int
          BY <1>0, <2>3
        <5> HIDE DEF y
        <5> QED BY <2>1, <3>3, <5>3, <5>4
      <4>3. wanted[d] # "Out"
        BY <1>0, <4>1 DEF Follow, TakenOut
      <4> QED BY <2>1, <4>2, <4>3 DEF Follow, TypeOK
    <3> QED BY <3>2, <3>3
  <2> QED BY <1>2, <2>2, <2>3 DEF AskedInVain
<1> QED BY <1>1, <1>2 DEF GetCapabilities

LEMMA ContinuesFollow ==
  ASSUME TypeOK, TypeOK', Consistency, NEW t \in Thread, Continues(t), NEW d \in Device, Follow(d)
  PROVE  Follow(d)'
<1> DEFINE l == local[t]
<1>0. /\ \A u \in Thread \ {t} : local'[u] = local[u]
      /\ l.op \in {"AddReader", "RemoveReader"} => l.dev \in Device
      /\ UNCHANGED lag => lag'[d] <= lag[d]
  BY OthersStay, DevOf DEF TypeOK
<1>1. CASE GetCapabilities(t)
  BY <1>0, <1>1, AskingFollows
<1>2. CASE (EnableCustomExt(t) \/ SetConfig(t) \/ WantInsert(t) \/ CopyBehavior(t)) /\ Fail(t)
  <2>1. UNCHANGED <<group, lag>> /\ l.op = "AddReader"
    BY <1>2 DEF EnableCustomExt, SetConfig, WantInsert, CopyBehavior, At
  <2> QED BY <1>0, <1>2, <2>1, FailFollows
<1>3. CASE Insert(t) \/ Remove(t)
  BY <1>0, <1>3, MovedFollows DEF Insert, Remove, At
<1>4. ASSUME UNCHANGED <<group, lag, wanted>>, local'[t].op = l.op, local'[t].dev = l.dev,
             local'[t].pc # "Query"
      PROVE  Follow(d)'
  <2>1. Moves(t, d)' = Moves(t, d)
    BY <1>4 DEF Moves
  <2> QED BY <1>0, <1>4, <2>1, FollowFrame
<1>5. CASE (EnableCustomExt(t) \/ SetConfig(t) \/ WantInsert(t) \/ CopyBehavior(t)) /\ ~Fail(t)
  <2>1. CASE \E pc \in {"Config", "RLock", "Lock"} : Goto(t, pc)
    <3>1. UNCHANGED <<group, lag, wanted>>
      BY <1>5 DEF EnableCustomExt, SetConfig, WantInsert, CopyBehavior
    <3>2. local'[t].op = l.op /\ local'[t].dev = l.dev /\ local'[t].pc # "Query"
      BY <2>1, GotoDoes DEF Pc
    <3> QED BY <1>4, <3>1, <3>2
  <2>2. CASE CopyBehavior(t)
    <3>1. UNCHANGED <<group, lag, wanted>>
      BY <1>5, <2>2 DEF CopyBehavior
    <3> QED BY <1>4, <1>5, <2>2, <3>1, CopyBehaviorDoes
  <2> QED BY <1>5, <2>1, <2>2 DEF EnableCustomExt, SetConfig, WantInsert
<1>6. CASE WantRead(t) \/ WantWrite(t)
  BY <1>4, <1>6, GotoDoes DEF WantRead, WantWrite, Private, Pc
<1>7. ASSUME NEW e \in Device, ReplaceStep(t, e) \/ CommandOfAll(t, e) PROVE Follow(d)'
  BY <1>4, <1>7, SentDoes DEF ReplaceStep, CommandOfAll
<1>8. ASSUME UNCHANGED <<group, lag, wanted>>,
             l.op \notin {"AddReader", "RemoveReader"}, local'[t].op \notin {"AddReader", "RemoveReader"}
      PROVE  Follow(d)'
  <2>1. ~Moves(t, d) /\ ~Moves(t, d)'
    BY <1>8 DEF Moves
  <2> QED BY <1>0, <1>8, <2>1, StrangerFrame
<1>9. CASE Accept(t)
  BY <1>8, <1>9, AcceptDoes, ReturnDoes DEF Accept
<1>10. CASE FinishSetBehavior(t) \/ FinishAll(t) \/ FinishLook(t)
  <2>1. l.op \in {"SetBehavior", "StartAll", "StopAll", "Look"}
    BY <1>10 DEF FinishSetBehavior, FinishAll, FinishLook, At, Consistency, Consistent
  <2> QED BY <1>8, <1>10, <2>1, ReturnDoes DEF FinishSetBehavior, FinishAll, FinishLook, Private
<1>11. CASE EnterAll(t)
  <2>1. local'[t].op = l.op /\ l.op \in {"StartAll", "StopAll"}
    BY <1>11 DEF EnterAll, Become, TypeOK, Local
  <2> QED BY <1>8, <1>11, <2>1 DEF EnterAll, Private
<1>12. ASSUME NEW e \in Device, NextOfAll(t, e) PROVE Follow(d)'
  <2>1. local'[t].op = l.op /\ l.op \in {"StartAll", "StopAll"}
    BY <1>12, NextOfAllDoes DEF NextOfAll, Consistency, Consistent
  <2> QED BY <1>8, <1>12, <2>1 DEF NextOfAll
<1> QED BY <1>1, <1>2, <1>3, <1>5, <1>6, <1>7, <1>9, <1>10, <1>11, <1>12 DEF Continues

LEMMA FollowsStep ==
  ASSUME TypeOK, Consistency, Follows, [Next]_vars
  PROVE  Follows'
<1> SUFFICES ASSUME NEW d \in Device, Follow(d) PROVE Follow(d)'
  BY DEF Follows
<1>0. TypeOK'
  BY TypeStep
<1>1. ASSUME NEW t \in Thread, Starts(t) PROVE Follow(d)'
  BY <1>0, <1>1, StartsFollow
<1>2. ASSUME NEW t \in Thread, Continues(t) PROVE Follow(d)'
  BY <1>0, <1>2, ContinuesFollow
<1>3. ASSUME UNCHANGED <<local, group>>, lag'[d] = lag[d], wanted'[d] = wanted[d]
      PROVE  Follow(d)'
  BY <1>3 DEF Follow, OneMoves, BroughtIn, TakenOut, Moves, Reaches, InTransit
<1>4. ASSUME NEW e \in Device, Trigger(e) \/ Expire(e) PROVE Follow(d)'
  BY <1>3, <1>4 DEF Trigger, Expire
<1>5. ASSUME NEW e \in Device, Reset(e) PROVE Follow(d)'
  <2>1. UNCHANGED <<local, group>>
    BY <1>5 DEF Reset
  <2>2. CASE d # e
    BY <1>3, <1>5, <2>1, <2>2 DEF Reset, TypeOK
  <2>3. CASE d = e /\ InTransit(d)
    <3>1. wanted'[d] = "Unsure"
      BY <1>5, <2>3 DEF Reset, TypeOK
    <3> QED BY <3>1 DEF Follow
  <2>4. CASE d = e /\ ~InTransit(d)
    <3>1. wanted'[d] = wanted[d]
      BY <1>5, <2>4 DEF Reset, TypeOK
    <3>2. \A u \in Thread : ~Moves(u, d) /\ ~Moves(u, d)'
      BY <2>1, <2>4 DEF InTransit, Moves
    <3>3. OneMoves(d)' /\ BroughtIn(d)' /\ TakenOut(d)'
      BY <3>2 DEF OneMoves, BroughtIn, TakenOut
    <3> QED BY <2>1, <2>4, <3>1, <3>3 DEF Follow
  <2> QED BY <2>2, <2>3, <2>4
<1>6. CASE UNCHANGED vars
  BY <1>3, <1>6 DEF vars
<1> QED BY <1>1, <1>2, <1>4, <1>5, <1>6 DEF Next, Over

LEMMA FollowsInvariant ==
  ASSUME Follows
  PROVE  FollowsEvents
BY DEF Follows, Follow, FollowsEvents
-----------------------------------------------------------------------------
(* All together. *)

LEMMA InitInv == Init => Inv
<1> SUFFICES ASSUME Init PROVE Inv
  OBVIOUS
<1> USE ReaderGroupAssumption
<1>1. \A t \in Thread : local[t] = Returned /\ Fits(local[t])
  BY ReturnedFits DEF Init
<1>2. TypeOK
  <2>1. lag \in [Device -> Nat]
    BY DEF Init
  <2>2. device \in [Device -> ROSpecs]
    BY ROSpecTypes DEF Init
  <2>3. local \in [Thread -> Local]
    BY ReturnedFits DEF Init, Fits
  <2> QED BY <2>1, <2>2, <2>3 DEF Init, TypeOK, Unlocked
<1>3. Consistency
  BY <1>1 DEF Consistency, Fits
<1>4. \A t \in Thread : /\ local[t].op = "None" /\ local[t].pc = "Idle"
                        /\ \A d \in Device : local[t].chain[d] = <<>>
  BY <1>1, NothingToSend DEF Returned
<1>5. MutexHeld
  BY <1>4 DEF MutexHeld, Announced, Outlasted, LoopsRead, ReadersAt, QueueAt, RLockedAt, QueueBehind,
              Writing, Replacing, At, Init, Unlocked
<1>6. Alone
  BY <1>4 DEF Alone, Replacing, At
<1>7. Promises
  BY <1>4 DEF Promises, Init
<1>8. MatchesOrOwed
  BY <1>4 DEF MatchesOrOwed, Accounted, Brought, Brings, Init
<1>9. Follows
  BY DEF Follows, Follow, Init
<1>10. Acceptable
  BY <1>4 DEF Acceptable, Carried, Replacing, At, Init
<1> QED BY <1>2, <1>3, <1>5, <1>6, <1>7, <1>8, <1>9, <1>10 DEF Inv

LEMMA Step == Inv /\ [Next]_vars => Inv'
BY TypeStep, MutexStep, AloneStep, PromisesStep, OwedStep, AcceptableStep, FollowsStep DEF Inv

\* Every state of the group keeps what Inv says.
THEOREM Invariant == Spec => []Inv
BY InitInv, Step, PTL DEF Spec

\* Every variable keeps the type of the Go value it stands for.
THEOREM TypeCorrect == Spec => []TypeOK
<1>1. Inv => TypeOK
  BY DEF Inv
<1> QED BY <1>1, Invariant, PTL

\* While SetBehavior replaces the ROSpecs of the group it is alone with it,
\* however many calls run (reader_group.go 194-195, 225).
THEOREM AloneAlways == Spec => []ReplacesAlone
<1>1. Inv => ReplacesAlone
  BY AloneInvariant DEF Inv
<1> QED BY <1>1, Invariant, PTL

\* Nobody waits in a circle for the mutex, for any number of goroutines: whoever
\* waits, waits for one that goes on.
THEOREM NobodyStuck == Spec => []HolderGoesOn
<1>1. Inv => HolderGoesOn
  BY HolderInvariant DEF Inv
<1> QED BY <1>1, Invariant, PTL

\* Every reader of the group about which no error is known, and that did not
\* join while the behavior changed, can do what the group's behavior asks and
\* holds its ROSpec.
THEOREM BehaviorEverywhere == Spec => []EveryoneOnBehavior
<1>1. Inv => EveryoneOnBehavior
  BY BehaviorInvariant DEF Inv
<1> QED BY <1>1, Invariant, PTL

\* What a StartAll or StopAll did to a reader without an error stays done.
THEOREM PromisesStay == Spec => []PromisesKept
<1>1. Inv => PromisesKept
  BY PromisesInvariant DEF Inv
<1> QED BY <1>1, Invariant, PTL

\* The group holds the readers that their events say, for any number of tries
\* of GetCapabilities: its pauses add up to what InReach allows a reader to lag.
THEOREM EventsFollowed == Spec => []FollowsEvents
<1>1. Inv => FollowsEvents
  BY FollowsInvariant DEF Inv
<1> QED BY <1>1, Invariant, PTL
=============================================================================
