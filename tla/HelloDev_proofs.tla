-------------------------- MODULE HelloDev_proofs --------------------------
(***************************************************************************)
(* The driver for any processes, any length of the buffer and any of the   *)
(* preemptions a kernel may allow.                                         *)
(*                                                                         *)
(* One process at a time holds the device on a kernel that does not        *)
(* preempt dev_open() and dev_release().  The argument: only one process   *)
(* is inside a handler at a place it is not scheduled away from, so what   *)
(* it has read of device_open_count is still true when it writes it.       *)
(*                                                                         *)
(* On every kernel the module's references are the files open on it, the   *)
(* variables keep their types and the /proc file returns the age written;  *)
(* cursor and data count are right where their handlers are undisturbed.   *)
(***************************************************************************)
EXTENDS HelloDev, FiniteSetTheorems, TLAPS

Points == UserPoints \cup SleepPoints \cup HandlerPoints

(* The kernels the result is about.                                        *)
CountsUndisturbed == preemptible \cap CountPoints = {}

Typed ==
    /\ pc \in [Processes -> Points]
    /\ reg \in [Processes -> Int]
    /\ device_open_count \in Int /\ new_data_is_ready \in Int /\ msg_ptr \in Int

(* A writer of the /proc file is never at a point of the device.           *)
ProcPoints == {"idle", "proc_test", "proc_copy", "signalling", "storing", "waking"}

Apart == \A p \in ProcWriters : pc[p] \in ProcPoints

(* Where an opener holds no open file, or is about to open or close it.    *)
EdgePoints == {"idle"} \cup CountPoints

(* At most one process keeps the CPU from the others.                      *)
OneBusy == \A p, q \in Processes : ~Away(p) /\ ~Away(q) => p = q

(* What dev_open() and dev_release() have read is still true.              *)
CountHeld ==
    \A p \in Processes :
        /\ pc[p] = "counting" => device_open_count = 0 /\ loaded
        /\ pc[p] = "releasing" => reg[p] = device_open_count

RefsFollow == refs = (IF Holders = {} THEN 0 ELSE 1) /\ (~loaded => refs = 0)

HolderInv == CountsUndisturbed => OneBusy /\ CountHeld /\ RefsFollow /\ OneHolder

IInv == Typed /\ Apart /\ HolderInv

----------------------------------------------------------------------------
LEMMA RolesApart == Openers \cap ProcWriters = {} /\ Processes = Openers \cup ProcWriters
BY HelloDevAssumption DEF Openers, Processes

LEMMA InvInit == Init => IInv
<1> SUFFICES ASSUME Init PROVE IInv
  OBVIOUS
<1>1. Typed /\ Apart
  BY DEF Init, Typed, Apart, Points, UserPoints, ProcPoints, NULL, Processes
<1>3. Holders = {}
  BY RolesApart DEF Init, Holders
<1>2. OneBusy /\ CountHeld /\ RefsFollow
  BY <1>3 DEF Init, OneBusy, Away, UserPoints, CountHeld, RefsFollow
<1>4. OneHolder
  BY <1>3 DEF Init, OneHolder
<1> QED BY <1>1, <1>2, <1>4 DEF IInv, HolderInv

(* A step of p alone that neither opens nor closes the device.             *)
Quiet(p) ==
    /\ \A q \in Processes \ {p} : Away(q)
    /\ \E y \in Points :
        /\ pc' = [pc EXCEPT ![p] = y]
        /\ p \in Openers => /\ pc[p] \notin EdgePoints
                            /\ y \notin EdgePoints
        /\ p \in ProcWriters => y \in ProcPoints
    /\ reg' \in [Processes -> Int]
    /\ \A q \in Processes \ {p} : reg'[q] = reg[q]
    /\ new_data_is_ready' \in Int /\ msg_ptr' \in Int
    /\ UNCHANGED <<device_open_count, refs, loaded, preemptible, undefined>>

LEMMA QuietKeeps ==
    ASSUME IInv, NEW p \in Processes, Quiet(p)
    PROVE  IInv'
<1> PICK y \in Points :
        /\ pc' = [pc EXCEPT ![p] = y]
        /\ p \in Openers => /\ pc[p] \notin EdgePoints
                            /\ y \notin EdgePoints
        /\ p \in ProcWriters => y \in ProcPoints
  BY DEF Quiet
<1>1. Typed'
  BY DEF IInv, Typed, Quiet
<1>2. Apart'
  BY DEF IInv, Typed, Apart, Quiet
<1>3. ASSUME CountsUndisturbed'
      PROVE  OneBusy' /\ CountHeld' /\ RefsFollow' /\ OneHolder'
  <2>1. CountsUndisturbed /\ OneBusy /\ CountHeld /\ RefsFollow /\ OneHolder
    BY <1>3 DEF CountsUndisturbed, IInv, HolderInv, Quiet
  <2>2. \A q \in Processes \ {p} : pc'[q] = pc[q] /\ Away(q)' /\ Away(q)
    BY DEF Quiet, Away, IInv, Typed
  <2>3. OneBusy'
    BY <2>2 DEF OneBusy
  <2>4. pc[p] \notin CountPoints /\ pc'[p] \notin CountPoints
    BY RolesApart DEF IInv, Typed, Apart, ProcPoints, EdgePoints, CountPoints
  <2>5. CountHeld'
    BY <2>1, <2>2, <2>4 DEF CountHeld, Quiet, CountPoints
  <2>7. Holders' = Holders
    BY <2>2, RolesApart DEF Holders, IInv, Typed, EdgePoints, CountPoints
  <2>6. RefsFollow'
    BY <2>1, <2>7 DEF RefsFollow, Quiet
  <2>9. \A q \in Processes : pc'[q] = "putting" <=> pc[q] = "putting"
    BY <2>2, <2>4 DEF CountPoints
  <2>10. \A q \in Holders : q \in Processes
    BY RolesApart DEF Holders
  <2>8. OneHolder'
    BY <2>1, <2>7, <2>9, <2>10, <1>3 DEF OneHolder, Quiet, CountsUndisturbed
  <2> QED BY <2>3, <2>5, <2>6, <2>8
<1> QED BY <1>1, <1>2, <1>3 DEF IInv, HolderInv

----------------------------------------------------------------------------
(* The steps that neither open nor close the device.                       *)
LEMMA QuietSteps ==
    ASSUME IInv, NEW p \in Processes,
           \/ PollWait(p) \/ Enqueue(p) \/ Sleep(p) \/ Woken(p)
           \/ PollPass(p) \/ Take(p) \/ Poll(p) \/ Signal(p)
           \/ SetAge(p) \/ GetAge(p)
           \/ ReadStart(p) \/ ReadChar(p) \/ ReadReturns(p)
           \/ WriteOops(p) \/ WriteStart(p) \/ WriteTest(p) \/ WriteChar(p) \/ WriteEnds(p)
           \/ ProcStart(p) \/ ProcTest(p) \/ ProcChar(p) \/ ProcEnds(p)
           \/ CountData(p) \/ StoreCount(p) \/ WakeUp(p)
    PROVE  Quiet(p)
<1> USE DEF Quiet, EdgePoints, At, Goto, Still, globals, locals
<1>t. Typed /\ (p \in ProcWriters => pc[p] \in ProcPoints) /\ (p \in Openers => p \notin ProcWriters)
  BY RolesApart DEF IInv, Apart
<1> USE <1>t DEF Typed, ProcPoints, Points, UserPoints, SleepPoints, HandlerPoints,
        WaitPoints, CountPoints, DataPoints, CopyPoints, TestPoints
<1>1. CASE PollPass(p)
  BY <1>1 DEF PollPass
<1>2. CASE Take(p)
  BY <1>2 DEF Take
<1>3. CASE Poll(p)
  <2>1. pc' = [pc EXCEPT ![p] = "asleep"]
    BY <1>3 DEF Poll, PollMask
  <2>2. reg' \in [Processes -> Int] /\ new_data_is_ready' \in Int
    BY <1>3 DEF Poll
  <2> QED BY <1>3, <2>1, <2>2 DEF Poll
<1>4. CASE Signal(p)
  BY <1>4 DEF Signal
<1>5. CASE SetAge(p)
  BY <1>5 DEF SetAge
<1>6. CASE GetAge(p)
  BY <1>6 DEF GetAge
<1>7. CASE ReadStart(p)
  BY <1>7 DEF ReadStart, Rewound
<1>8. CASE ReadChar(p)
  BY <1>8 DEF ReadChar, Reading
<1>9. CASE ReadReturns(p)
  BY <1>9 DEF ReadReturns, Reading
<1>10. CASE WriteOops(p)
  BY <1>10 DEF WriteOops
<1>11. CASE WriteStart(p)
  BY <1>11 DEF WriteStart
<1>12. CASE WriteTest(p)
  BY <1>12 DEF WriteTest
<1>13. CASE WriteChar(p)
  BY <1>13 DEF WriteChar
<1>14. CASE WriteEnds(p)
  BY <1>14 DEF WriteEnds
<1>15. CASE ProcStart(p)
  BY <1>15 DEF ProcStart, Rewound
<1>16. CASE ProcTest(p)
  BY <1>16 DEF ProcTest
<1>17. CASE ProcChar(p)
  BY <1>17 DEF ProcChar
<1>18. CASE ProcEnds(p)
  BY <1>18 DEF ProcEnds
<1>19. CASE CountData(p)
  BY <1>19 DEF CountData
<1>20. CASE WakeUp(p)
  BY <1>20 DEF WakeUp, WriteReturns
<1>21. CASE StoreCount(p)
  BY <1>21 DEF StoreCount
<1>22. CASE PollWait(p) \/ Sleep(p) \/ Woken(p)
  BY <1>22 DEF PollWait, Sleep, Woken
<1>23. CASE Enqueue(p)
  BY <1>23 DEF Enqueue
<1> QED BY <1>1, <1>2, <1>3, <1>4, <1>5, <1>6, <1>7, <1>8, <1>9, <1>10, <1>11, <1>12,
           <1>13, <1>14, <1>15, <1>16, <1>17, <1>18, <1>19, <1>20, <1>21, <1>22, <1>23

(* The steps that change nothing the invariant speaks of.                  *)
LEMMA IdleKeeps ==
    ASSUME IInv,
           UNCHANGED <<pc, reg, device_open_count, new_data_is_ready, msg_ptr, refs, loaded, preemptible>>
    PROVE  IInv'
BY DEF IInv, Typed, Apart, HolderInv, CountsUndisturbed, OneBusy, Away, CountHeld,
       RefsFollow, OneHolder, Holders

----------------------------------------------------------------------------
(* dev_open(), first half: nobody holds the device, and nobody else can    *)
(* come before the second half.                                            *)
LEMMA OpenKeeps ==
    ASSUME IInv, NEW p \in Processes, Open(p)
    PROVE  IInv'
<1>1. /\ p \in Openers /\ p \notin ProcWriters /\ pc[p] = "idle" /\ loaded
      /\ device_open_count = 0
      /\ \A q \in Processes \ {p} : Away(q)
      /\ pc' = [pc EXCEPT ![p] = "counting"]
      /\ UNCHANGED <<preemptible, loaded, refs, reg, device_open_count, new_data_is_ready, msg_ptr>>
  BY RolesApart DEF Open, At, Goto, Still, globals, locals
<1>2. Typed'
  BY <1>1 DEF IInv, Typed, Points, HandlerPoints, CountPoints
<1>3. Apart'
  BY <1>1 DEF IInv, Typed, Apart
<1>4. ASSUME CountsUndisturbed'
      PROVE  OneBusy' /\ CountHeld' /\ RefsFollow' /\ OneHolder'
  <2>1. CountsUndisturbed /\ CountHeld /\ RefsFollow /\ OneHolder
    BY <1>1, <1>4 DEF CountsUndisturbed, IInv, HolderInv
  <2>2. \A q \in Processes \ {p} : pc'[q] = pc[q] /\ Away(q)'
    BY <1>1 DEF Away, IInv, Typed
  <2>3. OneBusy'
    BY <2>2 DEF OneBusy
  <2>4. pc'[p] = "counting"
    BY <1>1 DEF IInv, Typed
  <2>5. CountHeld'
    BY <1>1, <2>1, <2>2, <2>4 DEF CountHeld
  <2>6. Holders' = Holders
    BY <1>1, <2>2, <2>4, RolesApart DEF Holders
  <2>7. Holders = {}
    <3>1. \A q \in Holders : pc[q] = "putting" /\ q # p /\ q \in Processes
      BY <1>1, <2>1, RolesApart DEF OneHolder, CountsUndisturbed, Holders
    <3> QED BY <1>1, <2>1, <3>1 DEF Away, CountsUndisturbed, CountPoints, UserPoints, SleepPoints
  <2> QED BY <1>1, <2>1, <2>3, <2>5, <2>6, <2>7 DEF RefsFollow, OneHolder
<1> QED BY <1>2, <1>3, <1>4 DEF IInv, HolderInv

(* The second half: the count is still 0, and becomes 1.                   *)
LEMMA OpenCountKeeps ==
    ASSUME IInv, NEW p \in Processes, OpenCount(p)
    PROVE  IInv'
<1>1. /\ pc[p] = "counting"
      /\ \A q \in Processes \ {p} : Away(q)
      /\ \E seen \in {0, device_open_count} : device_open_count' = seen + 1
      /\ refs' = refs + 1
      /\ pc' = [pc EXCEPT ![p] = AfterOpen(p)]
      /\ UNCHANGED <<preemptible, loaded, reg, new_data_is_ready, msg_ptr>>
  BY DEF OpenCount, At, Goto, Still, locals
<1>2. p \in Openers /\ p \notin ProcWriters
  BY <1>1, RolesApart DEF IInv, Apart, ProcPoints
<1>3. AfterOpen(p) \in {"polling", "reading", "open"}
  BY DEF AfterOpen
<1>4. Typed'
  BY <1>1, <1>3 DEF IInv, Typed, Points, UserPoints, SleepPoints
<1>5. Apart'
  BY <1>1, <1>2 DEF IInv, Typed, Apart
<1>6. ASSUME CountsUndisturbed'
      PROVE  OneBusy' /\ CountHeld' /\ RefsFollow' /\ OneHolder'
  <2>1. CountsUndisturbed /\ CountHeld /\ RefsFollow /\ OneHolder
    BY <1>1, <1>6 DEF CountsUndisturbed, IInv, HolderInv
  <2>2. \A q \in Processes \ {p} : pc'[q] = pc[q] /\ Away(q) /\ Away(q)'
    BY <1>1 DEF Away, IInv, Typed
  <2>3. OneBusy'
    BY <2>2 DEF OneBusy
  <2>4. pc'[p] \in {"polling", "reading", "open"}
    BY <1>1, <1>3 DEF IInv, Typed
  <2>5. \A q \in Processes : pc'[q] \notin CountPoints
    BY <2>1, <2>2, <2>4 DEF Away, CountsUndisturbed, CountPoints, UserPoints, SleepPoints
  <2>6. device_open_count = 0 /\ loaded
    BY <1>1, <2>1 DEF CountHeld
  <2>8. Holders = {}
    <3>1. \A q \in Holders : pc[q] = "putting" /\ q # p /\ q \in Processes
      BY <1>1, <2>1, <2>6, RolesApart DEF OneHolder, CountsUndisturbed, Holders
    <3> QED BY <1>1, <2>1, <3>1 DEF Away, CountsUndisturbed, CountPoints, UserPoints, SleepPoints
  <2>7. device_open_count' = 1 /\ refs' = 1 /\ loaded'
    BY <1>1, <2>1, <2>6, <2>8 DEF RefsFollow
  <2>9. Holders' = {p}
    BY <1>2, <2>2, <2>4, <2>8, RolesApart DEF Holders
  <2> QED BY <2>3, <2>4, <2>5, <2>7, <2>9 DEF CountHeld, RefsFollow, OneHolder, CountPoints
<1> QED BY <1>4, <1>5, <1>6 DEF IInv, HolderInv

(* dev_release(), first half: the count is read.                           *)
LEMMA CloseKeeps ==
    ASSUME IInv, NEW p \in Processes, Close(p)
    PROVE  IInv'
<1>1. /\ pc[p] = "closing"
      /\ \A q \in Processes \ {p} : Away(q)
      /\ reg' = [reg EXCEPT ![p] = device_open_count]
      /\ pc' = [pc EXCEPT ![p] = "releasing"]
      /\ UNCHANGED <<preemptible, loaded, refs, device_open_count, new_data_is_ready, msg_ptr>>
  BY DEF Close, At, Goto, Still, globals
<1>2. p \in Openers /\ p \notin ProcWriters
  BY <1>1, RolesApart DEF IInv, Apart, ProcPoints
<1>3. Typed'
  BY <1>1 DEF IInv, Typed, Points, HandlerPoints, CountPoints
<1>4. Apart'
  BY <1>1, <1>2 DEF IInv, Typed, Apart
<1>5. ASSUME CountsUndisturbed'
      PROVE  OneBusy' /\ CountHeld' /\ RefsFollow' /\ OneHolder'
  <2>1. CountsUndisturbed /\ CountHeld /\ RefsFollow /\ OneHolder
    BY <1>1, <1>5 DEF CountsUndisturbed, IInv, HolderInv
  <2>2. \A q \in Processes \ {p} : pc'[q] = pc[q] /\ reg'[q] = reg[q] /\ Away(q)'
    BY <1>1 DEF Away, IInv, Typed
  <2>3. OneBusy'
    BY <2>2 DEF OneBusy
  <2>4. pc'[p] = "releasing" /\ reg'[p] = device_open_count
    BY <1>1 DEF IInv, Typed
  <2>5. CountHeld'
    BY <1>1, <2>1, <2>2, <2>4 DEF CountHeld
  <2>6. Holders' = Holders /\ p \in Holders
    BY <1>1, <1>2, <2>2, <2>4, RolesApart DEF Holders
  <2>7. pc[p] # "putting" /\ pc'[p] # "putting"
    BY <1>1, <2>4
  <2> QED BY <1>1, <2>1, <2>3, <2>5, <2>6, <2>7 DEF RefsFollow, OneHolder
<1> QED BY <1>3, <1>4, <1>5 DEF IInv, HolderInv

(* The count read is still 1, and becomes 0.                               *)
LEMMA ReleaseKeeps ==
    ASSUME IInv, NEW p \in Processes, Release(p)
    PROVE  IInv'
<1>1. /\ pc[p] = "releasing"
      /\ \A q \in Processes \ {p} : Away(q)
      /\ device_open_count' = reg[p] - 1
      /\ reg' = [reg EXCEPT ![p] = 0]
      /\ pc' = [pc EXCEPT ![p] = "putting"]
      /\ UNCHANGED <<preemptible, loaded, refs, new_data_is_ready, msg_ptr>>
  BY DEF Release, At, Goto, Still
<1>2. p \in Openers /\ p \notin ProcWriters
  BY <1>1, RolesApart DEF IInv, Apart, ProcPoints
<1>3. Typed'
  BY <1>1 DEF IInv, Typed, Points, UserPoints, HandlerPoints, CountPoints
<1>4. Apart'
  BY <1>1, <1>2 DEF IInv, Typed, Apart
<1>5. ASSUME CountsUndisturbed'
      PROVE  OneBusy' /\ CountHeld' /\ RefsFollow' /\ OneHolder'
  <2>1. CountsUndisturbed /\ CountHeld /\ RefsFollow /\ OneHolder
    BY <1>1, <1>5 DEF CountsUndisturbed, IInv, HolderInv
  <2>2. \A q \in Processes \ {p} : pc'[q] = pc[q] /\ Away(q) /\ Away(q)'
    BY <1>1 DEF Away, IInv, Typed
  <2>3. OneBusy'
    BY <2>2 DEF OneBusy
  <2>4. pc'[p] = "putting"
    BY <1>1 DEF IInv, Typed
  <2>5. \A q \in Processes \ {p} : pc'[q] \notin CountPoints
    BY <2>1, <2>2 DEF Away, CountsUndisturbed, CountPoints, UserPoints, SleepPoints
  <2>10. CountHeld'
    BY <2>4, <2>5 DEF CountHeld, CountPoints
  <2>6. p \in Holders /\ Holders' = Holders
    BY <1>1, <1>2, <2>2, <2>4, RolesApart DEF Holders
  <2>7. device_open_count = 1 /\ \A q \in Holders : q = p
    BY <1>1, <2>1, <2>6 DEF OneHolder, CountsUndisturbed
  <2>8. device_open_count' = 0
    BY <1>1, <2>1, <2>7 DEF CountHeld
  <2>9. RefsFollow'
    BY <1>1, <2>1, <2>6 DEF RefsFollow
  <2> QED BY <2>3, <2>4, <2>6, <2>7, <2>8, <2>9, <2>10 DEF OneHolder
<1> QED BY <1>3, <1>4, <1>5 DEF IInv, HolderInv

(* The reference is put: the file is no longer held.                       *)
LEMMA PutModuleKeeps ==
    ASSUME IInv, NEW p \in Processes, PutModule(p)
    PROVE  IInv'
<1>1. /\ pc[p] = "putting"
      /\ \A q \in Processes \ {p} : Away(q)
      /\ refs' = refs - 1
      /\ pc' = [pc EXCEPT ![p] = "returning"]
      /\ UNCHANGED <<preemptible, loaded, device_open_count, reg, new_data_is_ready, msg_ptr>>
  BY DEF PutModule, At, Goto, Still, globals, locals
<1>2. p \in Openers /\ p \notin ProcWriters
  BY <1>1, RolesApart DEF IInv, Apart, ProcPoints
<1>3. Typed'
  BY <1>1 DEF IInv, Typed, Points, UserPoints, HandlerPoints, CountPoints
<1>4. Apart'
  BY <1>1, <1>2 DEF IInv, Typed, Apart
<1>5. ASSUME CountsUndisturbed'
      PROVE  OneBusy' /\ CountHeld' /\ RefsFollow' /\ OneHolder'
  <2>1. CountsUndisturbed /\ CountHeld /\ RefsFollow /\ OneHolder
    BY <1>1, <1>5 DEF CountsUndisturbed, IInv, HolderInv
  <2>2. \A q \in Processes \ {p} : pc'[q] = pc[q] /\ Away(q) /\ Away(q)'
    BY <1>1 DEF Away, IInv, Typed
  <2>3. OneBusy'
    BY <2>2 DEF OneBusy
  <2>4. pc'[p] = "returning"
    BY <1>1 DEF IInv, Typed
  <2>5. \A q \in Processes \ {p} : pc'[q] \notin CountPoints
    BY <2>1, <2>2 DEF Away, CountsUndisturbed, CountPoints, UserPoints, SleepPoints
  <2>10. CountHeld'
    BY <2>4, <2>5 DEF CountHeld, CountPoints
  <2>6. p \in Holders
    BY <1>1, <1>2 DEF Holders
  <2>7. \A q \in Holders : q = p
    BY <2>1, <2>6 DEF OneHolder, CountsUndisturbed
  <2>8. device_open_count' = 0 /\ refs' = 0
    BY <1>1, <2>1, <2>6, <2>7 DEF RefsFollow, OneHolder, CountsUndisturbed
  <2>9. Holders' = {}
    BY <2>2, <2>4, <2>7, RolesApart DEF Holders
  <2> QED BY <2>3, <2>8, <2>9, <2>10 DEF RefsFollow, OneHolder
<1> QED BY <1>3, <1>4, <1>5 DEF IInv, HolderInv

(* The rest of dev_release() runs without a reference.                     *)
LEMMA ReleaseReturnsKeeps ==
    ASSUME IInv, NEW p \in Processes, ReleaseReturns(p)
    PROVE  IInv'
<1>1. /\ pc[p] = "returning"
      /\ \A q \in Processes \ {p} : Away(q)
      /\ pc' = [pc EXCEPT ![p] = "idle"]
      /\ UNCHANGED <<preemptible, loaded, refs, device_open_count, reg, new_data_is_ready, msg_ptr>>
  BY DEF ReleaseReturns, At, Goto, Still, globals, locals
<1>2. p \in Openers /\ p \notin ProcWriters
  BY <1>1, RolesApart DEF IInv, Apart, ProcPoints
<1>3. Typed'
  BY <1>1 DEF IInv, Typed, Points, UserPoints, HandlerPoints, CountPoints
<1>4. Apart'
  BY <1>1, <1>2 DEF IInv, Typed, Apart
<1>5. ASSUME CountsUndisturbed'
      PROVE  OneBusy' /\ CountHeld' /\ RefsFollow' /\ OneHolder'
  <2>1. CountsUndisturbed /\ CountHeld /\ RefsFollow /\ OneHolder
    BY <1>1, <1>5 DEF CountsUndisturbed, IInv, HolderInv
  <2>2. \A q \in Processes \ {p} : pc'[q] = pc[q] /\ Away(q) /\ Away(q)'
    BY <1>1 DEF Away, IInv, Typed
  <2>3. OneBusy'
    BY <2>2 DEF OneBusy
  <2>4. pc'[p] = "idle"
    BY <1>1 DEF IInv, Typed
  <2>5. \A q \in Processes \ {p} : pc'[q] \notin CountPoints
    BY <2>1, <2>2 DEF Away, CountsUndisturbed, CountPoints, UserPoints, SleepPoints
  <2>10. CountHeld'
    BY <2>4, <2>5 DEF CountHeld, CountPoints
  <2>6. Holders' = Holders /\ \A q \in Holders : pc'[q] = pc[q]
    BY <1>1, <2>2, <2>4, RolesApart DEF Holders
  <2>7. RefsFollow' /\ OneHolder'
    BY <1>1, <2>1, <2>6 DEF RefsFollow, OneHolder, CountsUndisturbed
  <2> QED BY <2>3, <2>7, <2>10
<1> QED BY <1>3, <1>4, <1>5 DEF IInv, HolderInv

(* The module is removed, and inserted with fresh globals, only while      *)
(* nobody holds the device.                                                *)
LEMMA ModuleKeeps ==
    ASSUME IInv, Rmmod \/ Insmod
    PROVE  IInv'
<1>1. /\ UNCHANGED <<pc, reg, refs, preemptible>>
      /\ \A q \in Processes : Away(q)
      /\ device_open_count' \in {0, device_open_count}
      /\ (refs = 0 \/ ~loaded)
      /\ new_data_is_ready' \in Int /\ msg_ptr' \in Int
  <2>1. CASE Rmmod
    <3>1. UNCHANGED <<pc, reg, refs, preemptible, device_open_count, new_data_is_ready, msg_ptr>>
      BY <2>1 DEF Rmmod, globals, locals
    <3>2. refs = 0 /\ \A q \in Processes : Away(q)
      BY <2>1 DEF Rmmod
    <3> QED BY <3>1, <3>2 DEF IInv, Typed
  <2>2. CASE Insmod
    BY <2>2 DEF Insmod, locals, NULL
  <2> QED BY <2>1, <2>2
<1>2. Typed' /\ Apart'
  BY <1>1 DEF IInv, Typed, Apart
<1>3. ASSUME CountsUndisturbed'
      PROVE  OneBusy' /\ CountHeld' /\ RefsFollow' /\ OneHolder'
  <2>1. CountsUndisturbed /\ RefsFollow /\ OneHolder /\ OneBusy
    BY <1>1, <1>3 DEF CountsUndisturbed, IInv, HolderInv
  <2>5. Holders = {} /\ Holders' = {}
    BY <1>1, <2>1 DEF RefsFollow, Holders
  <2>2. refs = 0 /\ device_open_count = 0 /\ device_open_count' = 0
    BY <1>1, <2>1, <2>5 DEF RefsFollow, OneHolder, CountsUndisturbed
  <2>3. \A q \in Processes : pc'[q] \notin CountPoints
    BY <1>1, <2>1 DEF Away, CountsUndisturbed, CountPoints, UserPoints, SleepPoints
  <2>4. OneBusy' /\ RefsFollow' /\ CountHeld'
    BY <1>1, <2>1, <2>2, <2>3, <2>5 DEF OneBusy, Away, RefsFollow, CountHeld, CountPoints
  <2> QED BY <2>2, <2>4, <2>5 DEF OneHolder
<1> QED BY <1>2, <1>3 DEF IInv, HolderInv

LEMMA InvStep == IInv /\ [Next]_vars => IInv'
<1> SUFFICES ASSUME IInv, [Next]_vars PROVE IInv'
  OBVIOUS
<1>1. CASE UNCHANGED vars
  BY <1>1, IdleKeeps DEF vars, globals, locals
<1>2. CASE Rmmod \/ Insmod
  BY <1>2, ModuleKeeps
<1>3. ASSUME NEW p \in Processes, Open(p) \/ OpenRefused(p) \/ ProcStart(p) \/ Step(p) \/ Signal(p)
      PROVE  IInv'
  <2>1. CASE Open(p)
    BY <2>1, OpenKeeps
  <2>2. CASE OpenCount(p)
    BY <2>2, OpenCountKeeps
  <2>3. CASE Close(p)
    BY <2>3, CloseKeeps
  <2>4. CASE Release(p)
    BY <2>4, ReleaseKeeps
  <2>5. CASE OpenRefused(p) \/ RunsOut(p)
    BY <2>5, IdleKeeps DEF OpenRefused, RunsOut, vars, globals, locals
  <2>7. CASE PutModule(p) \/ ReleaseReturns(p)
    BY <2>7, PutModuleKeeps, ReleaseReturnsKeeps
  <2>6. CASE ~(Open(p) \/ OpenCount(p) \/ Close(p) \/ Release(p) \/ PutModule(p) \/ ReleaseReturns(p)
                \/ OpenRefused(p) \/ RunsOut(p))
    BY <1>3, <2>6, QuietSteps, QuietKeeps DEF Step, Announce
  <2> QED BY <2>1, <2>2, <2>3, <2>4, <2>5, <2>6, <2>7
<1> QED BY <1>1, <1>2, <1>3 DEF Next

(* On a kernel that leaves dev_open() and dev_release() undisturbed, one   *)
(* process at most holds the device and device_open_count says whether one *)
(* does, through every signal, killed writer and reinsertion.              *)
THEOREM DeviceHasOneHolder == Spec => []OneHolder
<1>1. IInv => OneHolder
  BY DEF IInv, HolderInv, OneHolder, CountsUndisturbed
<1> QED BY <1>1, InvInit, InvStep, PTL DEF Spec

----------------------------------------------------------------------------
(* The module's references, on every kernel.  dev_open() under way holds   *)
(* none yet, dev_release() none any more: the module may go, and the code  *)
(* that runs on is undefined.                                              *)
RefsInv ==
    /\ IsFiniteSet(Holders)
    /\ RefsExact
    /\ \A p \in Processes : pc[p] = "counting" /\ ~undefined => loaded

LEMMA RefsInit == Init => RefsInv
<1> SUFFICES ASSUME Init PROVE RefsInv
  OBVIOUS
<1>1. Holders = {}
  BY RolesApart DEF Init, Holders
<1>2. IsFiniteSet(Holders) /\ Cardinality(Holders) = 0
  BY <1>1, FS_EmptySet
<1> QED BY <1>1, <1>2 DEF Init, RefsInv, RefsExact

LEMMA RefsStep == IInv /\ RefsInv /\ ~undefined /\ [Next]_vars => RefsInv'
<1> SUFFICES ASSUME IInv, RefsInv, ~undefined, [Next]_vars PROVE RefsInv'
  OBVIOUS
<1> USE DEF RefsInv, RefsExact
<1>1. CASE UNCHANGED <<pc, refs, loaded>> /\ (undefined' \in {undefined, TRUE})
  BY <1>1 DEF Holders
<1>2. ASSUME NEW p \in Processes, Quiet(p) PROVE RefsInv'
  <2>1. PICK y \in Points :
          /\ pc' = [pc EXCEPT ![p] = y]
          /\ p \in Openers => /\ pc[p] \notin EdgePoints
                              /\ y \notin EdgePoints
          /\ p \in ProcWriters => y \in ProcPoints
    BY <1>2 DEF Quiet
  <2>2. Holders' = Holders
    BY <2>1, RolesApart DEF Holders, IInv, Typed, EdgePoints, CountPoints
  <2>3. pc'[p] # "counting" /\ \A q \in Processes \ {p} : pc'[q] = pc[q]
    BY <2>1, RolesApart DEF IInv, Typed, ProcPoints, EdgePoints, CountPoints
  <2> QED BY <1>2, <2>2, <2>3 DEF Quiet
<1>3. ASSUME NEW p \in Processes, Open(p) PROVE RefsInv'
  <2>1. /\ p \in Openers /\ loaded /\ pc[p] = "idle"
        /\ pc' = [pc EXCEPT ![p] = "counting"]
        /\ UNCHANGED <<refs, loaded>>
    BY <1>3 DEF Open, At, Goto, Still
  <2>2. Holders' = Holders
    BY <2>1, RolesApart DEF Holders, IInv, Typed
  <2> QED BY <2>1, <2>2
<1>4. ASSUME NEW p \in Processes, OpenCount(p) PROVE RefsInv'
  <2>1. /\ pc[p] = "counting" /\ refs' = refs + 1
        /\ pc' = [pc EXCEPT ![p] = AfterOpen(p)]
        /\ UNCHANGED <<loaded, undefined>>
    BY <1>4 DEF OpenCount, At, Goto, Still
  <2>2. p \in Openers /\ AfterOpen(p) \in {"polling", "reading", "open"}
    BY <2>1, RolesApart DEF IInv, Apart, ProcPoints, AfterOpen
  <2>3. Holders' = Holders \cup {p} /\ p \notin Holders
    BY <2>1, <2>2, RolesApart DEF Holders, IInv, Typed
  <2>4. IsFiniteSet(Holders') /\ Cardinality(Holders') = Cardinality(Holders) + 1
    BY <2>3, FS_AddElement
  <2>5. \A q \in Processes : pc'[q] = "counting" => pc[q] = "counting"
    BY <2>1, <2>2 DEF IInv, Typed
  <2> QED BY <2>1, <2>4, <2>5
<1>5. ASSUME NEW p \in Processes, Close(p) PROVE RefsInv'
  <2>1. /\ pc[p] = "closing"
        /\ pc' = [pc EXCEPT ![p] = "releasing"]
        /\ UNCHANGED <<refs, loaded, undefined>>
    BY <1>5 DEF Close, At, Goto, Still
  <2>2. Holders' = Holders
    BY <2>1, RolesApart DEF Holders, IInv, Typed
  <2> QED BY <2>1, <2>2 DEF IInv, Typed
<1>6. ASSUME NEW p \in Processes, Release(p) \/ ReleaseReturns(p) PROVE RefsInv'
  <2>1. /\ \/ pc[p] = "releasing" /\ pc' = [pc EXCEPT ![p] = "putting"]
           \/ pc[p] = "returning" /\ pc' = [pc EXCEPT ![p] = "idle"]
        /\ UNCHANGED <<refs, loaded, undefined>>
    BY <1>6 DEF Release, ReleaseReturns, At, Goto, Still
  <2>2. Holders' = Holders
    BY <2>1, RolesApart DEF Holders, IInv, Typed
  <2> QED BY <2>1, <2>2 DEF IInv, Typed
<1>12. ASSUME NEW p \in Processes, PutModule(p) PROVE RefsInv'
  <2>1. /\ pc[p] = "putting" /\ refs' = refs - 1
        /\ pc' = [pc EXCEPT ![p] = "returning"]
        /\ UNCHANGED <<loaded, undefined>>
    BY <1>12 DEF PutModule, At, Goto, Still
  <2>2. p \in Openers
    BY <2>1, RolesApart DEF IInv, Apart, ProcPoints
  <2>3. Holders' = Holders \ {p} /\ p \in Holders
    BY <2>1, <2>2, RolesApart DEF Holders, IInv, Typed
  <2>4. IsFiniteSet(Holders') /\ Cardinality(Holders') = Cardinality(Holders) - 1
    BY <2>3, FS_RemoveElement
  <2> QED BY <2>1, <2>3, <2>4 DEF IInv, Typed
<1>7. CASE Rmmod
  <2>1. Holders = {}
    BY <1>7, FS_EmptySet DEF Rmmod
  <2>2. Holders' = {}
    BY <1>7, <2>1 DEF Rmmod, Holders
  <2> QED BY <1>7, <2>1, <2>2 DEF Rmmod
<1>8. CASE Insmod
  BY <1>8 DEF Insmod, Holders
<1>9. ASSUME NEW p \in Processes, OpenRefused(p) \/ RunsOut(p) PROVE RefsInv'
  BY <1>1, <1>9 DEF OpenRefused, RunsOut, vars
<1>10. ASSUME NEW p \in Processes, Open(p) \/ OpenRefused(p) \/ ProcStart(p) \/ Step(p) \/ Signal(p)
       PROVE  RefsInv'
  <2>1. CASE Open(p) \/ OpenCount(p) \/ Close(p) \/ Release(p) \/ PutModule(p) \/ ReleaseReturns(p)
               \/ OpenRefused(p) \/ RunsOut(p)
    BY <1>3, <1>4, <1>5, <1>6, <1>9, <1>12, <2>1
  <2>2. CASE ~(Open(p) \/ OpenCount(p) \/ Close(p) \/ Release(p) \/ PutModule(p) \/ ReleaseReturns(p)
                \/ OpenRefused(p) \/ RunsOut(p))
    BY <1>2, <1>10, <2>2, QuietSteps DEF Step, Announce
  <2> QED BY <2>1, <2>2
<1>11. CASE UNCHANGED vars
  BY <1>1, <1>11 DEF vars
<1> QED BY <1>7, <1>8, <1>10, <1>11 DEF Next

(* On every kernel the references of the module are the files open on it,  *)
(* and it is never removed under one of them.                              *)
THEOREM ReferencesAreOpenFiles == Spec => []RefsExact
<1>1. IInv /\ RefsInv /\ [Next]_vars => RefsInv'
  BY RefsStep DEF Next, vars, RefsInv, RefsExact, Holders
<1>2. RefsInv => RefsExact
  BY DEF RefsInv
<1> QED BY <1>1, <1>2, InvInit, InvStep, RefsInit, PTL DEF Spec

----------------------------------------------------------------------------
(* Types, and that a copy loop has something left to copy.                 *)
Values ==
    /\ preemptible \in Kernels
    /\ loaded \in BOOLEAN /\ undefined \in BOOLEAN
    /\ Age \in {0, DEFAULT_AGE_VALUE}
    /\ msg_buffer \in [0 .. MSG_BUFFER_LEN - 1 -> Chars]
    /\ msg_ptr \in Nat \cup {NULL}
    /\ left \in [Processes -> 0 .. Length]
    /\ \A p \in Processes : pc[p] \in {"write_copy", "proc_copy"} => left[p] > 0
    /\ age \in [Setters \cup Getters -> {0, DEFAULT_AGE_VALUE}]
    /\ fortune_wait \in SUBSET Processes
    /\ signals \in Nat

LEMMA ValuesStep ==
    ASSUME IInv, Values, NEW p \in Processes,
           Open(p) \/ OpenRefused(p) \/ ProcStart(p) \/ Step(p) \/ Signal(p)
    PROVE  Values'
<1> USE HelloDevAssumption DEF Values, IInv, Typed, At, Goto, Still, globals, locals, vars, AfterOpen, NULL, Chars,
        DEFAULT_AGE_VALUE
<1>1. CASE Open(p) \/ OpenRefused(p)
  BY <1>1 DEF Open, OpenRefused
<1>2. CASE OpenCount(p)
  BY <1>2 DEF OpenCount
<1>3. CASE Close(p) \/ Release(p) \/ PutModule(p) \/ ReleaseReturns(p)
  BY <1>3 DEF Close, Release, PutModule, ReleaseReturns
<1>w. CASE PollWait(p) \/ Enqueue(p) \/ Sleep(p) \/ Woken(p)
  BY <1>w DEF PollWait, Enqueue, Sleep, Woken
<1>4. CASE PollPass(p) \/ Take(p) \/ Poll(p)
  BY <1>4 DEF PollPass, Take, Poll
<1>5. CASE Signal(p)
  BY <1>5 DEF Signal
<1>6. CASE SetAge(p)
  BY <1>6 DEF SetAge
<1>7. CASE GetAge(p)
  BY <1>7 DEF GetAge
<1>8. CASE ReadStart(p)
  BY <1>8 DEF ReadStart, Rewound
<1>9. CASE ReadChar(p)
  BY <1>9 DEF ReadChar, Reading, Inside
<1>10. CASE ReadReturns(p)
  BY <1>10 DEF ReadReturns, Reading
<1>11. CASE WriteOops(p)
  BY <1>11 DEF WriteOops
<1>s. CASE WriteStart(p)
  <2>1. left' = [left EXCEPT ![p] = Length] /\ pc' = [pc EXCEPT ![p] = "write_test"]
    BY <1>s DEF WriteStart
  <2>2. left' \in [Processes -> 0 .. Length]
    <3>1. Length \in 0 .. Length
      BY HelloDevAssumption
    <3> QED BY <2>1, <3>1
  <2>3. \A q \in Processes : pc'[q] \in {"write_copy", "proc_copy"} => left'[q] > 0
    BY <2>1
  <2> QED BY <1>s, <2>2, <2>3 DEF WriteStart
<1>12. CASE WriteTest(p)
  BY <1>12 DEF WriteTest
<1>13. CASE WriteChar(p)
  <2>1. msg_buffer' \in [0 .. MSG_BUFFER_LEN - 1 -> Chars]
    BY <1>13 DEF WriteChar
  <2>2. left' \in [Processes -> 0 .. Length]
    BY <1>13 DEF WriteChar
  <2>3. \A q \in Processes : pc'[q] \in {"write_copy", "proc_copy"} => left'[q] > 0
    BY <1>13 DEF WriteChar
  <2> QED BY <1>13, <2>1, <2>2, <2>3 DEF WriteChar
<1>14. CASE WriteEnds(p)
  BY <1>14 DEF WriteEnds
<1>15. CASE ProcStart(p)
  BY <1>15 DEF ProcStart, Rewound
<1>16. CASE ProcTest(p)
  BY <1>16 DEF ProcTest
<1>17. CASE ProcChar(p)
  <2>1. msg_buffer' \in [0 .. MSG_BUFFER_LEN - 1 -> Chars]
    BY <1>17 DEF ProcChar
  <2>2. left' \in [Processes -> 0 .. Length]
    BY <1>17 DEF ProcChar
  <2>3. \A q \in Processes : pc'[q] \in {"write_copy", "proc_copy"} => left'[q] > 0
    BY <1>17 DEF ProcChar
  <2> QED BY <1>17, <2>1, <2>2, <2>3 DEF ProcChar
<1>18. CASE ProcEnds(p)
  BY <1>18 DEF ProcEnds
<1>19. CASE CountData(p)
  BY <1>19 DEF CountData
<1>20. CASE StoreCount(p) \/ WakeUp(p)
  BY <1>20 DEF StoreCount, WakeUp, WriteReturns
<1>21. CASE RunsOut(p)
  BY <1>21 DEF RunsOut
<1> QED BY <1>w, <1>1, <1>2, <1>3, <1>4, <1>5, <1>6, <1>7, <1>8, <1>9, <1>10, <1>11, <1>s, <1>12, <1>13, <1>14, <1>15, <1>16, <1>17, <1>18, <1>19, <1>20, <1>21 DEF Step, Announce

LEMMA ValuesModule == ASSUME Values, Rmmod \/ Insmod PROVE Values'
<1> USE DEF Values, globals, locals
<1>1. CASE Rmmod
  BY <1>1 DEF Rmmod
<1>2. CASE Insmod
  BY <1>2, HelloDevAssumption DEF Insmod, Empty, Chars, NULL
<1> QED BY <1>1, <1>2

(* Where a setter can be, what it has set, and what it has read back.      *)
AgeInv ==
    \A p \in Setters :
        /\ pc[p] \in {"idle", "counting", "open", "set", "closing", "releasing", "putting", "returning"}
        /\ pc[p] = "set" => Age = DEFAULT_AGE_VALUE
        /\ pc[p] = "closing" => age[p] = DEFAULT_AGE_VALUE

LEMMA AgeStep ==
    ASSUME IInv, Values, AgeInv, NEW p \in Processes,
           Open(p) \/ OpenRefused(p) \/ ProcStart(p) \/ Step(p) \/ Signal(p)
    PROVE  AgeInv'
<1> USE RolesApart, HelloDevAssumption DEF AgeInv, IInv, Typed, At, Goto, Still, globals, locals, vars, Openers
<1>1. CASE Open(p) \/ OpenRefused(p)
  BY <1>1 DEF Open, OpenRefused
<1>2. CASE OpenCount(p)
  BY <1>2 DEF OpenCount, AfterOpen
<1>3. CASE Close(p) \/ Release(p) \/ PutModule(p) \/ ReleaseReturns(p)
  BY <1>3 DEF Close, Release, PutModule, ReleaseReturns
<1>w. CASE PollWait(p) \/ Enqueue(p) \/ Sleep(p) \/ Woken(p)
  BY <1>w DEF PollWait, Enqueue, Sleep, Woken
<1>4. CASE PollPass(p) \/ Take(p) \/ Poll(p)
  BY <1>4 DEF PollPass, Take, Poll
<1>5. CASE Signal(p)
  BY <1>5 DEF Signal
<1>6. CASE SetAge(p)
  BY <1>6 DEF SetAge
<1>7. CASE GetAge(p)
  BY <1>7 DEF GetAge, Values
<1>8. CASE ReadStart(p)
  BY <1>8 DEF ReadStart
<1>9. CASE ReadChar(p) \/ ReadReturns(p)
  BY <1>9 DEF ReadChar, ReadReturns, Reading
<1>10. CASE WriteOops(p) \/ WriteStart(p) \/ WriteTest(p) \/ WriteChar(p) \/ WriteEnds(p)
  BY <1>10 DEF WriteOops, WriteStart, WriteTest, WriteChar, WriteEnds
<1>11. CASE ProcStart(p) \/ ProcTest(p) \/ ProcChar(p) \/ ProcEnds(p)
  BY <1>11 DEF ProcStart, ProcTest, ProcChar, ProcEnds
<1>12. CASE CountData(p) \/ StoreCount(p) \/ WakeUp(p)
  BY <1>12 DEF CountData, StoreCount, WakeUp, WriteReturns
<1>13. CASE RunsOut(p)
  BY <1>13 DEF RunsOut
<1> QED BY <1>w, <1>1, <1>2, <1>3, <1>4, <1>5, <1>6, <1>7, <1>8, <1>9, <1>10, <1>11, <1>12, <1>13 DEF Step, Announce

LEMMA AgeModule == ASSUME AgeInv, RefsInv, Rmmod \/ Insmod PROVE AgeInv'
<1>1. CASE Rmmod
  BY <1>1 DEF Rmmod, AgeInv, globals, locals
<1>2. CASE Insmod
  <2>1. Holders = {}
    BY <1>2 DEF Insmod, RefsInv, RefsExact
  <2>2. \A p \in Setters : pc[p] # "set"
    BY <2>1 DEF Holders, Openers
  <2> QED BY <1>2, <2>2 DEF Insmod, AgeInv, locals
<1> QED BY <1>1, <1>2

----------------------------------------------------------------------------
(* Without preemption: in a read or a write of the device msg_ptr is in    *)
(* the buffer's first two places, and what is written goes to the first.   *)
CursorInv ==
    preemptible = {} =>
        /\ msg_ptr \in {NULL, 0, 1}
        /\ \A i \in DOMAIN msg_buffer : msg_buffer[i] # 0 => i = 0
        /\ ~undefined
        /\ \A p \in Processes :
            /\ pc[p] \in {"read_test", "read_copy", "write_test"} => msg_ptr # NULL
            /\ pc[p] \in {"write_copy", "proc_copy"} => reg[p] = 0 /\ msg_ptr = 0
            /\ pc[p] = "proc_test" => msg_ptr = 0

LEMMA OthersOutside ==
    ASSUME NEW p \in Processes, NEW point, At(p, point), preemptible = {}
    PROVE  \A q \in Processes \ {p} : pc[q] \notin HandlerPoints
BY DEF At, Away, UserPoints, SleepPoints, HandlerPoints, WaitPoints, CountPoints, DataPoints, CopyPoints, TestPoints

LEMMA CursorStep ==
    ASSUME IInv, Values, CursorInv, NEW p \in Processes,
           Open(p) \/ OpenRefused(p) \/ ProcStart(p) \/ Step(p) \/ Signal(p)
    PROVE  CursorInv'
<1> SUFFICES ASSUME preemptible' = {} PROVE CursorInv'
  BY DEF CursorInv
<1> USE HelloDevAssumption, OthersOutside DEF CursorInv, Values, IInv, Typed, Goto, Still, globals, locals, vars, NULL,
        HandlerPoints, CopyPoints, TestPoints, Inside, Exhausted
<1>1. CASE Open(p) \/ OpenRefused(p)
  BY <1>1 DEF Open, OpenRefused
<1>2. CASE OpenCount(p)
  BY <1>2 DEF OpenCount, AfterOpen
<1>3. CASE Close(p) \/ Release(p) \/ PutModule(p) \/ ReleaseReturns(p)
  BY <1>3 DEF Close, Release, PutModule, ReleaseReturns
<1>w. CASE PollWait(p) \/ Enqueue(p) \/ Sleep(p) \/ Woken(p)
  BY <1>w DEF PollWait, Enqueue, Sleep, Woken
<1>4. CASE PollPass(p) \/ Take(p) \/ Poll(p)
  BY <1>4 DEF PollPass, Take, Poll
<1>5. CASE Signal(p)
  BY <1>5 DEF Signal
<1>6. CASE SetAge(p) \/ GetAge(p)
  BY <1>6 DEF SetAge, GetAge
<1>7. CASE ReadStart(p)
  BY <1>7 DEF ReadStart, Rewound
<1>8. CASE ReadChar(p)
  BY <1>8 DEF ReadChar, Reading
<1>9. CASE ReadReturns(p)
  BY <1>9 DEF ReadReturns, Reading
<1>10. CASE WriteOops(p) \/ WriteStart(p)
  BY <1>10 DEF WriteOops, WriteStart
<1>11. CASE WriteTest(p)
  BY <1>11 DEF WriteTest
<1>12. CASE WriteChar(p)
  <2>1. /\ pc[p] = "write_copy" /\ preemptible = {} /\ reg[p] = 0 /\ msg_ptr = 0
        /\ \A q \in Processes \ {p} : pc[q] \notin HandlerPoints
    BY <1>12 DEF WriteChar, At
  <2>2. pc' = [pc EXCEPT ![p] = "write_test"] /\ msg_ptr' = 1 /\ UNCHANGED undefined
    BY <1>12, <2>1 DEF WriteChar
  <2>3. \A k \in DOMAIN msg_buffer' : msg_buffer'[k] # 0 => k = 0
    BY <1>12, <2>1 DEF WriteChar
  <2> QED BY <2>1, <2>2, <2>3
<1>13. CASE WriteEnds(p)
  BY <1>13 DEF WriteEnds
<1>14. CASE ProcStart(p)
  BY <1>14 DEF ProcStart, Rewound
<1>15. CASE ProcTest(p)
  BY <1>15 DEF ProcTest, At
<1>16. CASE ProcChar(p)
  <2>1. /\ pc[p] = "proc_copy" /\ preemptible = {} /\ reg[p] = 0 /\ msg_ptr = 0
        /\ \A q \in Processes \ {p} : pc[q] \notin HandlerPoints
    BY <1>16 DEF ProcChar, At
  <2>2. pc' = [pc EXCEPT ![p] = "proc_test"] /\ msg_ptr' = 0 /\ UNCHANGED undefined
    BY <1>16, <2>1 DEF ProcChar
  <2>3. \A k \in DOMAIN msg_buffer' : msg_buffer'[k] # 0 => k = 0
    BY <1>16, <2>1 DEF ProcChar
  <2> QED BY <2>1, <2>2, <2>3
<1>17. CASE ProcEnds(p)
  BY <1>17 DEF ProcEnds
<1>18. CASE CountData(p) \/ StoreCount(p) \/ WakeUp(p)
  BY <1>18 DEF CountData, StoreCount, WakeUp, WriteReturns
<1>19. CASE RunsOut(p)
  BY <1>19 DEF RunsOut, Reading, At
<1> QED BY <1>w, <1>1, <1>2, <1>3, <1>4, <1>5, <1>6, <1>7, <1>8, <1>9, <1>10, <1>11, <1>12, <1>13, <1>14, <1>15, <1>16, <1>17, <1>18, <1>19 DEF Step, Announce

LEMMA CursorModule == ASSUME CursorInv, Rmmod \/ Insmod PROVE CursorInv'
<1> SUFFICES ASSUME preemptible' = {} PROVE CursorInv'
  BY DEF CursorInv
<1>1. preemptible = {} /\ \A q \in Processes : pc[q] \notin HandlerPoints
  BY DEF Rmmod, Insmod, Away, UserPoints, SleepPoints, HandlerPoints, WaitPoints, CountPoints, DataPoints, CopyPoints, TestPoints
<1> USE <1>1 DEF CursorInv, globals, locals, HandlerPoints, CountPoints, CopyPoints, TestPoints
<1>2. CASE Rmmod
  BY <1>2 DEF Rmmod
<1>3. CASE Insmod
  BY <1>3, HelloDevAssumption DEF Insmod, Empty
<1> QED BY <1>2, <1>3

----------------------------------------------------------------------------
(* Where the data count is not preempted: what a handler has read of it is *)
(* still true, and what a sleeper takes has come or is owed to a signal.   *)
DataUndisturbed == preemptible \cap (CountPoints \cup DataPoints) = {}

DataInv ==
    DataUndisturbed =>
        /\ new_data_is_ready >= -signals
        /\ \A p \in Processes :
            /\ pc[p] \in {"taking", "taken"} => new_data_is_ready > -signals
            /\ pc[p] \in {"taken", "storing"} => reg[p] = new_data_is_ready

LEMMA OthersNotCounting ==
    ASSUME NEW p \in Processes, NEW point, At(p, point), DataUndisturbed
    PROVE  \A q \in Processes \ {p} : pc[q] \notin DataPoints
BY DEF At, Away, DataUndisturbed, UserPoints, SleepPoints, DataPoints

LEMMA DataStep ==
    ASSUME IInv, Values, DataInv, NEW p \in Processes,
           Open(p) \/ OpenRefused(p) \/ ProcStart(p) \/ Step(p) \/ Signal(p)
    PROVE  DataInv'
<1> SUFFICES ASSUME DataUndisturbed' PROVE DataInv'
  BY DEF DataInv
<1> USE OthersNotCounting DEF DataInv, DataUndisturbed, Values, IInv, Typed, Goto, Still, globals, locals, vars, DataPoints
<1>1. CASE Open(p) \/ OpenRefused(p)
  BY <1>1 DEF Open, OpenRefused
<1>2. CASE OpenCount(p)
  BY <1>2 DEF OpenCount, AfterOpen
<1>3. CASE Close(p) \/ Release(p) \/ PutModule(p) \/ ReleaseReturns(p)
  BY <1>3 DEF Close, Release, PutModule, ReleaseReturns
<1>w. CASE PollWait(p) \/ Enqueue(p) \/ Sleep(p) \/ Woken(p)
  BY <1>w DEF PollWait, Enqueue, Sleep, Woken
<1>4. CASE PollPass(p)
  BY <1>4 DEF PollPass, At
<1>5. CASE Take(p)
  BY <1>5 DEF Take, At
<1>6. CASE Poll(p)
  <2>1. pc' = [pc EXCEPT ![p] = "asleep"]
    BY <1>6 DEF Poll, PollMask
  <2>2. /\ pc[p] = "taken" /\ reg[p] = new_data_is_ready /\ new_data_is_ready > -signals
        /\ new_data_is_ready' = reg[p] - 1 /\ reg' = [reg EXCEPT ![p] = 0] /\ UNCHANGED signals
    BY <1>6 DEF Poll, At
  <2>3. \A q \in Processes \ {p} : pc[q] \notin DataPoints
    BY <1>6 DEF Poll
  <2> QED BY <2>1, <2>2, <2>3
<1>7. CASE Signal(p)
  BY <1>7 DEF Signal, At
<1>8. CASE SetAge(p) \/ GetAge(p)
  BY <1>8 DEF SetAge, GetAge
<1>9. CASE ReadStart(p)
  BY <1>9 DEF ReadStart
<1>10. CASE ReadChar(p)
  BY <1>10 DEF ReadChar, Reading
<1>11. CASE ReadReturns(p)
  BY <1>11 DEF ReadReturns, Reading
<1>12. CASE WriteOops(p) \/ WriteStart(p)
  BY <1>12 DEF WriteOops, WriteStart
<1>13. CASE WriteTest(p) \/ WriteChar(p) \/ WriteEnds(p)
  BY <1>13 DEF WriteTest, WriteChar, WriteEnds
<1>14. CASE ProcStart(p) \/ ProcTest(p) \/ ProcChar(p) \/ ProcEnds(p)
  BY <1>14 DEF ProcStart, ProcTest, ProcChar, ProcEnds
<1>15. CASE CountData(p)
  BY <1>15 DEF CountData, At
<1>16. CASE StoreCount(p)
  <2>1. /\ pc[p] = "storing" /\ reg[p] = new_data_is_ready /\ new_data_is_ready >= -signals
        /\ new_data_is_ready' = reg[p] + 1 /\ reg' = [reg EXCEPT ![p] = 0] /\ UNCHANGED signals
    BY <1>16 DEF StoreCount, At
  <2>2. \A q \in Processes \ {p} : pc[q] \notin DataPoints
    BY <1>16 DEF StoreCount
  <2>3. pc' = [pc EXCEPT ![p] = "waking"]
    BY <1>16 DEF StoreCount
  <2> QED BY <2>1, <2>2, <2>3
<1>18. CASE WakeUp(p)
  BY <1>18 DEF WakeUp, WriteReturns
<1>17. CASE RunsOut(p)
  BY <1>17, <1>18 DEF RunsOut
<1> QED BY <1>w, <1>1, <1>2, <1>3, <1>4, <1>5, <1>6, <1>7, <1>8, <1>9, <1>10, <1>11, <1>12, <1>13, <1>14, <1>15, <1>16, <1>17, <1>18 DEF Step, Announce

LEMMA DataModule == ASSUME Values, DataInv, Rmmod \/ Insmod PROVE DataInv'
<1> SUFFICES ASSUME DataUndisturbed' PROVE DataInv'
  BY DEF DataInv
<1>1. DataUndisturbed /\ \A q \in Processes : pc[q] \notin DataPoints
  BY DEF Rmmod, Insmod, Away, DataUndisturbed, UserPoints, SleepPoints, DataPoints
<1>2. new_data_is_ready' \in {0, new_data_is_ready} /\ UNCHANGED <<pc, reg, signals>>
  BY DEF Rmmod, Insmod, globals, locals
<1> QED BY <1>1, <1>2 DEF DataInv, Values, DataPoints

----------------------------------------------------------------------------
DriverInv == IInv /\ RefsInv /\ Values /\ AgeInv /\ CursorInv /\ DataInv

LEMMA DriverInit == Init => DriverInv
<1> SUFFICES ASSUME Init PROVE DriverInv
  OBVIOUS
<1>1. Values
  <2>1. msg_buffer \in [0 .. MSG_BUFFER_LEN - 1 -> Chars]
    BY DEF Init, Empty, Chars
  <2>2. left \in [Processes -> 0 .. Length] /\ age \in [Setters \cup Getters -> {0, DEFAULT_AGE_VALUE}]
    BY HelloDevAssumption DEF Init
  <2>3. \A p \in Processes : pc[p] = "idle"
    BY DEF Init
  <2> QED BY <2>1, <2>2, <2>3 DEF Init, Values
<1>2. AgeInv
  BY DEF Init, AgeInv, Processes, Openers
<1>3. CursorInv
  BY DEF Init, CursorInv, Empty
<1>4. DataInv
  BY DEF Init, DataInv
<1> QED BY <1>1, <1>2, <1>3, <1>4, InvInit, RefsInit DEF DriverInv

LEMMA DriverStep == DriverInv /\ [Next]_vars => DriverInv'
<1> SUFFICES ASSUME DriverInv, [Next]_vars PROVE DriverInv'
  OBVIOUS
<1> USE DEF DriverInv
<1>1. CASE UNCHANGED vars
  <2>1. RefsInv' /\ Values'
    BY <1>1 DEF vars, globals, locals, RefsInv, RefsExact, Holders, Values
  <2>2. AgeInv' /\ CursorInv' /\ DataInv'
    BY <1>1 DEF vars, globals, locals, AgeInv, CursorInv, DataInv, DataUndisturbed
  <2> QED BY <2>1, <2>2, InvStep
<1>2. ASSUME NEW p \in Processes, Open(p) \/ OpenRefused(p) \/ ProcStart(p) \/ Step(p) \/ Signal(p)
      PROVE  Values' /\ AgeInv' /\ CursorInv' /\ DataInv'
  BY <1>2, ValuesStep, AgeStep, CursorStep, DataStep
<1>3. CASE Next
  <2>1. IInv' /\ RefsInv'
    BY <1>3, InvStep, RefsStep DEF Next
  <2>2. Values' /\ AgeInv' /\ CursorInv' /\ DataInv'
    <3>1. (\E p \in Processes : Open(p) \/ OpenRefused(p) \/ ProcStart(p) \/ Step(p) \/ Signal(p)) \/ Rmmod \/ Insmod
      BY <1>3 DEF Next
    <3>2. CASE Rmmod \/ Insmod
      BY <3>2, ValuesModule, AgeModule, CursorModule, DataModule
    <3> QED BY <1>2, <3>1, <3>2
  <2> QED BY <2>1, <2>2
<1> QED BY <1>1, <1>3

LEMMA DriverInvHolds == Spec => []DriverInv
BY DriverInit, DriverStep, PTL DEF Spec

(* On every kernel each variable keeps its type; that no reference is put  *)
(* twice is part of it.                                                    *)
THEOREM DriverTypes == Spec => []TypeOK
<1>1. DriverInv => TypeOK
  <2> SUFFICES ASSUME DriverInv PROVE TypeOK
    OBVIOUS
  <2>1. refs \in Nat
    BY FS_CardinalityType DEF DriverInv, RefsInv, RefsExact
  <2> QED BY <2>1 DEF DriverInv, IInv, Typed, Points, Values, TypeOK
<1> QED BY <1>1, DriverInvHolds, PTL

(* On every kernel the setter reads back the age it has set.               *)
THEOREM SetAgeIsReadBack == Spec => []SetterSeesItsAge
<1>1. DriverInv => SetterSeesItsAge
  BY DEF DriverInv, AgeInv, SetterSeesItsAge
<1> QED BY <1>1, DriverInvHolds, PTL

(* Without preemption no handler leaves the buffer, whatever is read and   *)
(* written and however long the calls.                                     *)
THEOREM CursorStaysInside == Spec => []OneCharHeld
<1>1. DriverInv => OneCharHeld
  BY DEF DriverInv, CursorInv, OneCharHeld
<1> QED BY <1>1, DriverInvHolds, PTL

(* Where the data count is not preempted, only signals take it below zero. *)
THEOREM NoDataTakenTwice == Spec => []NoneTakenTwice
<1>1. DriverInv => NoneTakenTwice
  BY DEF DriverInv, DataInv, DataUndisturbed, NoneTakenTwice
<1> QED BY <1>1, DriverInvHolds, PTL
=============================================================================
