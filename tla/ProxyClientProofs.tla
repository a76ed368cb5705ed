------------------------- MODULE ProxyClientProofs --------------------------
(***************************************************************************)
(* For any number of calls, options and addresses: updates are applied in  *)
(* order and a drain wakes everybody, dispose leaves nothing behind, and   *)
(* unless setOptions overlaps calls, stubs name their own objects.         *)
(***************************************************************************)
EXTENDS ProxyClient, Integers, TLAPS

-----------------------------------------------------------------------------
(* The updates. *)

\* The updates that are done are those up to this one.
DoneUpdates == issued - Len(jobs)

\* The jobs are the options given last, in order.
JobsInOrder ==
  /\ stage = "idle" <=> jobs = <<>>
  /\ Len(jobs) <= issued + 1
  /\ \A k \in 1..Len(jobs) : jobs[k] = DoneUpdates + k
  /\ init = "pending" <=> Len(jobs) = issued + 1

\* What the update that holds the mutex has done so far.
UnderUpdate ==
  /\ stage \in {"assemble", "spawn", "ports"} => options = Head(jobs)
  /\ stage = "ports" => process.options = Head(jobs)

\* Of the updates that are done, those after the process's own failed.
DoneOrFailed == \A o \in (process.options + 1)..DoneUpdates : o \in failed

\* A call that is ready has waited for the updates before it.
CallsWaited ==
  \A c \in Calls : /\ calls[c].requested <= issued
                   /\ calls[c].stage \in {"woken", "sent", "answered"}
                        => calls[c].requested <= DoneUpdates

\* dispose cleans up when all updates are done.
DisposedInOrder ==
  /\ disposing # "no" => aborted
  /\ disposing \in {"cleanup", "stopping", "done"} /\ init # "rejected" => jobs = <<>>
  /\ disposing \in {"stopping", "done"} /\ init # "rejected" => process.state = "exited"
  /\ disposing = "done" /\ init # "rejected" => loopback = "closed"

LifeInv == /\ LifecycleTypeOK
           /\ JobsInOrder /\ UnderUpdate /\ DoneOrFailed /\ CallsWaited /\ DisposedInOrder
           /\ RestsOnLatestOptions /\ DrainIsSignalled

\* The mutex as a queue.
LEMMA JobsFacts ==
  ASSUME jobs \in Seq(Nat)
  PROVE  /\ Len(jobs) \in Nat
         /\ jobs = <<>> <=> Len(jobs) = 0
         /\ \A o \in Nat : /\ Append(jobs, o) \in Seq(Nat)
                           /\ Append(jobs, o) # <<>>
                           /\ Len(Append(jobs, o)) = Len(jobs) + 1
                           /\ \A k \in 1..Len(jobs) : Append(jobs, o)[k] = jobs[k]
                           /\ Append(jobs, o)[Len(jobs) + 1] = o
         /\ jobs # <<>> => /\ Head(jobs) = jobs[1] /\ Head(jobs) \in Nat
                           /\ Tail(jobs) \in Seq(Nat)
                           /\ Len(Tail(jobs)) = Len(jobs) - 1
                           /\ \A k \in 1..Len(jobs) - 1 : Tail(jobs)[k] = jobs[k + 1]
<1>1. Len(jobs) \in Nat /\ (jobs = <<>> <=> Len(jobs) = 0)
  OBVIOUS
<1>2. ASSUME NEW o \in Nat
      PROVE  /\ Append(jobs, o) \in Seq(Nat)
             /\ Append(jobs, o) # <<>>
             /\ Len(Append(jobs, o)) = Len(jobs) + 1
             /\ \A k \in 1..Len(jobs) : Append(jobs, o)[k] = jobs[k]
             /\ Append(jobs, o)[Len(jobs) + 1] = o
  BY <1>1
<1>3. ASSUME jobs # <<>>
      PROVE  /\ Head(jobs) = jobs[1] /\ Head(jobs) \in Nat
             /\ Tail(jobs) \in Seq(Nat)
             /\ Len(Tail(jobs)) = Len(jobs) - 1
             /\ \A k \in 1..Len(jobs) - 1 : Tail(jobs)[k] = jobs[k + 1]
  BY <1>1, <1>3
<1> QED
  BY <1>1, <1>2, <1>3

\* A step of one call, which leaves it in state x.
LEMMA CallStepLife ==
  ASSUME LifeInv, NEW c \in Calls,
         NEW x \in [stage : CallStages, requested : Nat, gen : Nat],
         UNCHANGED <<updates, init, process, entry, loopback, aborted, disposing>>,
         calls' = [calls EXCEPT ![c] = x],
         x.requested <= issued,
         x.stage \in {"woken", "sent", "answered"} => x.requested <= DoneUpdates,
         x.stage = "drain" => jobs # <<>>
  PROVE  LifeInv'
<1> USE DEF updates
<1>1. LifecycleTypeOK'
  BY DEF LifeInv, LifecycleTypeOK
<1>2. \A d \in Calls : calls'[d] = IF d = c THEN x ELSE calls[d]
  BY DEF LifeInv, LifecycleTypeOK
<1>3. CallsWaited'
  BY <1>2 DEF LifeInv, CallsWaited, DoneUpdates
<1>4. DrainIsSignalled'
  BY <1>2 DEF LifeInv, DrainIsSignalled
<1> QED
  BY <1>1, <1>3, <1>4
  DEF LifeInv, JobsInOrder, UnderUpdate, DoneOrFailed, DisposedInOrder, RestsOnLatestOptions,
      DoneUpdates

\* An update ends, with a process of its own if it succeeds.
LEMMA EndUpdateLife ==
  ASSUME LifeInv, jobs # <<>>, NEW ok \in BOOLEAN, EndUpdate(ok),
         UNCHANGED <<issued, options, process, loopback, aborted>>, entry' \in Nat,
         ok => process.options = Head(jobs) /\ options = Head(jobs),
         ok /\ ~aborted => entry' = process.gen
  PROVE  LifeInv'
<1>0. /\ LifecycleTypeOK /\ JobsInOrder /\ DoneOrFailed /\ CallsWaited /\ DisposedInOrder
      /\ issued \in Nat /\ Len(jobs) \in Nat
  BY JobsFacts DEF LifeInv, LifecycleTypeOK
<1>1. /\ jobs' = Tail(jobs) /\ jobs' \in Seq(Nat) /\ Len(jobs') = Len(jobs) - 1
      /\ Head(jobs) = jobs[1] /\ Head(jobs) \in Nat
      /\ \A k \in 1..Len(jobs) - 1 : jobs'[k] = jobs[k + 1]
      /\ jobs' = <<>> <=> Len(jobs) = 1
  <2>1. jobs' = Tail(jobs) /\ jobs \in Seq(Nat)
    BY <1>0 DEF EndUpdate, Unlock, LifecycleTypeOK
  <2>2. /\ Tail(jobs) \in Seq(Nat) /\ Len(Tail(jobs)) = Len(jobs) - 1
        /\ Head(jobs) = jobs[1] /\ Head(jobs) \in Nat
        /\ \A k \in 1..Len(jobs) - 1 : Tail(jobs)[k] = jobs[k + 1]
    BY <2>1, JobsFacts
  <2>3. Tail(jobs) = <<>> <=> Len(jobs) = 1
    BY <1>0, <2>2
  <2> QED
    BY <2>1, <2>2, <2>3
<1>2. DoneUpdates' = DoneUpdates + 1 /\ Head(jobs) = DoneUpdates + 1 /\ DoneUpdates \in Int
  <2>1. Len(jobs) # 0
    BY <1>0, JobsFacts DEF LifecycleTypeOK
  <2>2. DoneUpdates' = issued - (Len(jobs) - 1) /\ DoneUpdates = issued - Len(jobs)
    BY <1>1 DEF DoneUpdates
  <2>3. 1 \in 1..Len(jobs)
    BY <1>0, <2>1
  <2>4. jobs[1] = DoneUpdates + 1
    BY <1>0, <2>3 DEF JobsInOrder
  <2> QED
    BY <1>0, <1>1, <2>2, <2>4
<1>3. /\ failed' = IF ok THEN failed ELSE failed \cup {Head(jobs)}
      /\ init' = IF Head(jobs) # 0 THEN init ELSE IF ok THEN "resolved" ELSE "rejected"
      /\ stage' = IF Len(jobs) = 1 THEN "idle" ELSE "begin"
      /\ disposing' = IF Len(jobs) = 1 /\ disposing = "drain" THEN "cleanup" ELSE disposing
  BY DEF EndUpdate, Unlock, Drain
<1>4. \A c \in Calls : /\ calls'[c].stage = IF Len(jobs) = 1 /\ calls[c].stage = "drain"
                                            THEN "woken" ELSE calls[c].stage
                       /\ calls'[c].requested = calls[c].requested
  <2>1. CASE Len(jobs) = 1
    BY <1>0, <2>1 DEF EndUpdate, Unlock, Drain, LifecycleTypeOK
  <2>2. CASE Len(jobs) # 1
    BY <2>2 DEF EndUpdate, Unlock
  <2> QED
    BY <2>1, <2>2
<1>5. LifecycleTypeOK'
  <2>1. calls' \in [Calls -> [stage : CallStages, requested : Nat, gen : Nat]]
    <3> DEFINE R == [stage : CallStages, requested : Nat, gen : Nat]
    <3>1. CASE Len(jobs) = 1
      <4>1. \A r \in R : [r EXCEPT !.stage = "woken"] \in R
        BY DEF CallStages
      <4>2. calls \in [Calls -> R]
        BY <1>0 DEF LifecycleTypeOK
      <4>3. calls' = [c \in Calls |-> IF calls[c].stage = "drain"
                                      THEN [calls[c] EXCEPT !.stage = "woken"] ELSE calls[c]]
        BY <3>1 DEF EndUpdate, Unlock, Drain
      <4> HIDE DEF R
      <4>4. calls' \in [Calls -> R]
        BY <4>1, <4>2, <4>3
      <4> QED
        BY <4>4 DEF R
    <3>2. CASE Len(jobs) # 1
      BY <1>0, <3>2 DEF EndUpdate, Unlock, LifecycleTypeOK
    <3> QED
      BY <3>1, <3>2
  <2>2. /\ issued' \in Nat /\ jobs' \in Seq(Nat) /\ options' \in Nat /\ failed' \subseteq Nat
        /\ stage' \in {"idle", "begin", "assemble", "spawn", "ports"}
        /\ init' \in {"pending", "resolved", "rejected"}
        /\ disposing' \in {"no", "init", "drain", "cleanup", "stopping", "done"}
    BY <1>0, <1>1, <1>3 DEF LifecycleTypeOK
  <2> QED
    BY <1>0, <2>1, <2>2 DEF LifecycleTypeOK
<1>6. JobsInOrder'
  <2>1. stage' = "idle" <=> jobs' = <<>>
    BY <1>1, <1>3
  <2>0. /\ Len(jobs) <= issued + 1 /\ issued' = issued
        /\ init = "pending" <=> Len(jobs) = issued + 1
    BY <1>0 DEF JobsInOrder
  <2>1a. Len(jobs') = Len(jobs) - 1 /\ Len(jobs) \in Nat /\ issued \in Nat
    BY <1>0, <1>1
  <2>2. Len(jobs') <= issued' + 1
    BY <2>0, <2>1a
  <2>3. ASSUME NEW k \in 1..Len(jobs') PROVE jobs'[k] = DoneUpdates' + k
    <3>1. k \in 1..Len(jobs) - 1 /\ k + 1 \in 1..Len(jobs) /\ k \in Nat
      BY <1>0, <1>1, <2>3
    <3>2. jobs'[k] = jobs[k + 1] /\ jobs[k + 1] = DoneUpdates + (k + 1)
      BY <1>0, <1>1, <3>1 DEF JobsInOrder
    <3> QED
      BY <1>2, <3>1, <3>2
  <2>4. init' = "pending" <=> Len(jobs') = issued' + 1
    <3>1. Head(jobs) = 0 <=> Len(jobs) = issued + 1
      BY <1>0, <1>2 DEF DoneUpdates
    <3> QED
      BY <1>3, <2>0, <2>1a, <3>1
  <2> QED
    BY <2>1, <2>2, <2>3, <2>4 DEF JobsInOrder
<1>7. UnderUpdate'
  BY <1>3 DEF UnderUpdate
<1>8. DoneOrFailed'
  <2> SUFFICES ASSUME NEW o \in (process.options + 1)..(DoneUpdates + 1) PROVE o \in failed'
    BY <1>2 DEF DoneOrFailed
  <2>1. process.options \in Nat
    BY <1>0 DEF LifecycleTypeOK
  <2>2. CASE o = Head(jobs)
    BY <1>2, <1>3, <2>1, <2>2
  <2>3. CASE o # Head(jobs)
    <3>1. o \in (process.options + 1)..DoneUpdates
      BY <1>2, <2>1, <2>3
    <3> QED
      BY <1>0, <1>3, <3>1 DEF DoneOrFailed
  <2> QED
    BY <2>2, <2>3
<1>9. CallsWaited'
  <2> SUFFICES ASSUME NEW c \in Calls
               PROVE  /\ calls'[c].requested <= issued
                      /\ calls'[c].stage \in {"woken", "sent", "answered"}
                           => calls'[c].requested <= DoneUpdates'
    BY DEF CallsWaited
  <2>1. calls[c].requested \in Nat
    BY <1>0 DEF LifecycleTypeOK
  <2>2. /\ calls[c].requested <= issued
        /\ calls[c].stage \in {"woken", "sent", "answered"} => calls[c].requested <= DoneUpdates
    BY <1>0 DEF CallsWaited
  <2>3. calls[c].requested <= DoneUpdates => calls[c].requested <= DoneUpdates'
    BY <1>2, <2>1
  <2>4. Len(jobs) = 1 => DoneUpdates' = issued
    BY <1>0, <1>2 DEF DoneUpdates
  <2> QED
    BY <1>4, <2>2, <2>3, <2>4
<1>10. DisposedInOrder'
  <2>1. disposing \in {"cleanup", "stopping", "done"} => init = "rejected" /\ init' = "rejected"
    BY <1>0, <1>2, <1>3 DEF DisposedInOrder, JobsInOrder, DoneUpdates
  <2> QED
    BY <1>0, <1>1, <1>3, <2>1 DEF DisposedInOrder
<1>11. RestsOnLatestOptions'
  <2> SUFFICES ASSUME jobs' = <<>>, ~aborted, issued \notin failed'
               PROVE  options = issued /\ process.options = issued /\ entry' = process.gen
    BY DEF RestsOnLatestOptions
  <2>1. Head(jobs) = issued
    BY <1>0, <1>1, <1>2 DEF DoneUpdates
  <2>2. ok
    BY <1>3, <2>1
  <2> QED
    BY <2>1, <2>2
<1>12. DrainIsSignalled'
  BY <1>0, <1>1, <1>3, <1>4 DEF DrainIsSignalled
<1> QED
  BY <1>5, <1>6, <1>7, <1>8, <1>9, <1>10, <1>11, <1>12 DEF LifeInv

\* setOptions queues one more update.
LEMMA SetOptionsLife ==
  ASSUME LifeInv, SetOptions
  PROVE  LifeInv'
<1>0. /\ LifecycleTypeOK /\ JobsInOrder /\ UnderUpdate /\ DoneOrFailed /\ CallsWaited
      /\ DisposedInOrder
      /\ issued \in Nat /\ Len(jobs) \in Nat /\ jobs \in Seq(Nat)
  BY JobsFacts DEF LifeInv, LifecycleTypeOK
<1>1. /\ issued' = issued + 1 /\ ~aborted /\ stage' = IF jobs = <<>> THEN "begin" ELSE stage
      /\ UNCHANGED <<options, failed, init, process, entry, loopback, aborted, disposing, calls>>
  BY DEF SetOptions
<1>2. /\ jobs' \in Seq(Nat) /\ jobs' # <<>>
      /\ \A k \in 1..Len(jobs) : jobs'[k] = jobs[k]
      /\ jobs'[Len(jobs) + 1] = issued + 1
  BY <1>0, JobsFacts DEF SetOptions
<1>3. Len(jobs') = Len(jobs) + 1
  BY <1>0, JobsFacts DEF SetOptions
<1>4. DoneUpdates' = DoneUpdates
  BY <1>0, <1>1, <1>3 DEF DoneUpdates
<1>5. LifecycleTypeOK'
  BY <1>0, <1>1, <1>2 DEF LifecycleTypeOK
<1>6. JobsInOrder'
  <2>1. /\ stage = "idle" <=> jobs = <<>>
        /\ Len(jobs) <= issued + 1
        /\ init = "pending" <=> Len(jobs) = issued + 1
    BY <1>0 DEF JobsInOrder
  <2>2. Len(jobs') <= issued' + 1 /\ (init' = "pending" <=> Len(jobs') = issued' + 1)
    BY <1>0, <1>1, <1>3, <2>1
  <2>3. ASSUME NEW k \in 1..Len(jobs') PROVE jobs'[k] = DoneUpdates' + k
    <3>1. CASE k = Len(jobs) + 1
      BY <1>0, <1>2, <1>4, <3>1 DEF DoneUpdates
    <3>2. CASE k # Len(jobs) + 1
      <4>1. k \in 1..Len(jobs)
        BY <1>0, <1>3, <3>2
      <4> QED
        BY <1>0, <1>2, <1>4, <4>1 DEF JobsInOrder
    <3> QED
      BY <3>1, <3>2
  <2> QED
    BY <1>1, <1>2, <2>1, <2>2, <2>3 DEF JobsInOrder
<1>7. UnderUpdate'
  <2>1. CASE jobs = <<>>
    BY <1>1, <2>1 DEF UnderUpdate
  <2>2. CASE jobs # <<>>
    <3>1. Head(jobs') = Head(jobs)
      BY <1>0, <2>2 DEF SetOptions
    <3> QED
      BY <1>0, <1>1, <2>2, <3>1 DEF UnderUpdate
  <2> QED
    BY <2>1, <2>2
<1>8. DoneOrFailed'
  BY <1>0, <1>1, <1>4 DEF DoneOrFailed
<1>9. CallsWaited'
  <2> SUFFICES ASSUME NEW c \in Calls PROVE calls[c].requested <= issued + 1
    BY <1>0, <1>1, <1>4 DEF CallsWaited
  <2>1. calls[c].requested \in Nat /\ calls[c].requested <= issued
    BY <1>0 DEF LifecycleTypeOK, CallsWaited
  <2> QED
    BY <1>0, <2>1
<1>10. DisposedInOrder'
  BY <1>0, <1>1 DEF DisposedInOrder, LifecycleTypeOK
<1>11. RestsOnLatestOptions' /\ DrainIsSignalled'
  BY <1>2 DEF RestsOnLatestOptions, DrainIsSignalled
<1> QED
  BY <1>5, <1>6, <1>7, <1>8, <1>9, <1>10, <1>11 DEF LifeInv

\* The updates.
LEMMA UpdateLife ==
  ASSUME LifeInv, Update
  PROVE  LifeInv' /\ jobs # <<>>
<1>0. /\ LifecycleTypeOK /\ JobsInOrder /\ UnderUpdate /\ DoneOrFailed /\ CallsWaited
      /\ DisposedInOrder /\ RestsOnLatestOptions /\ DrainIsSignalled
  BY DEF LifeInv
<1>1. jobs # <<>> /\ Head(jobs) \in Nat
  <2>1. stage # "idle"
    BY DEF Update, Begin, Refuse, Assemble, AssembleFails, Spawn, Started, StartFails,
           StartAborted
  <2> QED
    BY <1>0, <2>1, JobsFacts DEF JobsInOrder, LifecycleTypeOK
<1>2. CASE Begin
  <2>1. LifecycleTypeOK'
    BY <1>0, <1>1, <1>2 DEF Begin, LifecycleTypeOK
  <2>2. DisposedInOrder'
    BY <1>0, <1>1, <1>2 DEF Begin, DisposedInOrder
  <2> QED
    BY <1>0, <1>1, <1>2, <2>1, <2>2
    DEF Begin, LifeInv, JobsInOrder, UnderUpdate, DoneOrFailed, CallsWaited,
        RestsOnLatestOptions, DrainIsSignalled, DoneUpdates
<1>3. CASE Assemble
  <2>1. process' = [process EXCEPT !.state = "exited"] /\ process'.options = process.options
        /\ process'.state = "exited"
    BY <1>0, <1>3 DEF Assemble, LifecycleTypeOK
  <2>2. LifecycleTypeOK'
    BY <1>0, <1>3, <2>1 DEF Assemble, LifecycleTypeOK
  <2>3. DisposedInOrder' /\ JobsInOrder' /\ UnderUpdate'
    BY <1>0, <1>1, <1>3, <2>1
    DEF Assemble, DisposedInOrder, JobsInOrder, UnderUpdate, DoneUpdates
  <2>4. DoneOrFailed' /\ CallsWaited' /\ RestsOnLatestOptions' /\ DrainIsSignalled'
    BY <1>0, <1>1, <1>3, <2>1
    DEF Assemble, DoneOrFailed, CallsWaited, RestsOnLatestOptions, DrainIsSignalled, DoneUpdates
  <2> QED
    BY <1>1, <2>2, <2>3, <2>4 DEF LifeInv
<1>4. CASE Spawn
  <2>1. process' = [gen |-> process.gen + 1, options |-> options, state |-> "starting"]
    BY <1>4 DEF Spawn
  <2>2. /\ process'.options = Head(jobs) /\ options = Head(jobs) /\ stage' = "ports"
        /\ stage = "spawn"
        /\ UNCHANGED <<issued, jobs, options, failed, init, entry, loopback, aborted,
                       disposing, calls>>
    BY <1>0, <1>4, <2>1 DEF Spawn, UnderUpdate
  <2>3. LifecycleTypeOK'
    BY <1>0, <2>1, <2>2 DEF LifecycleTypeOK
  <2>4. DisposedInOrder' /\ JobsInOrder' /\ UnderUpdate'
    BY <1>0, <1>1, <2>2 DEF DisposedInOrder, JobsInOrder, UnderUpdate, DoneUpdates
  <2>5. DoneOrFailed'
    <3>1. Head(jobs) = jobs[1] /\ Len(jobs) \in Nat /\ issued \in Nat
      BY <1>0, <1>1, JobsFacts DEF LifecycleTypeOK
    <3>2. 1 \in 1..Len(jobs)
      BY <1>0, <1>1, <3>1, JobsFacts DEF LifecycleTypeOK
    <3>3. Head(jobs) = DoneUpdates + 1 /\ DoneUpdates \in Int
      BY <1>0, <3>1, <3>2 DEF JobsInOrder, DoneUpdates
    <3>4. DoneUpdates' = DoneUpdates
      BY <2>2 DEF DoneUpdates
    <3>5. (process'.options + 1)..DoneUpdates' = {}
      BY <2>2, <3>3, <3>4
    <3> QED
      BY <3>5 DEF DoneOrFailed
  <2>6. CallsWaited' /\ RestsOnLatestOptions' /\ DrainIsSignalled'
    BY <1>0, <1>1, <2>2
    DEF CallsWaited, RestsOnLatestOptions, DrainIsSignalled, DoneUpdates
  <2> QED
    BY <1>1, <2>3, <2>4, <2>5, <2>6 DEF LifeInv
<1>5. CASE Started \/ StartAborted
  <2>1. /\ EndUpdate(TRUE) /\ UNCHANGED <<issued, options, process, loopback, aborted>>
        /\ entry' \in Nat /\ process.options = Head(jobs) /\ options = Head(jobs)
        /\ ~aborted => entry' = process.gen
    BY <1>0, <1>5 DEF Started, StartAborted, UnderUpdate, LifecycleTypeOK
  <2> QED
    BY <1>1, <2>1, EndUpdateLife
<1>6. CASE Refuse \/ AssembleFails \/ StartFails
  <2>1. /\ EndUpdate(FALSE) /\ UNCHANGED <<issued, options, process, loopback, aborted>>
        /\ entry' \in Nat
    BY <1>0, <1>6 DEF Refuse, AssembleFails, StartFails, LifecycleTypeOK
  <2> QED
    BY <1>1, <2>1, EndUpdateLife
<1> QED
  BY <1>2, <1>3, <1>4, <1>5, <1>6 DEF Update

\* The process on its own, and dispose.
LEMMA ProcessLife ==
  ASSUME LifeInv, Listen \/ Exit \/ Dispose \/ DisposeStep
  PROVE  LifeInv'
<1> USE DEF updates
<1>0. /\ LifecycleTypeOK /\ JobsInOrder /\ UnderUpdate /\ DoneOrFailed /\ CallsWaited
      /\ DisposedInOrder /\ RestsOnLatestOptions /\ DrainIsSignalled
  BY DEF LifeInv
<1>1. /\ UNCHANGED <<issued, jobs, stage, options, failed, init, entry, calls>>
      /\ process'.gen = process.gen /\ process'.options = process.options
      /\ aborted => aborted'
  BY <1>0
  DEF Listen, Exit, Dispose, DisposeStep, DisposeReady, DisposeRuntime, Disposed,
      LifecycleTypeOK
<1>2. LifecycleTypeOK'
  BY <1>0
  DEF Listen, Exit, Dispose, DisposeStep, DisposeReady, DisposeRuntime, Disposed,
      LifecycleTypeOK
<1>3. DisposedInOrder'
  <2>1. CASE Listen \/ Exit
    BY <1>0, <1>1, <2>1 DEF Listen, Exit, DisposedInOrder, LifecycleTypeOK
  <2>2. CASE Dispose
    BY <1>0, <1>1, <2>2 DEF Dispose, DisposedInOrder
  <2>3. CASE DisposeReady
    BY <1>0, <1>1, <2>3 DEF DisposeReady, DisposedInOrder
  <2>4. CASE DisposeRuntime
    <3>1. process'.state = "exited"
      BY <1>0, <2>4 DEF DisposeRuntime, LifecycleTypeOK
    <3> QED
      BY <1>0, <1>1, <2>4, <3>1 DEF DisposeRuntime, DisposedInOrder
  <2>5. CASE Disposed
    BY <1>0, <1>1, <2>5 DEF Disposed, DisposedInOrder
  <2> QED
    BY <2>1, <2>2, <2>3, <2>4, <2>5 DEF DisposeStep
<1>4. DrainIsSignalled'
  <2>1. disposing' = "drain" => jobs # <<>>
    BY <1>0
    DEF Listen, Exit, Dispose, DisposeStep, DisposeReady, DisposeRuntime, Disposed,
        DrainIsSignalled
  <2> QED
    BY <1>0, <1>1, <2>1 DEF DrainIsSignalled
<1>5. JobsInOrder' /\ UnderUpdate' /\ DoneOrFailed' /\ CallsWaited'
  BY <1>0, <1>1 DEF JobsInOrder, UnderUpdate, DoneOrFailed, CallsWaited, DoneUpdates
<1>6. RestsOnLatestOptions'
  BY <1>0, <1>1 DEF RestsOnLatestOptions
<1> QED
  BY <1>2, <1>3, <1>4, <1>5, <1>6 DEF LifeInv

\* A call is made, goes on or ends.
LEMMA CallsLife ==
  ASSUME LifeInv, NEW c \in Calls,
         UNCHANGED <<updates, init, process, entry, loopback, aborted, disposing>>,
         \/ Call(c) \/ AwaitInit(c) \/ Send(c)
         \/ calls' = [calls EXCEPT ![c] = NoCall]
         \/ calls[c].stage = "sent" /\ SetStage(c, "answered")
         \/ SetStage(c, "args")
         \/ calls' = [calls EXCEPT ![c] = [stage |-> "init", requested |-> issued, gen |-> 0]]
         \/ jobs = <<>> /\ calls' = [calls EXCEPT ![c] = [stage |-> "sent", requested |-> issued,
                                                          gen |-> process.gen]]
         \/ jobs # <<>> /\ calls' = [calls EXCEPT ![c] = [stage |-> "drain", requested |-> issued,
                                                          gen |-> 0]]
  PROVE  LifeInv'
<1> DEFINE R == [stage : CallStages, requested : Nat, gen : Nat]
<1>0. /\ calls \in [Calls -> R] /\ issued \in Nat /\ process.gen \in Nat
      /\ jobs = <<>> => DoneUpdates = issued
      /\ calls[c].requested \in Nat /\ calls[c].gen \in Nat
  <2>1. /\ calls \in [Calls -> R] /\ issued \in Nat /\ process.gen \in Nat
        /\ jobs = <<>> => Len(jobs) = 0
    BY JobsFacts DEF LifeInv, LifecycleTypeOK
  <2> QED
    BY <2>1 DEF DoneUpdates
<1>1. /\ calls[c].requested <= issued
      /\ calls[c].stage \in {"woken", "sent", "answered"} => calls[c].requested <= DoneUpdates
  BY DEF LifeInv, CallsWaited
<1>2. ASSUME NEW x \in R, calls' = [calls EXCEPT ![c] = x], x.requested <= issued,
             x.stage \in {"woken", "sent", "answered"} => x.requested <= DoneUpdates,
             x.stage = "drain" => jobs # <<>>
      PROVE  LifeInv'
  BY <1>2, CallStepLife
<1>3. CASE calls' = [calls EXCEPT ![c] = NoCall]
  <2>1. NoCall \in R /\ NoCall.requested = 0 /\ NoCall.stage = "idle"
    BY DEF NoCall, CallStages
  <2>2. NoCall.requested <= issued
    BY <1>0, <2>1
  <2> HIDE DEF R
  <2> QED
    BY <1>2, <1>3, <2>1, <2>2
<1>4. ASSUME NEW s \in CallStages, NEW g \in Nat, NEW r \in {calls[c].requested, issued},
             calls' = [calls EXCEPT ![c] = [stage |-> s, requested |-> r, gen |-> g]],
             s \in {"woken", "sent", "answered"} => r <= DoneUpdates,
             s = "drain" => jobs # <<>>
      PROVE  LifeInv'
  <2> DEFINE x == [stage |-> s, requested |-> r, gen |-> g]
  <2>1. x \in R /\ x.stage = s /\ x.requested = r /\ r <= issued
    BY <1>0, <1>1
  <2>2. calls' = [calls EXCEPT ![c] = x]
    BY <1>4
  <2> HIDE DEF x, R
  <2> QED
    BY <1>2, <1>4, <2>1, <2>2
<1>5. ASSUME NEW s \in CallStages, NEW x,
             \/ x = [calls[c] EXCEPT !.stage = s]
             \/ x = [calls[c] EXCEPT !.stage = s, !.gen = process.gen],
             calls' = [calls EXCEPT ![c] = x],
             s \in {"woken", "sent", "answered"} => calls[c].requested <= DoneUpdates,
             s = "drain" => jobs # <<>>
      PROVE  LifeInv'
  <2>1. calls[c] \in R
    BY <1>0
  <2>2. x \in R /\ x.stage = s /\ x.requested = calls[c].requested
    BY <1>0, <1>5, <2>1
  <2> HIDE DEF R
  <2> QED
    BY <1>1, <1>2, <1>5, <2>2
<1>6. {"idle", "args", "init", "drain", "woken", "sent", "answered"} = CallStages
  BY DEF CallStages
<1> HIDE DEF R
<1>7. CASE Call(c)
  <2>1. calls' = [calls EXCEPT ![c] = [stage |-> "init", requested |-> issued, gen |-> 0]]
    BY <1>7 DEF Call
  <2> QED
    BY <1>0, <1>4, <1>6, <2>1
<1>8. CASE AwaitInit(c)
  <2>1. CASE init = "rejected"
    BY <1>3, <1>8, <2>1 DEF AwaitInit
  <2>2. CASE init # "rejected" /\ jobs = <<>>
    <3>1. calls' = [calls EXCEPT ![c] = [calls[c] EXCEPT !.stage = "woken"]]
      BY <1>8, <2>2 DEF AwaitInit
    <3>2. calls[c].requested <= DoneUpdates
      BY <1>0, <1>1, <2>2
    <3> QED
      BY <1>5, <1>6, <3>1, <3>2
  <2>3. CASE init # "rejected" /\ jobs # <<>>
    <3>1. calls' = [calls EXCEPT ![c] = [calls[c] EXCEPT !.stage = "drain"]]
      BY <1>8, <2>3 DEF AwaitInit
    <3> QED
      BY <1>5, <1>6, <2>3, <3>1
  <2> QED
    BY <2>1, <2>2, <2>3
<1>9. CASE Send(c)
  <2>1. CASE ~aborted /\ Reaches
    <3>1. calls' = [calls EXCEPT ![c] = [calls[c] EXCEPT !.stage = "sent", !.gen = process.gen]]
      BY <1>9, <2>1 DEF Send
    <3>2. calls[c].requested <= DoneUpdates
      BY <1>1, <1>9 DEF Send
    <3> QED
      BY <1>5, <1>6, <3>1, <3>2
  <2>2. CASE ~(~aborted /\ Reaches)
    BY <1>3, <1>9, <2>2 DEF Send
  <2> QED
    BY <2>1, <2>2
<1>10. CASE calls[c].stage = "sent" /\ SetStage(c, "answered")
  <2>1. calls' = [calls EXCEPT ![c] = [calls[c] EXCEPT !.stage = "answered"]]
    BY <1>10 DEF SetStage
  <2> QED
    BY <1>1, <1>5, <1>6, <1>10, <2>1
<1>11. CASE jobs = <<>> /\ calls' = [calls EXCEPT ![c] = [stage |-> "sent",
                                       requested |-> issued, gen |-> process.gen]]
  <2>1. issued <= DoneUpdates
    BY <1>0, <1>11
  <2> QED
    BY <1>0, <1>4, <1>6, <1>11, <2>1
<1>12. CASE jobs # <<>> /\ calls' = [calls EXCEPT ![c] = [stage |-> "drain",
                                       requested |-> issued, gen |-> 0]]
  BY <1>0, <1>4, <1>6, <1>12
<1>13. CASE SetStage(c, "args")
  <2>1. calls' = [calls EXCEPT ![c] = [calls[c] EXCEPT !.stage = "args"]]
    BY <1>13 DEF SetStage
  <2> QED
    BY <1>1, <1>5, <1>6, <2>1
<1>14. CASE calls' = [calls EXCEPT ![c] = [stage |-> "init", requested |-> issued, gen |-> 0]]
  BY <1>0, <1>4, <1>6, <1>14
<1> QED
  BY <1>3, <1>7, <1>8, <1>9, <1>10, <1>11, <1>12, <1>13, <1>14

\* Nothing else happens to the lifecycle.
LEMMA LifeStep ==
  ASSUME LifeInv, [Next]_vars
  PROVE  LifeInv'
<1> USE DEF updates, lifecycle
<1>1. CASE DoSetOptions
  BY <1>1, SetOptionsLife DEF DoSetOptions
<1>2. CASE DoUpdate
  BY <1>2, UpdateLife DEF DoUpdate
<1>3. CASE DoDispose \/ RuntimeEvent \/ DoDisposeStep
  BY <1>3, ProcessLife DEF DoDispose, RuntimeEvent, DoDisposeStep
<1>4. ASSUME NEW c \in Calls, NEW s \in stubs, CallStub(c, s)
      PROVE  LifeInv'
  BY <1>4, CallsLife DEF CallStub
<1>5. ASSUME NEW c \in Calls, Fetch(c) \/ GetBinding(c)
      PROVE  LifeInv'
  BY <1>5, CallsLife DEF Fetch, GetBinding, Call
<1>6. ASSUME NEW c \in Calls, DoAwaitInit(c) \/ DoSend(c) \/ DoReturn(c)
      PROVE  LifeInv'
  BY <1>6, CallsLife DEF DoAwaitInit, AwaitInit, DoSend, Send, DoReturn, Return
<1>7. ASSUME NEW c \in Calls, Bind(c) \/ BindNothing(c) \/ Revive(c) \/ Free(c)
      PROVE  LifeInv'
  BY <1>7, CallsLife DEF Bind, BindNothing, Revive, Free, Done
<1>8. ASSUME NEW c \in Calls, Serve(c)
      PROVE  LifeInv'
  BY <1>8, CallsLife DEF Serve, IsServed
<1>9. CASE UNCHANGED lifecycle
  BY <1>9
  DEF LifeInv, LifecycleTypeOK, JobsInOrder, UnderUpdate, DoneOrFailed, CallsWaited,
      DisposedInOrder, RestsOnLatestOptions, DrainIsSignalled, DoneUpdates
<1>10. ASSUME NEW c \in Calls, FinalizeBatch(c)
       PROVE  LifeInv'
  <2>1. CASE calls' = calls
    BY <1>9, <1>10, <2>1 DEF FinalizeBatch
  <2>2. CASE calls' # calls
    BY <1>10, <2>2, CallsLife DEF FinalizeBatch
  <2> QED
    BY <2>1, <2>2
<1>11. ASSUME NEW s \in stubs, Collect(s)
       PROVE  LifeInv'
  BY <1>9, <1>11 DEF Collect
<1>12. CASE UNCHANGED vars
  BY <1>9, <1>12 DEF vars
<1>13. ASSUME NEW c \in Calls, Dispatch(c)
       PROVE  LifeInv'
  <2>1. CASE aborted
    BY <1>13, <2>1, CallsLife DEF Dispatch, Done
  <2>2. CASE ~aborted
    BY <1>13, <2>2, CallsLife DEF Dispatch
  <2> QED
    BY <2>1, <2>2
<1>14. ASSUME NEW s \in stubs, SyncCall(s)
       PROVE  LifeInv'
  BY <1>9, <1>14 DEF SyncCall
<1> QED
  BY <1>1, <1>2, <1>3, <1>4, <1>5, <1>6, <1>7, <1>8, <1>10, <1>11, <1>12, <1>13, <1>14
  DEF Next, Continue

LEMMA InitLife == Init => LifeInv
<1> SUFFICES ASSUME Init PROVE LifeInv
  OBVIOUS
<1>1. LifecycleInit
  BY DEF Init
<1>2. LifecycleTypeOK
  <2>1. jobs \in Seq(Nat)
    BY <1>1 DEF LifecycleInit
  <2>2. calls \in [Calls -> [stage : CallStages, requested : Nat, gen : Nat]]
    BY <1>1 DEF LifecycleInit, NoCall, CallStages
  <2>3. process \in [gen : Nat, options : Nat, state : {"starting", "listening", "exited"}]
    BY <1>1 DEF LifecycleInit
  <2> QED
    BY <1>1, <2>1, <2>2, <2>3 DEF LifecycleInit, LifecycleTypeOK
<1>3. Len(jobs) = 1 /\ jobs[1] = 0 /\ jobs # <<>> /\ Head(jobs) = 0 /\ issued = 0
  BY <1>1 DEF LifecycleInit
<1>4. DoneUpdates = 0 - 1
  BY <1>3 DEF DoneUpdates
<1>5. JobsInOrder
  BY <1>1, <1>3, <1>4 DEF LifecycleInit, JobsInOrder
<1>6. DoneOrFailed
  BY <1>1, <1>4 DEF LifecycleInit, DoneOrFailed
<1> QED
  BY <1>1, <1>2, <1>3, <1>5, <1>6
  DEF LifecycleInit, LifeInv, UnderUpdate, CallsWaited, DisposedInOrder, RestsOnLatestOptions,
      DrainIsSignalled, NoCall

\* The lifecycle's invariant always holds.
LEMMA LifeAlways == Spec => []LifeInv
BY InitLife, LifeStep, PTL DEF Spec

(* Updates are applied in calling order, whenever setOptions is called: at
   rest the process has the options given last, unless their update failed. *)
THEOREM UpdatesAreApplied == Spec => []RestsOnLatestOptions
<1>1. LifeInv => RestsOnLatestOptions
  BY DEF LifeInv
<1> QED
  BY <1>1, LifeAlways, PTL

(* Whoever waits for the updates to drain is woken: some update holds the
   mutex, and its end signals the drain. *)
THEOREM SomebodyDrains == Spec => []DrainIsSignalled
<1>1. LifeInv => DrainIsSignalled
  BY DEF LifeInv
<1> QED
  BY <1>1, LifeAlways, PTL

(* A request is served with the options given before it was made, or later
   ones, unless their update failed. *)
THEOREM RequestsWaitForOptions == Spec => []RequestsSeeTheirOptions
<1>1. LifeInv => RequestsSeeTheirOptions
  <2> SUFFICES ASSUME LifeInv, NEW c \in Calls, IsServed(c),
                      NEW o \in (process.options + 1)..calls[c].requested
               PROVE  o \in failed
    BY DEF RequestsSeeTheirOptions
  <2>1. /\ process.options \in Nat /\ calls[c].requested \in Nat
        /\ issued \in Nat /\ Len(jobs) \in Nat
    BY JobsFacts DEF LifeInv, LifecycleTypeOK
  <2>2. calls[c].requested <= DoneUpdates /\ DoneUpdates \in Int
    BY <2>1 DEF LifeInv, CallsWaited, IsServed, DoneUpdates
  <2>3. o \in (process.options + 1)..DoneUpdates
    BY <2>1, <2>2
  <2> QED
    BY <2>3 DEF LifeInv, DoneOrFailed
<1> QED
  BY <1>1, LifeAlways, PTL

(* dispose leaves no process, server or update behind, whenever it is called,
   provided that the constructor's update did not throw. *)
THEOREM DisposeStopsAll == Spec => []NothingLeftAfterDispose
<1>1. LifeInv => NothingLeftAfterDispose
  BY DEF LifeInv, DisposedInOrder, NothingLeftAfterDispose
<1> QED
  BY <1>1, LifeAlways, PTL

-----------------------------------------------------------------------------
(* Stubs. *)

ProxyTyped == /\ version \in Nat /\ nextAddress \in Nat /\ heap \subseteq Nat
              /\ stubs \subseteq Stubs /\ batch \subseteq Stubs
              /\ work \in [Calls -> [op : Ops, targets : SUBSET Stubs]]

SameObject(s, t) == s.gen = t.gen /\ s.address = t.address

\* Results on their way to Node, and objects that are being freed.
Results(c) == IF calls[c].stage = "answered" THEN work[c].targets ELSE {}
Freed(c) == IF work[c].op = "free" THEN work[c].targets ELSE {}

\* Stubs that are not poisoned live in the process that runs.
CurrentStubs ==
  \A s \in stubs \cup batch :
    /\ s.version <= version
    /\ s.version = version => jobs = <<>> /\ s.gen = process.gen
    /\ s.version = version /\ s \in stubs => s.address \in heap

\* Calls of stubs and updates exclude each other.
CallIsSound(c) ==
  /\ work[c].op = "binding" /\ calls[c].stage = "woken" => jobs = <<>>
  /\ work[c].op = "call" => jobs = <<>> /\ \A s \in work[c].targets : s.gen = process.gen
  /\ calls[c].stage = "answered" =>
       work[c].op = "call" /\ \A s \in work[c].targets : s.address \in heap
  /\ work[c].op = "free" =>
       calls[c].stage = "sent" /\ \A s \in work[c].targets : s.gen = calls[c].gen

CallsExcludeUpdates == \A c \in Calls : CallIsSound(c)

\* An address that the process has yet to hand out.
Old(s) == s.gen <= process.gen /\ (s.gen = process.gen => s.address < nextAddress)

AddressesAreOld ==
  /\ \A s \in stubs \cup batch : Old(s)
  /\ \A c \in Calls : \A s \in Results(c) \cup Freed(c) : Old(s)

\* An object has one stub, or is on its way, or is about to be freed.
OneHolder ==
  /\ \A s, t \in stubs : SameObject(s, t) => s = t
  /\ \A s \in stubs, t \in batch : ~SameObject(s, t)
  /\ \A c \in Calls : \A t \in Freed(c) : \A s \in stubs : ~SameObject(s, t)
  /\ \A c \in Calls : \A r \in Results(c) :
       /\ \A s \in stubs \cup batch : ~SameObject(s, r)
       /\ \A d \in Calls : \A t \in Freed(d) : ~SameObject(t, r)
       /\ \A d \in Calls \ {c} : \A t \in Results(d) : ~SameObject(t, r)

StubInv == /\ ProxyTyped
           /\ CurrentStubs /\ CallsExcludeUpdates /\ AddressesAreOld /\ OneHolder

\* Poisoning invalidates stubs; the rest of the lifecycle leaves them alone.
LEMMA PoisonStubs ==
  ASSUME StubInv, version' \in {version, version + 1}, process'.gen = process.gen,
         UNCHANGED <<stubs, batch, heap, nextAddress, work, calls>>,
         jobs' = jobs \/ (Underway = {} /\ version' = version + 1)
  PROVE  StubInv'
<1>0. ProxyTyped /\ CurrentStubs /\ CallsExcludeUpdates /\ AddressesAreOld /\ OneHolder
  BY DEF StubInv
<1>1. ProxyTyped'
  BY <1>0 DEF ProxyTyped
<1>2. \A s \in stubs \cup batch : s.version \in Nat
  BY <1>0 DEF ProxyTyped, Stubs
<1>3. CurrentStubs'
  <2>1. CASE version' = version + 1
    BY <1>0, <1>2, <2>1 DEF CurrentStubs, ProxyTyped
  <2>2. CASE version' # version + 1
    BY <1>0, <2>2 DEF CurrentStubs, ProxyTyped
  <2> QED
    BY <2>1, <2>2
<1>4. CallsExcludeUpdates'
  <2> SUFFICES ASSUME NEW c \in Calls PROVE CallIsSound(c)'
    BY DEF CallsExcludeUpdates
  <2>1. CallIsSound(c)
    BY <1>0 DEF CallsExcludeUpdates
  <2>2. CASE jobs' = jobs
    BY <2>1, <2>2 DEF CallIsSound
  <2>3. CASE work[c].op \notin {"binding", "call"}
    BY <2>1, <2>3 DEF CallIsSound
  <2> QED
    BY <2>2, <2>3 DEF Underway
<1>5. AddressesAreOld'
  BY <1>0 DEF AddressesAreOld, Old, Results, Freed
<1>6. OneHolder'
  BY <1>0 DEF OneHolder, Results, Freed
<1> QED
  BY <1>1, <1>3, <1>4, <1>5, <1>6 DEF StubInv

\* A call goes on or ends; what it held is dropped, or stays with it.
LEMMA CallStubs ==
  ASSUME StubInv, NEW c \in Calls,
         UNCHANGED <<version, stubs, batch, heap, nextAddress, jobs, process>>,
         \A d \in Calls \ {c} : calls'[d] = calls[d] /\ work'[d] = work[d],
         work' \in [Calls -> [op : Ops, targets : SUBSET Stubs]],
         CallIsSound(c)',
         Results(c)' \subseteq Results(c), Freed(c)' \subseteq Freed(c)
  PROVE  StubInv'
<1>0. ProxyTyped /\ CurrentStubs /\ CallsExcludeUpdates /\ AddressesAreOld /\ OneHolder
  BY DEF StubInv
<1>1. ProxyTyped' /\ CurrentStubs'
  BY <1>0 DEF ProxyTyped, CurrentStubs
<1>2. CallsExcludeUpdates'
  BY <1>0 DEF CallsExcludeUpdates, CallIsSound
<1>3. \A d \in Calls : Results(d)' \subseteq Results(d) /\ Freed(d)' \subseteq Freed(d)
  BY DEF Results, Freed
<1>4. AddressesAreOld'
  BY <1>0, <1>3 DEF AddressesAreOld, Old
<1>5. OneHolder'
  BY <1>0, <1>3 DEF OneHolder
<1> QED
  BY <1>1, <1>2, <1>4, <1>5 DEF StubInv

\* An update finds no call of a stub and no valid stub.
LEMMA UpdateStubs ==
  ASSUME StubInv, LifeInv, DoUpdate
  PROVE  StubInv'
<1>0. ProxyTyped /\ CurrentStubs /\ CallsExcludeUpdates /\ AddressesAreOld /\ OneHolder
  BY DEF StubInv
<1>1. jobs # <<>> /\ process.gen \in Nat
  BY UpdateLife DEF DoUpdate, LifeInv, LifecycleTypeOK
<1>2. /\ UNCHANGED <<version, stubs, batch, work>>
      /\ \/ process'.gen = process.gen /\ UNCHANGED <<heap, nextAddress>>
         \/ process'.gen = process.gen + 1 /\ heap' = {} /\ nextAddress' = 1
  <2>1. process'.gen \in {process.gen, process.gen + 1}
    <3>1. CASE Assemble
      BY <3>1 DEF Assemble, LifeInv, LifecycleTypeOK
    <3>2. CASE Spawn
      BY <3>2 DEF Spawn
    <3>3. CASE process' = process
      BY <3>3
    <3> QED
      BY <3>1, <3>2, <3>3
      DEF DoUpdate, Update, Begin, Refuse, AssembleFails, Started, StartFails, StartAborted
  <2> QED
    BY <1>1, <2>1 DEF DoUpdate
<1>3. ASSUME NEW c \in Calls
      PROVE  /\ calls'[c].gen = calls[c].gen
             /\ \/ calls'[c].stage = calls[c].stage
                \/ calls[c].stage = "drain" /\ calls'[c].stage = "woken" /\ jobs' = <<>>
  <2>1. CASE UNCHANGED calls
    BY <2>1
  <2>2. CASE Unlock /\ Len(jobs) = 1
    <3>1. jobs' = <<>>
      <4>1. jobs \in Seq(Nat)
        BY DEF LifeInv, LifecycleTypeOK
      <4> QED
        BY <2>2, <4>1 DEF Unlock
    <3>2. calls'[c] = IF calls[c].stage = "drain" THEN [calls[c] EXCEPT !.stage = "woken"]
                                                  ELSE calls[c]
      BY <2>2 DEF Unlock, Drain
    <3>3. calls[c] \in [stage : CallStages, requested : Nat, gen : Nat]
      BY DEF LifeInv, LifecycleTypeOK
    <3> QED
      BY <3>1, <3>2, <3>3
  <2> QED
    BY <2>1, <2>2
    DEF DoUpdate, Update, Begin, Refuse, Assemble, AssembleFails, Spawn, Started, StartFails,
        StartAborted, EndUpdate, Unlock
<1>4. ProxyTyped'
  <2>1. heap' \in {heap, {}} /\ nextAddress' \in {nextAddress, 1}
    BY <1>2
  <2>2. heap' \subseteq Nat /\ nextAddress' \in Nat
    BY <1>0, <2>1 DEF ProxyTyped
  <2>3. /\ version' \in Nat /\ stubs' \subseteq Stubs /\ batch' \subseteq Stubs
        /\ work' \in [Calls -> [op : Ops, targets : SUBSET Stubs]]
    BY <1>0, <1>2 DEF ProxyTyped
  <2> QED
    BY <2>2, <2>3 DEF ProxyTyped
<1>5. CurrentStubs'
  BY <1>0, <1>1, <1>2 DEF CurrentStubs
<1>6. CallsExcludeUpdates'
  BY <1>0, <1>1, <1>2, <1>3 DEF CallsExcludeUpdates, CallIsSound
<1>7. \A c \in Calls : Results(c)' = {} /\ Freed(c)' = Freed(c)
  BY <1>0, <1>1, <1>2, <1>3 DEF CallsExcludeUpdates, CallIsSound, Results, Freed
<1>8. AddressesAreOld'
  <2>1. ASSUME NEW s \in Stubs, Old(s) PROVE Old(s)'
    <3>1. s.gen \in Nat
      BY DEF Stubs
    <3> QED
      BY <1>1, <1>2, <2>1, <3>1 DEF Old
  <2>2. stubs \subseteq Stubs /\ batch \subseteq Stubs /\ \A c \in Calls : Freed(c) \subseteq Stubs
    BY <1>0 DEF ProxyTyped, Freed
  <2> QED
    BY <1>0, <1>2, <1>7, <2>1, <2>2 DEF AddressesAreOld
<1>9. OneHolder'
  BY <1>0, <1>2, <1>7 DEF OneHolder
<1> QED
  BY <1>4, <1>5, <1>6, <1>8, <1>9 DEF StubInv

\* A call is over.
LEMMA DoneFacts ==
  ASSUME StubInv, LifeInv, NEW c \in Calls, Done(c)
  PROVE  /\ calls'[c] = NoCall /\ work'[c] = NoWork
         /\ \A d \in Calls \ {c} : calls'[d] = calls[d] /\ work'[d] = work[d]
         /\ work' \in [Calls -> [op : Ops, targets : SUBSET Stubs]]
         /\ CallIsSound(c)' /\ Results(c)' = {} /\ Freed(c)' = {}
<1>1. /\ DOMAIN calls = Calls /\ work \in [Calls -> [op : Ops, targets : SUBSET Stubs]]
      /\ calls' = [calls EXCEPT ![c] = NoCall] /\ work' = [work EXCEPT ![c] = NoWork]
  BY DEF StubInv, ProxyTyped, LifeInv, LifecycleTypeOK, Done
<1>2. NoWork \in [op : Ops, targets : SUBSET Stubs]
  BY DEF NoWork, Ops
<1>3. /\ calls'[c] = NoCall /\ work'[c] = NoWork
      /\ \A d \in Calls \ {c} : calls'[d] = calls[d] /\ work'[d] = work[d]
  BY <1>1
<1>4. work' \in [Calls -> [op : Ops, targets : SUBSET Stubs]]
  BY <1>1, <1>2
<1>5. NoCall.stage = "idle" /\ NoWork.op = "fetch"
  BY DEF NoCall, NoWork
<1> QED
  BY <1>3, <1>4, <1>5 DEF CallIsSound, Results, Freed

\* A call goes on as before, or holds nothing any more.
SameOrOver(d) == \/ calls'[d] = calls[d] /\ work'[d] = work[d]
                 \/ CallIsSound(d)' /\ Results(d)' = {} /\ Freed(d)' = {}

\* New stubs are made; a call that has come with them is over.
LEMMA NewStubs ==
  ASSUME StubInv, LifeInv, jobs = <<>>,
         UNCHANGED <<version, batch, jobs, process>>,
         work' \in [Calls -> [op : Ops, targets : SUBSET Stubs]],
         \A d \in Calls : SameOrOver(d),
         heap \subseteq heap', heap' \subseteq Nat,
         nextAddress' \in Nat, nextAddress <= nextAddress',
         NEW new \in SUBSET Stubs, stubs' = stubs \cup new,
         \A n \in new : /\ n.version = version /\ n.gen = process.gen
                        /\ n.address \in heap' /\ n.address < nextAddress',
         \A m, n \in new : SameObject(m, n) => m = n,
         \A n \in new : /\ \A s \in stubs \cup batch : ~SameObject(s, n)
                        /\ \A d \in Calls : \A t \in Freed(d) : ~SameObject(t, n)
                        /\ \A d \in Calls : \A t \in Results(d)' : ~SameObject(t, n)
  PROVE  StubInv'
<1>0. /\ ProxyTyped /\ CurrentStubs /\ CallsExcludeUpdates /\ AddressesAreOld /\ OneHolder
      /\ process.gen \in Nat /\ version \in Nat
  BY DEF StubInv, ProxyTyped, LifeInv, LifecycleTypeOK
<1>2. ProxyTyped'
  BY <1>0 DEF ProxyTyped
<1>3. CurrentStubs'
  <2> SUFFICES ASSUME NEW s \in stubs' \cup batch
               PROVE  /\ s.version <= version
                      /\ s.version = version => jobs' = <<>> /\ s.gen = process'.gen
                      /\ s.version = version /\ s \in stubs' => s.address \in heap'
    BY DEF CurrentStubs
  <2>1. CASE s \in new
    BY <1>0, <2>1
  <2>2. CASE s \in stubs \cup batch
    BY <1>0, <2>2 DEF CurrentStubs
  <2> QED
    BY <2>1, <2>2
<1>4. CallsExcludeUpdates'
  <2> SUFFICES ASSUME NEW d \in Calls, calls'[d] = calls[d], work'[d] = work[d]
               PROVE  CallIsSound(d)'
    BY DEF CallsExcludeUpdates, SameOrOver
  <2>1. CallIsSound(d)
    BY <1>0 DEF CallsExcludeUpdates
  <2> QED
    BY <2>1 DEF CallIsSound
<1>5. \A d \in Calls : Results(d)' \subseteq Results(d) /\ Freed(d)' \subseteq Freed(d)
  BY DEF Results, Freed, SameOrOver
<1>6. AddressesAreOld'
  <2>1. ASSUME NEW s \in Stubs, Old(s) PROVE Old(s)'
    <3>1. s.gen \in Nat /\ s.address \in Nat /\ nextAddress \in Nat
      BY <1>0 DEF Stubs, ProxyTyped
    <3> QED
      BY <1>0, <2>1, <3>1 DEF Old
  <2>2. /\ stubs \subseteq Stubs /\ batch \subseteq Stubs
        /\ \A d \in Calls : Freed(d) \subseteq Stubs /\ Results(d) \subseteq Stubs
    BY <1>0 DEF ProxyTyped, Freed, Results
  <2>3. \A n \in new : Old(n)'
    BY <1>0 DEF Old
  <2> QED
    BY <1>0, <1>5, <2>1, <2>2, <2>3 DEF AddressesAreOld
<1>7. OneHolder'
  <2>1. \A s, u \in stubs' : SameObject(s, u) => s = u
    BY <1>0 DEF OneHolder, SameObject
  <2>2. \A s \in stubs', u \in batch' : ~SameObject(s, u)
    BY <1>0 DEF OneHolder, SameObject
  <2>3. \A d \in Calls : \A u \in Freed(d)' : \A s \in stubs' : ~SameObject(s, u)
    BY <1>0, <1>5 DEF OneHolder, SameObject
  <2>4. ASSUME NEW d \in Calls, NEW r \in Results(d)'
        PROVE  /\ \A s \in stubs' \cup batch' : ~SameObject(s, r)
               /\ \A e \in Calls : \A u \in Freed(e)' : ~SameObject(u, r)
               /\ \A e \in Calls \ {d} : \A u \in Results(e)' : ~SameObject(u, r)
    <3>1. r \in Results(d)
      BY <1>5, <2>4
    <3> QED
      BY <1>0, <1>5, <3>1 DEF OneHolder, SameObject
  <2> QED
    BY <2>1, <2>2, <2>3, <2>4 DEF OneHolder
<1> QED
  BY <1>2, <1>3, <1>4, <1>6, <1>7 DEF StubInv

\* A synchronous request puts a new object on the heap.
LEMMA NewObject ==
  ASSUME StubInv, LifeInv, jobs = <<>>, UNCHANGED <<version, batch, jobs, process>>, Allocate,
         stubs' = stubs \cup {Stub(nextAddress, process.gen)},
         work' \in [Calls -> [op : Ops, targets : SUBSET Stubs]],
         \A d \in Calls : SameOrOver(d)
  PROVE  StubInv'
<1> DEFINE n == Stub(nextAddress, process.gen)
           new == {n}
<1>0. /\ CallsExcludeUpdates /\ AddressesAreOld /\ process.gen \in Nat
      /\ version \in Nat /\ nextAddress \in Nat /\ heap \subseteq Nat
  BY DEF StubInv, ProxyTyped, LifeInv, LifecycleTypeOK
<1>1. /\ heap' = heap \cup {nextAddress} /\ nextAddress' = nextAddress + 1
      /\ stubs' = stubs \cup new
  BY DEF Allocate
<1>3. n \in Stubs /\ n.version = version /\ n.gen = process.gen /\ n.address = nextAddress
  BY <1>0 DEF Stub, Stubs
<1>4. \A s \in Stubs : Old(s) => ~SameObject(s, n)
  BY <1>0, <1>3 DEF Old, SameObject, Stubs
<1>5. /\ stubs \subseteq Stubs /\ batch \subseteq Stubs
      /\ \A d \in Calls : Freed(d) \subseteq Stubs /\ Results(d) \subseteq Stubs
  BY DEF StubInv, ProxyTyped, Freed, Results
<1>6. /\ \A s \in stubs \cup batch : ~SameObject(s, n)
      /\ \A d \in Calls : \A s \in Freed(d) : ~SameObject(s, n)
      /\ \A d \in Calls : \A s \in Results(d) : ~SameObject(s, n)
  BY <1>0, <1>4, <1>5 DEF AddressesAreOld
<1>7. /\ heap \subseteq heap' /\ heap' \subseteq Nat /\ nextAddress \in heap'
      /\ nextAddress' \in Nat /\ nextAddress <= nextAddress' /\ nextAddress < nextAddress'
  <2>1. ASSUME NEW a \in Nat
        PROVE  a + 1 \in Nat /\ a <= a + 1 /\ a < a + 1
    BY <2>1
  <2>2. /\ nextAddress' \in Nat /\ nextAddress <= nextAddress' /\ nextAddress < nextAddress'
    BY <1>0, <1>1, <2>1
  <2>3. heap \subseteq heap' /\ heap' \subseteq Nat /\ nextAddress \in heap'
    BY <1>0, <1>1
  <2> QED
    BY <2>2, <2>3
<1> HIDE DEF n
<1>8. /\ new \in SUBSET Stubs
      /\ \A m \in new : m = n
  BY <1>3
<1> HIDE DEF new
<1>9. \A m \in new : /\ m.version = version /\ m.gen = process.gen
                     /\ m.address \in heap' /\ m.address < nextAddress'
  BY <1>3, <1>7, <1>8
<1>10. \A m, p \in new : SameObject(m, p) => m = p
  BY <1>8
<1>11. \A m \in new : /\ \A s \in stubs \cup batch : ~SameObject(s, m)
                      /\ \A d \in Calls : \A s \in Freed(d) : ~SameObject(s, m)
                      /\ \A d \in Calls : \A s \in Results(d)' : ~SameObject(s, m)
  <2>1. \A d \in Calls : Results(d)' \subseteq Results(d)
    BY DEF Results, SameOrOver
  <2> QED
    BY <1>6, <1>8, <2>1
<1> QED
  BY <1>1, <1>7, <1>8, <1>9, <1>10, <1>11, NewStubs

LEMMA BindStubs ==
  ASSUME StubInv, LifeInv, NEW c \in Calls, Bind(c)
  PROVE  StubInv'
<1>1. /\ UNCHANGED <<version, batch, jobs, process>> /\ Allocate /\ Done(c)
      /\ stubs' = stubs \cup {Stub(nextAddress, process.gen)}
  BY DEF Bind, updates
<1>2. jobs = <<>>
  BY DEF StubInv, Bind, CallsExcludeUpdates, CallIsSound
<1>3. /\ work' \in [Calls -> [op : Ops, targets : SUBSET Stubs]]
      /\ CallIsSound(c)' /\ Results(c)' = {} /\ Freed(c)' = {}
      /\ \A d \in Calls \ {c} : calls'[d] = calls[d] /\ work'[d] = work[d]
  BY <1>1, DoneFacts
<1>4. \A d \in Calls : SameOrOver(d)
  BY <1>3 DEF SameOrOver
<1> QED
  BY <1>1, <1>2, <1>3, <1>4, NewObject

LEMMA SyncCallStubs ==
  ASSUME StubInv, LifeInv, NEW s \in stubs, SyncCall(s)
  PROVE  StubInv'
<1>1. /\ UNCHANGED <<version, batch, jobs, process, calls, work>> /\ Allocate
      /\ stubs' = stubs \cup {Stub(nextAddress, process.gen)}
  BY DEF SyncCall, lifecycle, updates
<1>2. jobs = <<>>
  BY DEF StubInv, SyncCall, Safe, CurrentStubs
<1>3. work' \in [Calls -> [op : Ops, targets : SUBSET Stubs]]
  BY <1>1 DEF StubInv, ProxyTyped
<1>4. \A d \in Calls : SameOrOver(d)
  BY <1>1 DEF SameOrOver
<1> QED
  BY <1>1, <1>2, <1>3, <1>4, NewObject

LEMMA ReviveStubs ==
  ASSUME StubInv, LifeInv, NEW c \in Calls, Revive(c)
  PROVE  StubInv'
<1> DEFINE new == {Stub(s.address, s.gen) : s \in work[c].targets}
<1>0. /\ CallsExcludeUpdates /\ AddressesAreOld /\ OneHolder /\ process.gen \in Nat
      /\ version \in Nat /\ nextAddress \in Nat /\ heap \subseteq Nat
  BY DEF StubInv, ProxyTyped, LifeInv, LifecycleTypeOK
<1>1. /\ Done(c) /\ UNCHANGED <<version, batch, jobs, process, heap, nextAddress>>
      /\ stubs' = stubs \cup new /\ calls[c].stage = "answered"
  BY DEF Revive, updates
<1>2. jobs = <<>> /\ \A s \in work[c].targets : s.gen = process.gen /\ s.address \in heap
  BY <1>0, <1>1 DEF CallsExcludeUpdates, CallIsSound
<1>3. Results(c) = work[c].targets /\ work[c].targets \subseteq Stubs
  BY <1>1 DEF Results, StubInv, ProxyTyped
<1>4. ASSUME NEW s \in work[c].targets
      PROVE  /\ Stub(s.address, s.gen) \in Stubs
             /\ Stub(s.address, s.gen).version = version
             /\ Stub(s.address, s.gen).gen = s.gen
             /\ Stub(s.address, s.gen).address = s.address
  BY <1>0, <1>3 DEF Stub, Stubs
<1>5. new \in SUBSET Stubs /\ \A n \in new : n.version = version
  BY <1>4
<1>6. \A n \in new : \E s \in Results(c) : SameObject(n, s)
  BY <1>3, <1>4 DEF SameObject
<1>7. \A m, n \in new : SameObject(m, n) => m = n
  BY <1>4 DEF SameObject, Stub
<1> HIDE DEF new
<1>8. \A n \in new : n.gen = process.gen /\ n.address \in heap' /\ n.address < nextAddress'
  <2> SUFFICES ASSUME NEW n \in new
               PROVE  n.gen = process.gen /\ n.address \in heap /\ n.address < nextAddress
    BY <1>1
  <2>1. PICK s \in Results(c) : SameObject(n, s)
    BY <1>6
  <2>2. Old(s)
    BY <1>0, <2>1 DEF AddressesAreOld
  <2> QED
    BY <1>2, <1>3, <2>1, <2>2 DEF SameObject, Old
<1>9. \A n \in new : /\ \A s \in stubs \cup batch : ~SameObject(s, n)
                     /\ \A d \in Calls : \A u \in Freed(d) : ~SameObject(u, n)
                     /\ \A d \in Calls \ {c} : \A u \in Results(d) : ~SameObject(u, n)
  <2> SUFFICES ASSUME NEW n \in new
               PROVE  /\ \A s \in stubs \cup batch : ~SameObject(s, n)
                      /\ \A d \in Calls : \A u \in Freed(d) : ~SameObject(u, n)
                      /\ \A d \in Calls \ {c} : \A u \in Results(d) : ~SameObject(u, n)
    OBVIOUS
  <2>1. PICK r \in Results(c) : SameObject(n, r)
    BY <1>6
  <2>2. \A u : SameObject(u, n) => SameObject(u, r)
    BY <2>1 DEF SameObject
  <2> QED
    BY <1>0, <2>1, <2>2 DEF OneHolder
<1>10. heap \subseteq heap' /\ heap' \subseteq Nat /\ nextAddress' \in Nat
       /\ nextAddress <= nextAddress'
  BY <1>0, <1>1
<1>11. /\ work' \in [Calls -> [op : Ops, targets : SUBSET Stubs]]
       /\ CallIsSound(c)' /\ Results(c)' = {} /\ Freed(c)' = {}
       /\ \A d \in Calls \ {c} : calls'[d] = calls[d] /\ work'[d] = work[d]
  BY <1>1, DoneFacts
<1>12. \A n \in new : \A d \in Calls : \A u \in Results(d)' : ~SameObject(u, n)
  <2>1. \A d \in Calls \ {c} : Results(d)' = Results(d)
    BY <1>11 DEF Results
  <2> QED
    BY <1>9, <1>11, <2>1
<1>13. \A d \in Calls : SameOrOver(d)
  BY <1>11 DEF SameOrOver
<1> QED
  BY <1>1, <1>2, <1>5, <1>7, <1>8, <1>9, <1>10, <1>11, <1>12, <1>13, NewStubs

\* The server answers with a new object.
LEMMA ServeStubs ==
  ASSUME StubInv, LifeInv, NEW c \in Calls, Serve(c)
  PROVE  StubInv'
<1> PICK r : r = [address |-> nextAddress, gen |-> process.gen, version |-> 0]
  OBVIOUS
<1>0. /\ ProxyTyped /\ CurrentStubs /\ CallsExcludeUpdates /\ AddressesAreOld /\ OneHolder
      /\ process.gen \in Nat /\ nextAddress \in Nat /\ heap \subseteq Nat
  BY DEF StubInv, ProxyTyped, LifeInv, LifecycleTypeOK
<1>1. /\ UNCHANGED <<version, stubs, batch, jobs, process>>
      /\ heap' = heap \cup {nextAddress} /\ nextAddress' = nextAddress + 1
      /\ work[c].op = "call" /\ calls[c].stage = "sent"
  BY DEF Serve, Allocate, IsServed, updates
<1>2. /\ calls'[c].stage = "answered" /\ work'[c].op = "call" /\ work'[c].targets = {r}
      /\ \A d \in Calls \ {c} : calls'[d] = calls[d] /\ work'[d] = work[d]
  BY <1>0, <1>1 DEF Serve, SetStage, ProxyTyped, LifeInv, LifecycleTypeOK
<1>3. r \in Stubs /\ r.gen = process.gen /\ r.address = nextAddress
  BY <1>0 DEF Stubs
<1>4. work' \in [Calls -> [op : Ops, targets : SUBSET Stubs]]
  <2>1. work' = [work EXCEPT ![c].targets = {r}] /\ {r} \in SUBSET Stubs
    BY <1>3 DEF Serve
  <2> QED
    BY <1>0, <2>1 DEF ProxyTyped
<1>5. ProxyTyped'
  <2>0. heap \subseteq Nat /\ nextAddress \in Nat
    BY <1>0
  <2>1. heap' = heap \cup {nextAddress} /\ nextAddress' = nextAddress + 1
    BY <1>1
  <2>3. heap' \subseteq Nat /\ nextAddress' \in Nat
    BY <2>0, <2>1
  <2>2. version' \in Nat /\ stubs' \subseteq Stubs /\ batch' \subseteq Stubs
    BY <1>0, <1>1 DEF ProxyTyped
  <2> QED
    BY <1>4, <2>2, <2>3 DEF ProxyTyped
<1>6. CurrentStubs'
  BY <1>0, <1>1 DEF CurrentStubs
<1>7. CallsExcludeUpdates'
  BY <1>0, <1>1, <1>2, <1>3 DEF CallsExcludeUpdates, CallIsSound
<1>8. /\ Results(c)' = {r} /\ \A d \in Calls \ {c} : Results(d)' = Results(d)
      /\ \A d \in Calls : Freed(d)' = Freed(d)
  BY <1>1, <1>2 DEF Results, Freed
<1>9. ASSUME NEW s \in Stubs, Old(s) PROVE Old(s)' /\ ~SameObject(s, r) /\ ~SameObject(r, s)
  <2>1. s.gen \in Nat /\ s.address \in Nat
    BY DEF Stubs
  <2> QED
    BY <1>0, <1>1, <1>3, <1>9, <2>1 DEF Old, SameObject
<1>10. /\ stubs \subseteq Stubs /\ batch \subseteq Stubs
       /\ \A d \in Calls : Freed(d) \subseteq Stubs /\ Results(d) \subseteq Stubs
  BY <1>0 DEF ProxyTyped, Freed, Results
<1>11. AddressesAreOld'
  <2>1. Old(r)'
    BY <1>0, <1>1, <1>3 DEF Old
  <2> QED
    BY <1>0, <1>1, <1>8, <1>9, <1>10, <2>1 DEF AddressesAreOld
<1>12. OneHolder'
  <2>1. /\ \A s \in stubs \cup batch : Old(s)
        /\ \A d \in Calls : \A s \in Results(d) \cup Freed(d) : Old(s)
    BY <1>0 DEF AddressesAreOld
  <2>2. ASSUME NEW d \in Calls, NEW q \in Results(d)'
        PROVE  /\ \A s \in stubs \cup batch : ~SameObject(s, q)
               /\ \A e \in Calls : \A u \in Freed(e) : ~SameObject(u, q)
               /\ \A e \in Calls \ {d} : \A u \in Results(e)' : ~SameObject(u, q)
    <3>1. CASE d = c
      BY <1>8, <1>9, <1>10, <2>1, <2>2, <3>1
    <3>2. CASE d # c
      <4>1. q \in Results(d)
        BY <1>8, <2>2, <3>2
      <4> QED
        BY <1>0, <1>8, <1>9, <1>10, <2>1, <3>2, <4>1 DEF OneHolder
    <3> QED
      BY <3>1, <3>2
  <2> QED
    BY <1>0, <1>1, <1>8, <2>2 DEF OneHolder
<1> QED
  BY <1>5, <1>6, <1>7, <1>11, <1>12 DEF StubInv

\* Node collects a stub.
LEMMA CollectStubs ==
  ASSUME StubInv, NEW s \in stubs, Collect(s)
  PROVE  StubInv'
<1> USE DEF lifecycle, updates
<1>0. ProxyTyped /\ CurrentStubs /\ CallsExcludeUpdates /\ AddressesAreOld /\ OneHolder
  BY DEF StubInv
<1>1. /\ stubs' = stubs \ {s} /\ batch' \subseteq batch \cup {s}
      /\ UNCHANGED <<version, heap, nextAddress, work, jobs, process, calls>>
  BY DEF Collect
<1>2. ProxyTyped' /\ CurrentStubs'
  BY <1>0, <1>1 DEF ProxyTyped, CurrentStubs
<1>3. CallsExcludeUpdates'
  BY <1>0, <1>1 DEF CallsExcludeUpdates, CallIsSound
<1>4. AddressesAreOld'
  BY <1>0, <1>1 DEF AddressesAreOld, Old, Results, Freed
<1>5. \A d \in Calls : Results(d)' = Results(d) /\ Freed(d)' = Freed(d)
  BY <1>1 DEF Results, Freed
<1>6. OneHolder'
  <2>1. \A u \in stubs', v \in batch' : ~SameObject(u, v)
    BY <1>0, <1>1 DEF OneHolder
  <2>2. \A d \in Calls : \A r \in Results(d) : \A u \in stubs' \cup batch' : ~SameObject(u, r)
    BY <1>0, <1>1 DEF OneHolder
  <2> QED
    BY <1>0, <1>1, <1>5, <2>1, <2>2 DEF OneHolder
<1> QED
  BY <1>2, <1>3, <1>4, <1>6 DEF StubInv

\* The batch of collected stubs is sent, or dropped.
LEMMA FinalizeStubs ==
  ASSUME StubInv, LifeInv, NEW c \in Calls, FinalizeBatch(c)
  PROVE  StubInv'
<1> USE DEF updates
<1>0. ProxyTyped /\ CurrentStubs /\ CallsExcludeUpdates /\ AddressesAreOld /\ OneHolder
  BY DEF StubInv
<1>1. /\ batch' = {} /\ calls[c] = NoCall
      /\ UNCHANGED <<version, stubs, heap, nextAddress, jobs, process>>
  BY DEF FinalizeBatch
<1>2. CASE UNCHANGED <<calls, work>>
  <2>1. ProxyTyped' /\ CurrentStubs'
    BY <1>0, <1>1, <1>2 DEF ProxyTyped, CurrentStubs
  <2>2. CallsExcludeUpdates' /\ AddressesAreOld'
    BY <1>0, <1>1, <1>2
    DEF CallsExcludeUpdates, CallIsSound, AddressesAreOld, Old, Results, Freed
  <2>3. OneHolder'
    BY <1>0, <1>1, <1>2 DEF OneHolder, Results, Freed
  <2> QED
    BY <2>1, <2>2, <2>3 DEF StubInv
<1>3. CASE ~UNCHANGED <<calls, work>>
  <2> PICK freed : freed = Freeable
    OBVIOUS
  <2>1. /\ freed # {} /\ freed \subseteq batch
        /\ \A s \in freed : s \in batch /\ s.version = version
    BY <1>3 DEF FinalizeBatch, Freeable
  <2>2. jobs = <<>> /\ \A s \in freed : s.gen = process.gen
    BY <1>0, <2>1 DEF CurrentStubs
  <2>3. /\ work' = [work EXCEPT ![c] = [op |-> "free", targets |-> freed]]
        /\ calls' = [calls EXCEPT ![c] = [stage |-> "sent", requested |-> issued,
                                          gen |-> process.gen]]
    BY <1>3, <2>2 DEF FinalizeBatch
  <2>4. /\ work'[c].op = "free" /\ work'[c].targets = freed
        /\ calls'[c].stage = "sent" /\ calls'[c].gen = process.gen
        /\ \A d \in Calls \ {c} : calls'[d] = calls[d] /\ work'[d] = work[d]
    BY <1>0, <2>3 DEF ProxyTyped, LifeInv, LifecycleTypeOK
  <2>5. ProxyTyped'
    <3>1. freed \in SUBSET Stubs /\ "free" \in Ops
      BY <1>0, <2>1 DEF ProxyTyped, Ops
    <3>2. [op |-> "free", targets |-> freed] \in [op : Ops, targets : SUBSET Stubs]
      BY <3>1
    <3>3. work' \in [Calls -> [op : Ops, targets : SUBSET Stubs]]
      BY <1>0, <2>3, <3>2 DEF ProxyTyped
    <3> QED
      BY <1>0, <1>1, <3>3 DEF ProxyTyped
  <2>6. CurrentStubs'
    BY <1>0, <1>1 DEF CurrentStubs
  <2>7. CallsExcludeUpdates'
    BY <1>0, <1>1, <2>2, <2>4 DEF CallsExcludeUpdates, CallIsSound
  <2>8. /\ Results(c)' = {} /\ Freed(c)' = freed
        /\ \A d \in Calls \ {c} : Results(d)' = Results(d) /\ Freed(d)' = Freed(d)
    BY <2>4 DEF Results, Freed
  <2>9. AddressesAreOld'
    BY <1>0, <1>1, <2>1, <2>8 DEF AddressesAreOld, Old
  <2>10. OneHolder'
    <3>1. \A s \in stubs, u \in freed : ~SameObject(s, u)
      BY <1>0, <2>1 DEF OneHolder
    <3>2. ASSUME NEW d \in Calls, NEW r \in Results(d)'
          PROVE  /\ \A s \in stubs : ~SameObject(s, r)
                 /\ \A e \in Calls : \A u \in Freed(e)' : ~SameObject(u, r)
                 /\ \A e \in Calls \ {d} : \A u \in Results(e)' : ~SameObject(u, r)
      <4>1. d # c /\ r \in Results(d)
        BY <2>8, <3>2
      <4>2. /\ \A s \in stubs \cup batch : ~SameObject(s, r)
            /\ \A e \in Calls : \A u \in Freed(e) : ~SameObject(u, r)
            /\ \A e \in Calls \ {d} : \A u \in Results(e) : ~SameObject(u, r)
        BY <1>0, <4>1 DEF OneHolder
      <4> QED
        BY <2>1, <2>8, <4>2
    <3> QED
      BY <1>0, <1>1, <2>8, <3>1, <3>2 DEF OneHolder
  <2> QED
    BY <2>5, <2>6, <2>7, <2>9, <2>10 DEF StubInv
<1> QED
  BY <1>2, <1>3

\* The server frees what no stub holds any more.
LEMMA FreeStubs ==
  ASSUME StubInv, LifeInv, NEW c \in Calls, Free(c)
  PROVE  StubInv'
<1> USE DEF updates
<1>0. ProxyTyped /\ CurrentStubs /\ CallsExcludeUpdates /\ AddressesAreOld /\ OneHolder
  BY DEF StubInv
<1>1. /\ UNCHANGED <<version, stubs, batch, nextAddress, jobs, process>>
      /\ heap' = heap \ {s.address : s \in work[c].targets}
      /\ Freed(c) = work[c].targets /\ calls[c].gen = process.gen
  BY DEF Free, IsServed, Freed
<1>2. /\ \A d \in Calls \ {c} : calls'[d] = calls[d] /\ work'[d] = work[d]
      /\ work' \in [Calls -> [op : Ops, targets : SUBSET Stubs]]
      /\ CallIsSound(c)' /\ Results(c)' = {} /\ Freed(c)' = {}
  BY DoneFacts DEF Free
<1>3. \A s \in Freed(c) : s.gen = process.gen
  BY <1>0, <1>1 DEF CallsExcludeUpdates, CallIsSound, Free
<1>4. \A u : u.gen = process.gen /\ u.address \in heap /\ u.address \notin heap'
               => \E s \in Freed(c) : SameObject(s, u) /\ SameObject(u, s)
  BY <1>1, <1>3 DEF SameObject
<1>5. ProxyTyped'
  <2>1. heap' \subseteq Nat
    BY <1>0, <1>1 DEF ProxyTyped
  <2> QED
    BY <1>0, <1>1, <1>2, <2>1 DEF ProxyTyped
<1>6. CurrentStubs'
  <2>1. \A s \in stubs : \A u \in Freed(c) : ~SameObject(s, u)
    BY <1>0 DEF OneHolder
  <2> QED
    BY <1>0, <1>1, <1>4, <2>1 DEF CurrentStubs
<1>7. CallsExcludeUpdates'
  <2> SUFFICES ASSUME NEW d \in Calls, d # c PROVE CallIsSound(d)'
    BY <1>2 DEF CallsExcludeUpdates
  <2>1. CallIsSound(d) /\ calls'[d] = calls[d] /\ work'[d] = work[d]
    BY <1>0, <1>2 DEF CallsExcludeUpdates
  <2>2. ASSUME calls[d].stage = "answered", NEW s \in work[d].targets PROVE s.address \in heap'
    <3>1. s \in Results(d) /\ s.gen = process.gen /\ s.address \in heap
      BY <2>1, <2>2 DEF Results, CallIsSound
    <3>2. \A u \in Freed(c) : ~SameObject(u, s)
      BY <1>0, <3>1 DEF OneHolder
    <3> QED
      BY <1>4, <3>1, <3>2
  <2> QED
    BY <1>1, <2>1, <2>2 DEF CallIsSound
<1>8. \A d \in Calls : Results(d)' \subseteq Results(d) /\ Freed(d)' \subseteq Freed(d)
  BY <1>2 DEF Results, Freed
<1>9. AddressesAreOld'
  BY <1>0, <1>1, <1>8 DEF AddressesAreOld, Old
<1>10. OneHolder'
  BY <1>0, <1>1, <1>8 DEF OneHolder
<1> QED
  BY <1>5, <1>6, <1>7, <1>9, <1>10 DEF StubInv

\* A call of a stub is made when no update is under way.
LEMMA CallStubStubs ==
  ASSUME StubInv, LifeInv, NEW c \in Calls, NEW s \in stubs, CallStub(c, s)
  PROVE  StubInv'
<1> USE DEF updates
<1>0. /\ ProxyTyped /\ CurrentStubs /\ s \in Stubs
      /\ calls \in [Calls -> [stage : CallStages, requested : Nat, gen : Nat]]
  BY DEF StubInv, ProxyTyped, LifeInv, LifecycleTypeOK
<1>1. jobs = <<>> /\ s.gen = process.gen
  BY <1>0 DEF CallStub, Safe, CurrentStubs
<1>2. /\ UNCHANGED <<version, stubs, batch, heap, nextAddress, jobs, process>>
      /\ work' = [work EXCEPT ![c] = [op |-> "call", targets |-> {s}]]
      /\ calls' = [calls EXCEPT ![c] = [calls[c] EXCEPT !.stage = "args"]]
  BY DEF CallStub, SetStage
<1>3. work' \in [Calls -> [op : Ops, targets : SUBSET Stubs]]
  <2>1. {s} \in SUBSET Stubs /\ "call" \in Ops
    BY <1>0 DEF Ops
  <2>2. [op |-> "call", targets |-> {s}] \in [op : Ops, targets : SUBSET Stubs]
    BY <2>1
  <2> QED
    BY <1>0, <1>2, <2>2 DEF ProxyTyped
<1>4. /\ work'[c].op = "call" /\ work'[c].targets = {s} /\ calls'[c].stage = "args"
      /\ \A d \in Calls \ {c} : calls'[d] = calls[d] /\ work'[d] = work[d]
  BY <1>0, <1>2 DEF ProxyTyped
<1>5. CallIsSound(c)' /\ Results(c)' = {} /\ Freed(c)' = {}
  BY <1>1, <1>2, <1>4 DEF CallIsSound, Results, Freed
<1> QED
  BY <1>2, <1>3, <1>4, <1>5, CallStubs

\* Calls that neither hold nor create stubs at this step.
LEMMA OtherCallStubs ==
  ASSUME StubInv, LifeInv, NEW c \in Calls,
         \/ Fetch(c) \/ GetBinding(c) \/ BindNothing(c)
         \/ Dispatch(c) \/ DoAwaitInit(c) \/ DoSend(c) \/ DoReturn(c)
  PROVE  StubInv'
<1> USE DEF updates, proxy
<1>0. /\ ProxyTyped /\ CallIsSound(c) /\ work \in [Calls -> [op : Ops, targets : SUBSET Stubs]]
      /\ calls \in [Calls -> [stage : CallStages, requested : Nat, gen : Nat]]
      /\ DOMAIN calls = Calls
  BY DEF StubInv, ProxyTyped, CallsExcludeUpdates, LifeInv, LifecycleTypeOK
<1>1. UNCHANGED <<version, stubs, batch, heap, nextAddress, jobs, process>>
  BY DEF Fetch, GetBinding, BindNothing, Dispatch, DoAwaitInit, DoSend, DoReturn, Call, AwaitInit, Send,
         Return
<1>2. CASE Done(c)
  BY <1>1, <1>2, DoneFacts, CallStubs
<1>3. CASE Fetch(c) \/ GetBinding(c)
  <2>1. /\ calls[c] = NoCall
        /\ calls' = [calls EXCEPT ![c] = [stage |-> "init", requested |-> issued, gen |-> 0]]
        /\ work' \in {work, [work EXCEPT ![c].op = "binding"]}
    BY <1>3 DEF Fetch, GetBinding, Call
  <2>2. /\ calls'[c].stage = "init" /\ calls[c].stage = "idle"
        /\ work'[c].op \in {work[c].op, "binding"} /\ work'[c].targets = work[c].targets
        /\ \A d \in Calls \ {c} : calls'[d] = calls[d] /\ work'[d] = work[d]
    BY <1>0, <2>1 DEF NoCall
  <2>3. work' \in [Calls -> [op : Ops, targets : SUBSET Stubs]]
    BY <1>0, <2>1 DEF Ops
  <2>4. CallIsSound(c)' /\ Results(c)' = {} /\ Freed(c)' \subseteq Freed(c)
    BY <1>0, <1>1, <2>2 DEF CallIsSound, Results, Freed
  <2> QED
    BY <1>1, <2>2, <2>3, <2>4, CallStubs
<1>4. CASE /\ work' = work /\ calls'[c].stage \in {"woken", "drain", "sent"}
           /\ calls[c].stage \in {"init", "woken"}
           /\ work[c].op = "binding" /\ calls'[c].stage = "woken" => jobs = <<>>
           /\ \A d \in Calls \ {c} : calls'[d] = calls[d]
  <2>1. CallIsSound(c)' /\ Results(c)' = {} /\ Freed(c)' = Freed(c)
    BY <1>0, <1>1, <1>4 DEF CallIsSound, Results, Freed
  <2> QED
    BY <1>0, <1>1, <1>4, <2>1, CallStubs
<1>5. CASE DoAwaitInit(c)
  <2>1. CASE init = "rejected"
    <3>1. calls' = [calls EXCEPT ![c] = NoCall] /\ calls'[c] = NoCall
      BY <1>0, <1>5, <2>1 DEF DoAwaitInit, AwaitInit
    <3> QED
      BY <1>2, <1>5, <3>1 DEF DoAwaitInit, Done
  <2>2. CASE init # "rejected"
    <3> PICK s : s = IF jobs = <<>> THEN "woken" ELSE "drain"
      OBVIOUS
    <3>1. calls[c].stage = "init" /\ calls' = [calls EXCEPT ![c] = [calls[c] EXCEPT !.stage = s]]
      BY <1>5, <2>2 DEF DoAwaitInit, AwaitInit
    <3>2. calls'[c].stage = s /\ \A d \in Calls \ {c} : calls'[d] = calls[d]
      BY <1>0, <3>1
    <3>3. calls'[c] # NoCall
      BY <3>2 DEF NoCall
    <3>4. work' = work
      BY <1>5, <3>3 DEF DoAwaitInit
    <3> QED
      BY <1>4, <3>1, <3>2, <3>4
  <2> QED
    BY <2>1, <2>2
<1>6. CASE DoSend(c)
  <2>1. CASE ~(~aborted /\ Reaches)
    <3>1. calls' = [calls EXCEPT ![c] = NoCall] /\ calls'[c] = NoCall
      BY <1>0, <1>6, <2>1 DEF DoSend, Send
    <3> QED
      BY <1>2, <1>6, <3>1 DEF DoSend, Done
  <2>2. CASE ~aborted /\ Reaches
    <3>1. /\ calls[c].stage = "woken" /\ work[c].op # "binding"
          /\ calls' = [calls EXCEPT ![c] = [calls[c] EXCEPT !.stage = "sent", !.gen = process.gen]]
      BY <1>6, <2>2 DEF DoSend, Send
    <3>2. calls'[c].stage = "sent" /\ \A d \in Calls \ {c} : calls'[d] = calls[d]
      BY <1>0, <3>1
    <3>3. calls'[c] # NoCall
      BY <3>2 DEF NoCall
    <3>4. work' = work
      BY <1>6, <3>3 DEF DoSend
    <3> QED
      BY <1>4, <3>1, <3>2, <3>4
  <2> QED
    BY <2>1, <2>2
<1>7. CASE Dispatch(c) /\ ~aborted
  <2>1. /\ calls[c].stage = "args" /\ work' = work
        /\ calls' = [calls EXCEPT ![c] = [stage |-> "init", requested |-> issued, gen |-> 0]]
    BY <1>7 DEF Dispatch
  <2>2. calls'[c].stage = "init" /\ \A d \in Calls \ {c} : calls'[d] = calls[d]
    BY <1>0, <2>1
  <2>3. CallIsSound(c)' /\ Results(c)' = {} /\ Freed(c)' = Freed(c)
    BY <1>0, <1>1, <2>1, <2>2 DEF CallIsSound, Results, Freed
  <2> QED
    BY <1>0, <1>1, <2>1, <2>2, <2>3, CallStubs
<1> QED
  BY <1>2, <1>3, <1>5, <1>6, <1>7 DEF BindNothing, Dispatch, DoReturn, Return, Done

\* Stubs stay sound if setOptions is not called while calls are under way.
LEMMA StubStep ==
  ASSUME ~Overlapping, StubInv, LifeInv, [Next]_vars
  PROVE  StubInv'
<1> USE DEF updates, lifecycle, proxy
<1>0. version \in Nat /\ process \in [gen : Nat, options : Nat,
                                      state : {"starting", "listening", "exited"}]
  BY DEF StubInv, ProxyTyped, LifeInv, LifecycleTypeOK
<1>1. CASE DoSetOptions
  BY <1>1, PoisonStubs DEF DoSetOptions, SetOptions, PoisonProxies
<1>2. CASE DoDispose
  BY <1>2, PoisonStubs DEF DoDispose, Dispose, PoisonProxies
<1>3. CASE DoUpdate
  BY <1>3, UpdateStubs
<1>4. CASE RuntimeEvent \/ DoDisposeStep
  <2>1. process'.gen = process.gen
    BY <1>0, <1>4
    DEF RuntimeEvent, Listen, Exit, DoDisposeStep, DisposeStep, DisposeReady, DisposeRuntime,
        Disposed
  <2>2. version' \in {version, version + 1}
    BY <1>4 DEF RuntimeEvent, DoDisposeStep, PoisonProxies
  <2>3. jobs' = jobs /\ calls' = calls
    BY <1>4
    DEF RuntimeEvent, Listen, Exit, DoDisposeStep, DisposeStep, DisposeReady, DisposeRuntime,
        Disposed
  <2>4. UNCHANGED <<stubs, batch, heap, nextAddress, work>>
    BY <1>4 DEF RuntimeEvent, DoDisposeStep
  <2> QED
    BY <2>1, <2>2, <2>3, <2>4, PoisonStubs
<1>5. CASE UNCHANGED vars
  <2>1. UNCHANGED <<lifecycle, proxy>>
    BY <1>5 DEF vars
  <2>2. UNCHANGED <<updates, process, calls>> /\ UNCHANGED proxy
    BY <2>1
  <2>3. jobs' = jobs /\ version' \in {version, version + 1}
    BY <2>2
  <2> QED
    BY <2>2, <2>3, PoisonStubs
<1> QED
  BY <1>1, <1>2, <1>3, <1>4, <1>5, OtherCallStubs, CallStubStubs, SyncCallStubs, BindStubs,
     ServeStubs, ReviveStubs, FreeStubs, FinalizeStubs, CollectStubs
  DEF Next, Continue

LEMMA InitStubs == Init => StubInv
<1> SUFFICES ASSUME Init PROVE StubInv
  OBVIOUS
<1>1. /\ stubs = {} /\ batch = {} /\ heap = {} /\ version = 0 /\ nextAddress = 1
      /\ work = [c \in Calls |-> NoWork] /\ calls = [c \in Calls |-> NoCall]
  BY DEF Init, LifecycleInit
<1>2. \A c \in Calls : calls[c].stage = "idle" /\ work[c].op = "fetch"
  BY <1>1 DEF NoCall, NoWork
<1>3. ProxyTyped
  <2>1. NoWork \in [op : Ops, targets : SUBSET Stubs]
    BY DEF NoWork, Ops
  <2>2. work \in [Calls -> [op : Ops, targets : SUBSET Stubs]]
    BY <1>1, <2>1
  <2> QED
    BY <1>1, <2>2 DEF ProxyTyped
<1> QED
  BY <1>1, <1>2, <1>3
  DEF StubInv, CurrentStubs, CallsExcludeUpdates, CallIsSound, AddressesAreOld, OneHolder,
      Results, Freed

(* If setOptions is not called while stub calls are under way, a stub that is
   not poisoned names its own object on the heap of the process that runs,
   whatever restarts, disposals and collections come in between. *)
THEOREM StubsAreSound == ~Overlapping => (Spec => []StubsNameTheirObjects)
<1> SUFFICES ASSUME ~Overlapping PROVE Spec => []StubsNameTheirObjects
  OBVIOUS
<1>1. StubInv => StubsNameTheirObjects
  BY DEF StubInv, CurrentStubs, StubsNameTheirObjects
<1>2. StubInv /\ LifeInv /\ [Next]_vars => StubInv'
  BY StubStep
<1> QED
  BY <1>1, <1>2, InitStubs, LifeAlways, PTL DEF Spec

=============================================================================
