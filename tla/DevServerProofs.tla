-------------------------- MODULE DevServerProofs ---------------------------
(***************************************************************************)
(* For any number of bundles, requests and retries: a runtime is given     *)
(* bundles in order, and a bundle that failed to load is never played; if  *)
(* messages arrive, the ProxyWorker follows the controller, and if no      *)
(* runtime awaits anything after it has compared bundle ids, the           *)
(* ProxyWorker never plays a bundle that was superseded.  Requests are     *)
(* kept at one place also when the ProxyWorker is started anew.            *)
(***************************************************************************)
EXTENDS DevServer, ProxyWorkerProofs

-----------------------------------------------------------------------------
(* Jobs and messages. *)

DevTyped ==
  /\ currentBundleId \in 0..MaxBundles
  /\ jobs \in [Runtimes -> Seq(Job)]
  /\ stage \in [Runtimes -> Stages]
  /\ installed \in [Runtimes -> 0..MaxBundles]
  /\ messages \in Seq(Message)
  /\ ready \in BOOLEAN
  /\ torndown \in {"no", "begun", "complete"}
  /\ starts \in 0..MaxStarts
  /\ lastSent \in Message
  /\ failed \subseteq ProxyData
  /\ announced \in 0..MaxBundles

\* The bundles that a runtime has yet to reload, and those on their way to the
\* ProxyWorker.
PendingIn(s) == {b \in 1..MaxBundles : \E i \in 1..Len(s) : s[i] = Reload(b)}
PlaysIn(s) == {b \in 0..MaxBundles :
                 \E i \in 1..Len(s) : s[i].type = "play" /\ s[i].bundle = b}

Bundles == 1..currentBundleId

\* Reloads are queued in order.
JobsSorted(s) ==
  /\ \A i \in 1..Len(s) : s[i].op = "reload" => s[i].id \in 1..MaxBundles
  /\ \A i, j \in 1..Len(s) :
       i < j /\ s[i].op = "reload" /\ s[j].op = "reload" => s[i].id < s[j].id

\* Each bundle is reloaded by one runtime, in order.
JobsInv ==
  \A rt \in Runtimes :
    /\ JobsSorted(jobs[rt])
    /\ PendingIn(jobs[rt]) \subseteq Bundles
    /\ \A o \in Runtimes \ {rt} : PendingIn(jobs[rt]) \cap PendingIn(jobs[o]) = {}
    /\ stage[rt] # "waiting" => Running(rt) /\ Current(rt).op = "reload"
    /\ \A b \in PendingIn(jobs[rt]) : installed[rt] <= b
    /\ installed[rt] <= currentBundleId

\* A bundle is pending, or failed, or played, never two of these.
FateInv ==
  /\ failed \subseteq Bundles /\ PlaysIn(messages) \subseteq Bundles
  /\ proxyData # Undefined => proxyData \in Bundles
  /\ \A rt \in Runtimes :
       /\ PendingIn(jobs[rt]) \cap failed = {}
       /\ PendingIn(jobs[rt]) \cap PlaysIn(messages) = {}
       /\ proxyData \notin PendingIn(jobs[rt])
  /\ failed \cap PlaysIn(messages) = {}
  /\ proxyData \notin failed

PipelineInv == DevTyped /\ ProxyInv /\ JobsInv /\ FateInv

-----------------------------------------------------------------------------
(* Sequences: what joins a queue at its end, and what leaves it at its head. *)

\* An appended element is the last one.
LEMMA AppendFacts ==
  ASSUME NEW S, NEW s \in Seq(S), NEW e \in S
  PROVE  /\ Append(s, e) \in Seq(S)
         /\ Len(Append(s, e)) = Len(s) + 1
         /\ \A i \in 1..Len(s) : Append(s, e)[i] = s[i]
         /\ Append(s, e)[Len(s) + 1] = e
         /\ Append(s, e) # <<>>
  OBVIOUS

\* The tail is the sequence without its first element.
LEMMA TailFacts ==
  ASSUME NEW S, NEW s \in Seq(S), s # <<>>
  PROVE  /\ Tail(s) \in Seq(S)
         /\ Len(s) \in Nat \ {0}
         /\ Len(Tail(s)) = Len(s) - 1
         /\ \A i \in 1..(Len(s) - 1) : Tail(s)[i] = s[i + 1]
         /\ Head(s) = s[1]
         /\ Head(s) \in S
  OBVIOUS

\* What joins at the end does not change the head.
LEMMA HeadStays ==
  ASSUME NEW S, NEW s \in Seq(S), NEW e \in S, s # <<>>
  PROVE  Append(s, e) # <<>> /\ Head(Append(s, e)) = Head(s)
<1>1. Len(s) \in Nat \ {0} /\ Append(s, e) \in Seq(S) /\ Append(s, e)[1] = s[1]
  OBVIOUS
<1>2. Append(s, e) # <<>>
  OBVIOUS
<1>3. QED BY <1>1, <1>2

\* onBundleComplete adds a reload to those that are pending; a teardown and
\* DevEnv's close add none.
LEMMA PendingAppend ==
  ASSUME NEW s \in Seq(Job), NEW e \in Job, JobsSorted(s),
         e.op = "reload" => e.id \in 1..MaxBundles,
         e.op = "reload" => \A b \in PendingIn(s) : b < e.id
  PROVE  /\ JobsSorted(Append(s, e))
         /\ \A b \in PendingIn(Append(s, e)) : b \in PendingIn(s) \/ e = Reload(b)
<1> DEFINE t == Append(s, e)
<1>1. /\ Len(s) \in Nat /\ Len(t) = Len(s) + 1
      /\ \A i \in 1..Len(s) : t[i] = s[i] /\ s[i] \in Job
      /\ t[Len(s) + 1] = e
  BY AppendFacts
<1> HIDE DEF t
<1>2. \A i \in 1..Len(t) : i \in 1..Len(s) \/ (i = Len(s) + 1 /\ t[i] = e)
  BY <1>1
<1>3. ASSUME NEW b \in PendingIn(t) PROVE b \in PendingIn(s) \/ e = Reload(b)
  BY <1>1, <1>2, <1>3 DEF PendingIn
<1>4. ASSUME NEW i \in 1..Len(s), s[i].op = "reload"
      PROVE  s[i].id \in PendingIn(s)
  BY <1>1, <1>4 DEF JobsSorted, PendingIn, Reload, Job
<1>5. JobsSorted(t)
  <2>1. ASSUME NEW i \in 1..Len(t), t[i].op = "reload" PROVE t[i].id \in 1..MaxBundles
    BY <1>1, <1>2, <2>1 DEF JobsSorted
  <2>2. ASSUME NEW i \in 1..Len(t), NEW j \in 1..Len(t), i < j,
               t[i].op = "reload", t[j].op = "reload"
        PROVE  t[i].id < t[j].id
    <3>1. i \in 1..Len(s)
      BY <1>1, <2>2
    <3>2. CASE j \in 1..Len(s)
      BY <1>1, <2>2, <3>1, <3>2 DEF JobsSorted
    <3>3. CASE j = Len(s) + 1
      <4>1. t[i] = s[i] /\ t[j] = e
        BY <1>1, <3>1, <3>3
      <4>2. QED BY <1>4, <2>2, <3>1, <4>1
    <3>4. QED BY <1>2, <3>2, <3>3
  <2>3. QED BY <2>1, <2>2 DEF JobsSorted
<1>6. QED BY <1>3, <1>5 DEF t

\* A runtime's mutex hands over to a newer reload.
LEMMA PendingTail ==
  ASSUME NEW s \in Seq(Job), s # <<>>, JobsSorted(s)
  PROVE  /\ JobsSorted(Tail(s))
         /\ PendingIn(Tail(s)) \subseteq PendingIn(s)
         /\ Head(s).op = "reload" =>
              /\ Head(s) = Reload(Head(s).id)
              /\ Head(s).id \in PendingIn(s)
              /\ \A b \in PendingIn(s) : Head(s).id <= b
              /\ Head(s).id \notin PendingIn(Tail(s))
<1> DEFINE t == Tail(s)
<1>1. /\ Len(s) \in Nat \ {0} /\ Len(t) = Len(s) - 1
      /\ \A i \in 1..Len(t) : i + 1 \in 1..Len(s) /\ t[i] = s[i + 1]
      /\ Head(s) = s[1] /\ s[1] \in Job
  BY TailFacts
<1> HIDE DEF t
<1>2. JobsSorted(t)
  <2>1. ASSUME NEW i \in 1..Len(t), t[i].op = "reload" PROVE t[i].id \in 1..MaxBundles
    BY <1>1, <2>1 DEF JobsSorted
  <2>2. ASSUME NEW i \in 1..Len(t), NEW j \in 1..Len(t), i < j,
               t[i].op = "reload", t[j].op = "reload"
        PROVE  t[i].id < t[j].id
    <3>1. i + 1 \in 1..Len(s) /\ j + 1 \in 1..Len(s) /\ i + 1 < j + 1
      BY <1>1, <2>2
    <3>2. QED BY <1>1, <2>2, <3>1 DEF JobsSorted
  <2>3. QED BY <2>1, <2>2 DEF JobsSorted
<1>3. PendingIn(t) \subseteq PendingIn(s)
  BY <1>1 DEF PendingIn
<1>4. ASSUME s[1].op = "reload"
      PROVE  /\ s[1] = Reload(s[1].id) /\ s[1].id \in PendingIn(s)
             /\ \A b \in PendingIn(s) : s[1].id <= b
             /\ s[1].id \notin PendingIn(t)
  <2>1. s[1].id \in 1..MaxBundles /\ s[1] = Reload(s[1].id) /\ 1 \in 1..Len(s)
    BY <1>1, <1>4 DEF JobsSorted, Reload, Job
  <2>2. s[1].id \in PendingIn(s)
    BY <2>1 DEF PendingIn
  <2>3. ASSUME NEW i \in 2..Len(s), NEW b \in 1..MaxBundles, s[i] = Reload(b)
        PROVE  s[1].id < b
    <3>1. i \in 1..Len(s) /\ 1 < i
      BY <1>1
    <3>2. s[i].op = "reload" /\ s[i].id = b
      BY <2>3 DEF Reload
    <3>3. QED BY <1>4, <2>1, <3>1, <3>2 DEF JobsSorted
  <2>4. ASSUME NEW b \in PendingIn(s) PROVE s[1].id <= b
    <3>1. PICK i \in 1..Len(s) : s[i] = Reload(b)
      BY DEF PendingIn
    <3>2. b \in 1..MaxBundles
      BY DEF PendingIn
    <3>3. CASE i = 1
      BY <2>1, <3>1, <3>2, <3>3 DEF Reload
    <3>4. CASE i \in 2..Len(s)
      BY <2>1, <2>3, <3>1, <3>2, <3>4
    <3>5. QED BY <1>1, <3>3, <3>4
  <2>5. ASSUME s[1].id \in PendingIn(t) PROVE FALSE
    <3>1. PICK i \in 1..Len(t) : t[i] = Reload(s[1].id)
      BY <2>5 DEF PendingIn
    <3>2. i + 1 \in 2..Len(s) /\ s[i + 1] = Reload(s[1].id)
      BY <1>1, <3>1
    <3>3. s[1].id < s[1].id
      BY <2>1, <2>3, <3>2
    <3>4. QED BY <2>1, <3>3
  <2>6. QED BY <2>1, <2>2, <2>4, <2>5
<1>5. QED BY <1>1, <1>2, <1>3, <1>4 DEF t

\* sendMessageToProxyWorker adds at most what the message plays.
LEMMA PlaysAppend ==
  ASSUME NEW s \in Seq(Message), NEW m \in Message
  PROVE  \A b \in PlaysIn(Append(s, m)) :
           b \in PlaysIn(s) \/ (m.type = "play" /\ m.bundle = b)
<1> DEFINE t == Append(s, m)
<1>1. /\ Len(s) \in Nat /\ Len(t) = Len(s) + 1
      /\ \A i \in 1..Len(s) : t[i] = s[i]
      /\ t[Len(s) + 1] = m
  BY AppendFacts
<1> HIDE DEF t
<1>2. \A i \in 1..Len(t) : i \in 1..Len(s) \/ (i = Len(s) + 1 /\ t[i] = m)
  BY <1>1
<1>3. ASSUME NEW b \in PlaysIn(t) PROVE b \in PlaysIn(s) \/ (m.type = "play" /\ m.bundle = b)
  <2>1. PICK i \in 1..Len(t) : t[i].type = "play" /\ t[i].bundle = b
    BY DEF PlaysIn
  <2>2. b \in 0..MaxBundles
    BY DEF PlaysIn
  <2>3. QED BY <1>1, <1>2, <2>1, <2>2 DEF PlaysIn
<1>4. QED BY <1>3 DEF t

\* A delivered message was waiting, and leaves the others waiting.
LEMMA PlaysTail ==
  ASSUME NEW s \in Seq(Message), s # <<>>
  PROVE  /\ PlaysIn(Tail(s)) \subseteq PlaysIn(s)
         /\ Head(s).type = "play" => Head(s).bundle \in PlaysIn(s)
<1> DEFINE t == Tail(s)
<1>1. /\ Len(s) \in Nat \ {0} /\ Len(t) = Len(s) - 1
      /\ \A i \in 1..Len(t) : i + 1 \in 1..Len(s) /\ t[i] = s[i + 1]
      /\ Head(s) = s[1] /\ s[1] \in Message
  BY TailFacts
<1> HIDE DEF t
<1>2. PlaysIn(t) \subseteq PlaysIn(s)
  BY <1>1 DEF PlaysIn
<1>3. 1 \in 1..Len(s) /\ s[1].bundle \in 0..MaxBundles
  BY <1>1 DEF Message
<1>4. QED BY <1>1, <1>2, <1>3 DEF PlaysIn, t

\* A message sent again asks for what it asked for before.
LEMMA PlaysResend ==
  ASSUME NEW s \in Seq(Message), s # <<>>
  PROVE  /\ Resend(Head(s), Tail(s)) \in Seq(Message)
         /\ PlaysIn(Resend(Head(s), Tail(s))) \subseteq PlaysIn(s)
<1>1. Tail(s) \in Seq(Message) /\ Head(s) \in Message
  BY TailFacts
<1>2. PICK h \in Message : h = Head(s)
  BY <1>1
<1>3. CASE torndown = "no" /\ h.retries > 0
  <2> DEFINE m == [type |-> h.type, bundle |-> h.bundle, retries |-> h.retries - 1]
  <2>1. h.type \in {"pause", "play"} /\ h.bundle \in 0..MaxBundles /\ h.retries \in 0..Retries
    BY DEF Message
  <2>2. h.retries - 1 \in 0..Retries
    BY <1>3, <2>1, DevServerAssumption
  <2>3. m \in Message
    BY <2>1, <2>2 DEF Message
  <2>4. [h EXCEPT !.retries = @ - 1] = m
    BY DEF Message
  <2>5. Resend(Head(s), Tail(s)) = Append(Tail(s), m)
    BY <1>2, <1>3, <2>4 DEF Resend
  <2>6. m.type = h.type /\ m.bundle = h.bundle
    OBVIOUS
  <2> HIDE DEF m
  <2>7. PlaysIn(Append(Tail(s), m)) \subseteq PlaysIn(s)
    BY <1>1, <1>2, <2>3, <2>6, PlaysAppend, PlaysTail
  <2>8. Append(Tail(s), m) \in Seq(Message)
    BY <1>1, <2>3
  <2>9. QED BY <2>5, <2>7, <2>8
<1>4. CASE ~(torndown = "no" /\ h.retries > 0)
  BY <1>1, <1>2, <1>4, PlaysTail DEF Resend
<1>5. QED BY <1>3, <1>4

-----------------------------------------------------------------------------
(* The parts of a step. *)

\* What Send does to the queue and to the bundles on their way.
LEMMA SendFacts ==
  ASSUME DevTyped, NEW m \in Message, Send(m)
  PROVE  /\ messages' \in Seq(Message) /\ lastSent' \in Message
         /\ \A b \in PlaysIn(messages') :
              b \in PlaysIn(messages) \/ (m.type = "play" /\ m.bundle = b)
<1>1. CASE torndown = "no"
  <2>1. messages' = Append(messages, m) /\ lastSent' = m /\ messages \in Seq(Message)
    BY <1>1 DEF Send, DevTyped
  <2>2. Append(messages, m) \in Seq(Message)
    BY <2>1
  <2>3. QED BY <2>1, <2>2, PlaysAppend
<1>2. CASE torndown # "no"
  BY <1>2 DEF Send, DevTyped
<1>3. QED BY <1>1, <1>2

\* The messages that are sent.
LEMMA SentMessages ==
  ASSUME NEW b \in 0..MaxBundles
  PROVE  /\ PauseFor(b) \in Message /\ PauseFor(b).type = "pause" /\ PauseFor(b).bundle = b
         /\ PlayFor(b) \in Message /\ PlayFor(b).type = "play" /\ PlayFor(b).bundle = b
<1>1. Retries \in 0..Retries
  BY DevServerAssumption
<1>2. QED BY <1>1 DEF PauseFor, PlayFor, Message

\* Bundles change their fate at most from pending to played (X) or failed (Y).
LEMMA FateMoves ==
  ASSUME DevTyped, FateInv, NEW X, NEW Y,
         X \cap Y = {}, X \subseteq Bundles, Y \subseteq Bundles,
         (X \cup Y) \cap failed = {}, (X \cup Y) \cap PlaysIn(messages) = {},
         proxyData \notin X \cup Y,
         Bundles \subseteq Bundles',
         failed' = failed \cup Y,
         PlaysIn(messages') \subseteq PlaysIn(messages) \cup X,
         proxyData' \in {proxyData, Undefined} \cup PlaysIn(messages),
         \A rt \in Runtimes : \A b \in PendingIn(jobs'[rt]) :
            \/ b \in PendingIn(jobs[rt]) /\ b \notin X \cup Y
            \/ b \notin Bundles
  PROVE  FateInv'
<1>1. Undefined \notin ProxyData /\ ProxyData = 1..MaxBundles
  BY ProxyAssumption, DevServerAssumption
<1>2. Bundles \subseteq ProxyData
  BY <1>1, DevServerAssumption DEF Bundles, DevTyped
<1>3. failed' \subseteq Bundles' /\ PlaysIn(messages') \subseteq Bundles'
  BY DEF FateInv
<1>4. proxyData' # Undefined => proxyData' \in Bundles /\ proxyData' \in Bundles'
  BY DEF FateInv
<1>5. failed' \cap PlaysIn(messages') = {} /\ proxyData' \notin failed'
  BY <1>1, <1>2 DEF FateInv
<1>6. ASSUME NEW rt \in Runtimes, NEW b \in PendingIn(jobs'[rt])
      PROVE  b \notin failed' /\ b \notin PlaysIn(messages') /\ b # proxyData'
  <2>1. b \in ProxyData
    BY <1>1, <1>6 DEF PendingIn
  <2>2. CASE b \in PendingIn(jobs[rt]) /\ b \notin X \cup Y
    BY <1>1, <2>1, <2>2 DEF FateInv
  <2>3. CASE b \notin Bundles
    BY <1>1, <1>4, <2>1, <2>3 DEF FateInv
  <2>4. QED BY <1>6, <2>2, <2>3
<1>7. QED BY <1>3, <1>4, <1>5, <1>6 DEF FateInv

\* Steps that leave jobs, their stages and what is installed alone.
LEMMA JobsIdle ==
  ASSUME JobsInv, UNCHANGED <<currentBundleId, jobs, stage, installed>>
  PROVE  JobsInv'
BY DEF JobsInv, JobsSorted, PendingIn, Bundles, Running, Current

\* The mutex of a runtime is handed over.
LEMMA UnlockStep ==
  ASSUME DevTyped, JobsInv, NEW rt \in Runtimes, Running(rt), Unlock(rt),
         UNCHANGED currentBundleId,
         installed' = installed \/ installed' = [installed EXCEPT ![rt] = 0]
  PROVE  /\ JobsInv'
         /\ jobs' \in [Runtimes -> Seq(Job)] /\ stage' \in [Runtimes -> Stages]
         /\ installed' \in [Runtimes -> 0..MaxBundles]
         /\ \A o \in Runtimes : PendingIn(jobs'[o]) \subseteq PendingIn(jobs[o])
         /\ Current(rt).op = "reload" =>
              /\ Current(rt).id \in PendingIn(jobs[rt])
              /\ \A o \in Runtimes : Current(rt).id \notin PendingIn(jobs'[o])
<1>1. jobs[rt] \in Seq(Job) /\ jobs[rt] # <<>> /\ JobsSorted(jobs[rt])
  BY DEF DevTyped, JobsInv, Running
<1>2. Tail(jobs[rt]) \in Seq(Job)
  BY <1>1
<1>3. /\ jobs' \in [Runtimes -> Seq(Job)] /\ stage' \in [Runtimes -> Stages]
      /\ jobs'[rt] = Tail(jobs[rt]) /\ stage'[rt] = "waiting"
      /\ \A o \in Runtimes \ {rt} : jobs'[o] = jobs[o] /\ stage'[o] = stage[o]
  BY <1>2 DEF Unlock, DevTyped, Stages
<1>4. /\ installed' \in [Runtimes -> 0..MaxBundles]
      /\ \A o \in Runtimes : installed'[o] <= installed[o]
  <2>1. 0 \in 0..MaxBundles /\ \A n \in 0..MaxBundles : n <= n /\ 0 <= n
    BY DevServerAssumption
  <2>2. CASE installed' = installed
    BY <2>1, <2>2 DEF DevTyped
  <2>3. CASE installed' = [installed EXCEPT ![rt] = 0]
    <3>1. \A o \in Runtimes : installed'[o] = installed[o] \/ installed'[o] = 0
      BY <2>3 DEF DevTyped
    <3>2. QED BY <2>1, <2>3, <3>1 DEF DevTyped
  <2>4. QED BY <2>2, <2>3
<1>5. /\ JobsSorted(Tail(jobs[rt]))
      /\ PendingIn(Tail(jobs[rt])) \subseteq PendingIn(jobs[rt])
      /\ Current(rt).op = "reload" =>
           /\ Current(rt).id \in PendingIn(jobs[rt])
           /\ Current(rt).id \notin PendingIn(Tail(jobs[rt]))
  BY <1>1, PendingTail DEF Current
<1>6. \A o \in Runtimes : PendingIn(jobs'[o]) \subseteq PendingIn(jobs[o])
  BY <1>3, <1>5
<1>7. Current(rt).op = "reload" =>
        \A o \in Runtimes : Current(rt).id \notin PendingIn(jobs'[o])
  BY <1>3, <1>5 DEF JobsInv
<1>8. JobsInv'
  <2>1. Bundles' = Bundles
    BY DEF Bundles
  <2> SUFFICES ASSUME NEW q \in Runtimes
               PROVE  /\ JobsSorted(jobs'[q])
                      /\ PendingIn(jobs'[q]) \subseteq Bundles
                      /\ \A o \in Runtimes \ {q} :
                           PendingIn(jobs'[q]) \cap PendingIn(jobs'[o]) = {}
                      /\ stage'[q] # "waiting" =>
                           jobs'[q] # <<>> /\ Head(jobs'[q]).op = "reload"
                      /\ \A b \in PendingIn(jobs'[q]) : installed'[q] <= b
                      /\ installed'[q] <= currentBundleId'
    BY <2>1 DEF JobsInv, Running, Current, JobsSorted, PendingIn
  <2>2. JobsSorted(jobs'[q])
    BY <1>3, <1>5 DEF JobsInv
  <2>3. /\ PendingIn(jobs'[q]) \subseteq Bundles
        /\ \A o \in Runtimes \ {q} : PendingIn(jobs'[q]) \cap PendingIn(jobs'[o]) = {}
    BY <1>6 DEF JobsInv
  <2>4. stage'[q] # "waiting" => jobs'[q] # <<>> /\ Head(jobs'[q]).op = "reload"
    BY <1>3 DEF JobsInv, Running, Current
  <2>5. ASSUME NEW b \in PendingIn(jobs'[q]) PROVE installed'[q] <= b
    <3>1. b \in PendingIn(jobs[q]) /\ b \in 1..MaxBundles
      BY <1>6 DEF PendingIn
    <3>2. installed[q] <= b
      BY <3>1 DEF JobsInv
    <3>3. installed'[q] \in 0..MaxBundles /\ installed[q] \in 0..MaxBundles
      BY <1>4 DEF DevTyped
    <3>4. QED BY <1>4, <3>1, <3>2, <3>3, DevServerAssumption
  <2>6. installed'[q] <= currentBundleId'
    <3>1. /\ installed'[q] \in 0..MaxBundles /\ installed[q] \in 0..MaxBundles
          /\ currentBundleId \in 0..MaxBundles
      BY <1>4 DEF DevTyped
    <3>2. installed[q] <= currentBundleId
      BY DEF JobsInv
    <3>3. QED BY <1>4, <3>1, <3>2, DevServerAssumption
  <2>7. QED BY <2>2, <2>3, <2>4, <2>5, <2>6
<1>9. QED BY <1>3, <1>4, <1>5, <1>6, <1>7, <1>8

\* A job joins each queue, or one of them, and with a new bundle at most one of
\* the jobs is its reload.
LEMMA JoinStep ==
  ASSUME DevTyped, JobsInv, NEW id \in 0..MaxBundles, NEW last \in Runtimes,
         currentBundleId' = id, id = currentBundleId \/ id = currentBundleId + 1,
         stage' = stage, installed' \in [Runtimes -> 0..MaxBundles],
         \A rt \in Runtimes : installed'[rt] = installed[rt] \/ installed'[rt] = 0,
         jobs' \in [Runtimes -> Seq(Job)],
         \A rt \in Runtimes :
           \/ jobs'[rt] = jobs[rt]
           \/ jobs'[rt] = Append(jobs[rt], Teardown)
           \/ jobs'[rt] = Append(jobs[rt], Close)
           \/ /\ id = currentBundleId + 1 /\ rt = last
              /\ jobs'[rt] = Append(jobs[rt], Reload(id))
  PROVE  /\ JobsInv'
         /\ \A rt \in Runtimes : \A b \in PendingIn(jobs'[rt]) :
              b \in PendingIn(jobs[rt]) \/ b \notin Bundles
<1> USE DevServerAssumption
<1>1. /\ currentBundleId \in 0..MaxBundles /\ Bundles \subseteq Bundles'
      /\ Bundles' = 1..id /\ Bundles = 1..currentBundleId
  BY DEF DevTyped, Bundles
<1>2. Teardown \in Job /\ Teardown.op # "reload" /\ Close \in Job /\ Close.op # "reload"
  BY DEF Teardown, Close, Job
<1>3. ASSUME id = currentBundleId + 1
      PROVE  /\ Reload(id) \in Job /\ Reload(id).id \in 1..MaxBundles
             /\ Reload(id).id = id
             /\ id \notin Bundles /\ id \in Bundles'
             /\ \A b \in Bundles : b < id
  <2>1. id \in 1..MaxBundles /\ id \notin Bundles /\ id \in Bundles'
    BY <1>1, <1>3
  <2>2. Reload(id) \in Job /\ Reload(id).id = id
    BY DEF Reload, Job
  <2>3. QED BY <1>1, <1>3, <2>1, <2>2
<1>4. ASSUME NEW rt \in Runtimes
      PROVE  /\ JobsSorted(jobs'[rt])
             /\ \A b \in PendingIn(jobs'[rt]) :
                  \/ b \in PendingIn(jobs[rt])
                  \/ b = id /\ id = currentBundleId + 1 /\ rt = last
             /\ jobs[rt] # <<>> => jobs'[rt] # <<>> /\ Head(jobs'[rt]) = Head(jobs[rt])
  <2>1. jobs[rt] \in Seq(Job) /\ JobsSorted(jobs[rt]) /\ PendingIn(jobs[rt]) \subseteq Bundles
    BY DEF DevTyped, JobsInv
  <2>2. \A e \in Job : jobs[rt] # <<>> =>
          Append(jobs[rt], e) # <<>> /\ Head(Append(jobs[rt], e)) = Head(jobs[rt])
    BY <2>1, HeadStays
  <2>3. CASE jobs'[rt] = jobs[rt]
    BY <2>1, <2>3
  <2>4. ASSUME NEW e \in {Teardown, Close}, jobs'[rt] = Append(jobs[rt], e)
        PROVE  JobsSorted(jobs'[rt]) /\ PendingIn(jobs'[rt]) \subseteq PendingIn(jobs[rt])
    <3>1. e \in Job /\ e.op # "reload" /\ \A b \in Nat : e # Reload(b)
      BY <1>2 DEF Reload
    <3>2. \A b \in PendingIn(jobs'[rt]) : b \in Nat
      BY DEF PendingIn
    <3>3. QED BY <2>1, <2>4, <3>1, <3>2, PendingAppend
  <2>5. CASE id = currentBundleId + 1 /\ rt = last /\ jobs'[rt] = Append(jobs[rt], Reload(id))
    <3>1. \A b \in PendingIn(jobs[rt]) : b < Reload(id).id
      BY <1>3, <2>1, <2>5
    <3>2. /\ JobsSorted(jobs'[rt])
          /\ \A b \in PendingIn(jobs'[rt]) : b \in PendingIn(jobs[rt]) \/ Reload(id) = Reload(b)
      BY <1>3, <2>1, <2>5, <3>1, PendingAppend
    <3>3. \A b : Reload(id) = Reload(b) => b = id
      BY DEF Reload
    <3>4. QED BY <1>3, <2>2, <2>5, <3>2, <3>3
  <2>6. QED BY <1>2, <2>2, <2>3, <2>4, <2>5
<1>5. \A rt \in Runtimes : \A b \in PendingIn(jobs'[rt]) :
        b \in PendingIn(jobs[rt]) \/ b \notin Bundles
  BY <1>3, <1>4
<1>6. JobsInv'
  <2> SUFFICES ASSUME NEW q \in Runtimes
               PROVE  /\ JobsSorted(jobs'[q])
                      /\ PendingIn(jobs'[q]) \subseteq Bundles'
                      /\ \A o \in Runtimes \ {q} :
                           PendingIn(jobs'[q]) \cap PendingIn(jobs'[o]) = {}
                      /\ stage'[q] # "waiting" =>
                           jobs'[q] # <<>> /\ Head(jobs'[q]).op = "reload"
                      /\ \A b \in PendingIn(jobs'[q]) : installed'[q] <= b
                      /\ installed'[q] <= currentBundleId'
    BY DEF JobsInv, Running, Current, JobsSorted, PendingIn
  <2>1. JobsSorted(jobs'[q])
    BY <1>4
  <2>2. PendingIn(jobs'[q]) \subseteq Bundles'
    BY <1>1, <1>3, <1>4 DEF JobsInv
  <2>3. ASSUME NEW o \in Runtimes \ {q}, NEW b \in PendingIn(jobs'[q]),
               b \in PendingIn(jobs'[o])
        PROVE  FALSE
    <3>1. CASE b \in PendingIn(jobs[q]) /\ b \in PendingIn(jobs[o])
      BY <3>1 DEF JobsInv
    <3>2. CASE b = id /\ id = currentBundleId + 1
      <4>1. b \notin PendingIn(jobs[q]) /\ b \notin PendingIn(jobs[o])
        BY <1>3, <3>2 DEF JobsInv
      <4>2. QED BY <1>4, <2>3, <4>1
    <3>3. QED BY <1>4, <2>3, <3>1, <3>2
  <2>4. stage'[q] # "waiting" => jobs'[q] # <<>> /\ Head(jobs'[q]).op = "reload"
    BY <1>4 DEF JobsInv, Running, Current
  <2>5. ASSUME NEW b \in PendingIn(jobs'[q]) PROVE installed'[q] <= b
    <3>1. b \in 1..MaxBundles
      BY DEF PendingIn
    <3>2. installed[q] \in 0..MaxBundles
      BY DEF DevTyped
    <3>3. CASE installed'[q] = 0
      BY <3>1, <3>3
    <3>4. CASE installed'[q] = installed[q] /\ b \in PendingIn(jobs[q])
      BY <3>4 DEF JobsInv
    <3>5. CASE installed'[q] = installed[q] /\ b = id /\ id = currentBundleId + 1
      <4>1. installed[q] <= currentBundleId
        BY DEF JobsInv
      <4>2. QED BY <1>1, <3>2, <3>5, <4>1
    <3>6. QED BY <1>4, <3>3, <3>4, <3>5
  <2>6. installed'[q] <= currentBundleId'
    <3>1. installed[q] \in 0..MaxBundles /\ installed[q] <= currentBundleId
      BY DEF DevTyped, JobsInv
    <3>2. installed'[q] = installed[q] \/ installed'[q] = 0
      OBVIOUS
    <3>3. QED BY <1>1, <3>1, <3>2
  <2>7. QED BY <2>1, <2>2, <2>3, <2>4, <2>5, <2>6
<1>7. QED BY <1>5, <1>6

\* A reload is installed, or goes on to its next stage.
LEMMA StageStep ==
  ASSUME DevTyped, JobsInv, NEW rt \in Runtimes, NEW st \in Stages,
         Running(rt), Current(rt).op = "reload",
         stage' = [stage EXCEPT ![rt] = st],
         \/ installed' = installed
         \/ installed' = [installed EXCEPT ![rt] = Current(rt).id],
         UNCHANGED <<currentBundleId, jobs>>
  PROVE  /\ JobsInv'
         /\ stage' \in [Runtimes -> Stages] /\ installed' \in [Runtimes -> 0..MaxBundles]
<1> USE DevServerAssumption
<1>1. /\ jobs[rt] \in Seq(Job) /\ jobs[rt] # <<>> /\ JobsSorted(jobs[rt])
      /\ Current(rt) = Head(jobs[rt]) /\ currentBundleId \in 0..MaxBundles
  BY DEF DevTyped, JobsInv, Running, Current
<1>2. Current(rt).id \in PendingIn(jobs[rt]) /\ \A b \in PendingIn(jobs[rt]) : Current(rt).id <= b
  BY <1>1, PendingTail
<1>3. Current(rt).id \in 1..MaxBundles /\ Current(rt).id \in Bundles
  BY <1>2 DEF PendingIn, JobsInv
<1>4. Current(rt).id <= currentBundleId
  BY <1>1, <1>3 DEF Bundles
<1>5. /\ stage' \in [Runtimes -> Stages]
      /\ \A o \in Runtimes \ {rt} : stage'[o] = stage[o] /\ installed'[o] = installed[o]
      /\ installed'[rt] = installed[rt] \/ installed'[rt] = Current(rt).id
  BY DEF DevTyped
<1>6. installed' \in [Runtimes -> 0..MaxBundles]
  BY <1>3 DEF DevTyped
<1>7. JobsInv'
  <2> SUFFICES ASSUME NEW q \in Runtimes
               PROVE  /\ stage'[q] # "waiting" =>
                           jobs[q] # <<>> /\ Head(jobs[q]).op = "reload"
                      /\ \A b \in PendingIn(jobs[q]) : installed'[q] <= b
                      /\ installed'[q] <= currentBundleId
    BY DEF JobsInv, Running, Current, JobsSorted, PendingIn, Bundles
  <2>1. CASE q = rt
    BY <1>1, <1>2, <1>4, <1>5, <2>1 DEF JobsInv
  <2>2. CASE q # rt
    BY <1>5, <2>2 DEF JobsInv, Running, Current
  <2>3. QED BY <2>1, <2>2
<1>8. QED BY <1>5, <1>6, <1>7

\* A new ProxyWorker knows nothing of the requests of the old one, whose clients
\* were answered with an error.
LEMMA ReadyStep == DevTyped /\ ProxyInv /\ ProxyWorkerReady => ProxyInv'
<1> SUFFICES ASSUME DevTyped, ProxyInv, ProxyWorkerReady PROVE ProxyInv'
  OBVIOUS
<1> USE ProxyAssumption
<1>1. /\ proxyData' = Undefined /\ requestQueue' = {} /\ requestRetryQueue' = {}
      /\ inFlight' = [r \in Requests |-> Undefined]
      /\ response' = [r \in Requests |-> IF r \in Queued \cup InFlight
                                         THEN "error" ELSE response[r]]
      /\ sent' = sent /\ resent' = resent
  BY DEF ProxyWorkerReady
<1>2. ProxyTypeOK'
  BY <1>1 DEF ProxyInv, ProxyTypeOK, Responses
<1>3. Queued' = {} /\ InFlight' = {}
  BY <1>1 DEF Queued, InFlight
<1>4. Queued \cup InFlight \cup Settled \subseteq Settled'
  BY <1>1 DEF ProxyInv, ProxyTypeOK, Queued, InFlight, Settled
<1>5. OnePlace'
  BY <1>1, <1>3, <1>4 DEF ProxyInv, OnePlace, Arrived
<1>6. NothingHeldWhilePlaying' /\ QueueDiscipline'
  BY <1>1 DEF ProxyInv, NothingHeldWhilePlaying, QueueDiscipline, OnlyReadsAreResent
<1>7. QED BY <1>2, <1>5, <1>6 DEF ProxyInv

\* A delivered message plays what was on its way to be played, and keeps the
\* ProxyWorker's invariant.
LEMMA HandleStep ==
  ASSUME DevTyped, ProxyInv, FateInv, messages # <<>>, Handle(Head(messages))
  PROVE  /\ ProxyInv' /\ announced' \in 0..MaxBundles
         /\ proxyData' \in {Undefined} \cup PlaysIn(messages)
<1> USE DevServerAssumption
<1>1. Head(messages) \in Message
  BY DEF DevTyped
<1>2. announced' \in 0..MaxBundles
  BY <1>1 DEF Handle, DevTyped, Message
<1>3. CASE Head(messages).type = "pause" /\ Pause
  BY <1>2, <1>3, NextProxyInv DEF ProxyNext, Pause
<1>4. CASE Head(messages).type = "play" /\ Play(Head(messages).bundle)
  <2>1. Head(messages).bundle \in PlaysIn(messages)
    BY <1>4, PlaysTail DEF DevTyped
  <2>2. Head(messages).bundle \in ProxyData
    BY <2>1 DEF FateInv, DevTyped, Bundles
  <2>3. ProxyInv'
    BY <1>4, <2>2, NextProxyInv DEF ProxyNext
  <2>4. QED BY <1>2, <1>4, <2>1, <2>3 DEF Play
<1>5. QED BY <1>3, <1>4 DEF Handle

\* The types of the remaining variables.
LEMMA QuietTypes ==
  ASSUME DevTyped, UNCHANGED <<currentBundleId, jobs, stage, installed, failed>>,
         messages' \in Seq(Message), ready' \in BOOLEAN,
         torndown' \in {"no", "begun", "complete"}, starts' \in 0..MaxStarts,
         lastSent' \in Message, announced' \in 0..MaxBundles
  PROVE  DevTyped'
BY DEF DevTyped

-----------------------------------------------------------------------------
(* The invariant of the pipeline. *)

\* Nothing is pending and nothing is played at the start.
LEMMA InitPipeline == Init => PipelineInv
<1> SUFFICES ASSUME Init PROVE PipelineInv
  OBVIOUS
<1> USE DevServerAssumption
<1>1. ProxyInv
  BY InitProxyInv DEF Init
<1>2. DevTyped
  <2>1. lastSent \in Message
    BY SentMessages DEF Init
  <2>2. /\ jobs \in [Runtimes -> Seq(Job)] /\ messages \in Seq(Message)
        /\ stage \in [Runtimes -> Stages] /\ installed \in [Runtimes -> 0..MaxBundles]
    BY DEF Init, Stages
  <2>3. /\ currentBundleId \in 0..MaxBundles /\ starts \in 0..MaxStarts
        /\ announced \in 0..MaxBundles
    BY DEF Init
  <2>4. failed \subseteq ProxyData /\ torndown \in {"no", "begun", "complete"}
    BY DEF Init
  <2>5. ready \in BOOLEAN
    BY DEF Init
  <2>6. QED BY <2>1, <2>2, <2>3, <2>4, <2>5 DEF DevTyped
<1>3. /\ \A rt \in Runtimes : /\ jobs[rt] = <<>> /\ stage[rt] = "waiting"
                              /\ installed[rt] = 0 /\ PendingIn(jobs[rt]) = {}
      /\ PlaysIn(messages) = {} /\ currentBundleId = 0
  BY DEF Init, PendingIn, PlaysIn
<1>4. JobsInv
  <2> SUFFICES ASSUME NEW rt \in Runtimes
               PROVE  JobsSorted(jobs[rt]) /\ installed[rt] <= currentBundleId
    BY <1>3 DEF JobsInv
  <2>1. Len(jobs[rt]) = 0
    BY <1>3
  <2>2. QED BY <1>3, <2>1 DEF JobsSorted
<1>5. FateInv
  BY <1>3 DEF FateInv, Init, ProxyInit
<1>6. QED BY <1>1, <1>2, <1>4, <1>5 DEF PipelineInv

\* No fate changes when messages are only paused, delivered or repeated.
LEMMA SameFate ==
  ASSUME PipelineInv, UNCHANGED <<currentBundleId, jobs, failed>>,
         PlaysIn(messages') \subseteq PlaysIn(messages),
         proxyData' \in {proxyData, Undefined} \cup PlaysIn(messages)
  PROVE  FateInv'
<1>1. Bundles' = Bundles /\ DevTyped /\ FateInv
  BY DEF Bundles, PipelineInv
<1>2. PICK X : X = {}
  OBVIOUS
<1>3. failed' = failed \cup X
  BY <1>2
<1>4. \A rt \in Runtimes : \A b \in PendingIn(jobs'[rt]) : b \in PendingIn(jobs[rt])
  OBVIOUS
<1>5. QED BY <1>1, <1>2, <1>3, <1>4, FateMoves

\* The events of the ProxyController keep the invariant.
LEMMA ControllerStep ==
  ASSUME PipelineInv,
         \/ \E changed \in BOOLEAN : ConfigUpdate(changed)
         \/ ProxyWorkerReady \/ Deliver \/ DeliveryFails \/ BundleStart
  PROVE  PipelineInv'
<1> USE DevServerAssumption
<1>0. DevTyped /\ ProxyInv /\ JobsInv /\ FateInv
  BY DEF PipelineInv
<1>1. UNCHANGED <<currentBundleId, jobs, stage, installed, failed>>
  BY DEF ConfigUpdate, ProxyWorkerReady, Deliver, DeliveryFails, BundleStart
<1>2. JobsInv'
  BY <1>0, <1>1, JobsIdle
<1>3. ASSUME NEW changed \in BOOLEAN, ConfigUpdate(changed) PROVE DevTyped' /\ ProxyInv' /\ FateInv'
  <2>1. PauseFor(0) \in Message /\ PauseFor(0).type = "pause"
    BY SentMessages
  <2>2. Send(PauseFor(0)) /\ UNCHANGED <<proxyVars, torndown, announced>>
    BY <1>3 DEF ConfigUpdate
  <2>3. ready' \in BOOLEAN
    BY <1>0, <1>3 DEF ConfigUpdate, CreateProxyWorker, DevTyped
  <2>4. starts' \in 0..MaxStarts
    BY <1>0, <1>3 DEF ConfigUpdate, DevTyped
  <2>5. /\ messages' \in Seq(Message) /\ lastSent' \in Message
        /\ PlaysIn(messages') \subseteq PlaysIn(messages)
    BY <1>0, <2>1, <2>2, SendFacts
  <2>6. DevTyped'
    BY <1>0, <1>1, <2>2, <2>3, <2>4, <2>5, QuietTypes DEF DevTyped
  <2>7. ProxyInv' /\ proxyData' = proxyData
    BY <1>0, <2>2, NextProxyInv DEF proxyVars
  <2>8. QED BY <1>1, <2>5, <2>6, <2>7, SameFate
<1>4. CASE ProxyWorkerReady
  <2>1. ready' = TRUE /\ proxyData' = Undefined
        /\ UNCHANGED <<messages, torndown, starts, lastSent, announced>>
    BY <1>4 DEF ProxyWorkerReady
  <2>2. DevTyped'
    BY <1>0, <1>1, <2>1, QuietTypes DEF DevTyped
  <2>3. QED BY <1>0, <1>1, <1>2, <1>4, <2>1, <2>2, ReadyStep, SameFate DEF PipelineInv
<1>5. CASE Deliver
  <2>1. /\ messages # <<>> /\ messages \in Seq(Message) /\ messages' = Tail(messages)
        /\ UNCHANGED <<ready, torndown, starts, lastSent>>
        /\ Handle(Head(messages)) \/ UNCHANGED <<proxyVars, announced>>
    BY <1>0, <1>5 DEF Deliver, DevTyped
  <2>2. messages' \in Seq(Message) /\ PlaysIn(messages') \subseteq PlaysIn(messages)
    BY <2>1, PlaysTail
  <2>3. /\ ProxyInv' /\ announced' \in 0..MaxBundles
        /\ proxyData' \in {proxyData, Undefined} \cup PlaysIn(messages)
    <3>1. CASE Handle(Head(messages))
      BY <1>0, <2>1, <3>1, HandleStep
    <3>2. CASE UNCHANGED <<proxyVars, announced>>
      BY <1>0, <3>2, NextProxyInv DEF proxyVars, DevTyped
    <3>3. QED BY <2>1, <3>1, <3>2
  <2>4. DevTyped'
    BY <1>0, <1>1, <2>1, <2>2, <2>3, QuietTypes DEF DevTyped
  <2>5. QED BY <1>1, <1>2, <2>2, <2>3, <2>4, SameFate DEF PipelineInv
<1>6. CASE DeliveryFails
  <2>1. /\ messages # <<>> /\ messages \in Seq(Message)
        /\ messages' = Resend(Head(messages), Tail(messages))
        /\ UNCHANGED <<ready, torndown, starts, lastSent>>
        /\ Handle(Head(messages)) \/ UNCHANGED <<proxyVars, announced>>
    BY <1>0, <1>6 DEF DeliveryFails, DevTyped
  <2>2. messages' \in Seq(Message) /\ PlaysIn(messages') \subseteq PlaysIn(messages)
    BY <2>1, PlaysResend
  <2>3. /\ ProxyInv' /\ announced' \in 0..MaxBundles
        /\ proxyData' \in {proxyData, Undefined} \cup PlaysIn(messages)
    <3>1. CASE Handle(Head(messages))
      BY <1>0, <2>1, <3>1, HandleStep
    <3>2. CASE UNCHANGED <<proxyVars, announced>>
      BY <1>0, <3>2, NextProxyInv DEF proxyVars, DevTyped
    <3>3. QED BY <2>1, <3>1, <3>2
  <2>4. DevTyped'
    BY <1>0, <1>1, <2>1, <2>2, <2>3, QuietTypes DEF DevTyped
  <2>5. QED BY <1>1, <1>2, <2>2, <2>3, <2>4, SameFate DEF PipelineInv
<1>7. CASE BundleStart
  <2>1. PauseFor(0) \in Message /\ PauseFor(0).type = "pause"
    BY SentMessages
  <2>2. Send(PauseFor(0)) /\ UNCHANGED <<proxyVars, ready, torndown, announced>>
    BY <1>7 DEF BundleStart
  <2>3. starts' \in 0..MaxStarts
    BY <1>0, <1>7 DEF BundleStart, DevTyped
  <2>4. /\ messages' \in Seq(Message) /\ lastSent' \in Message
        /\ PlaysIn(messages') \subseteq PlaysIn(messages)
    BY <1>0, <2>1, <2>2, SendFacts
  <2>5. DevTyped'
    BY <1>0, <1>1, <2>2, <2>3, <2>4, QuietTypes DEF DevTyped
  <2>6. ProxyInv' /\ proxyData' = proxyData
    BY <1>0, <2>2, NextProxyInv DEF proxyVars
  <2>7. QED BY <1>1, <1>2, <2>4, <2>5, <2>6, SameFate DEF PipelineInv
<1>8. QED BY <1>2, <1>3, <1>4, <1>5, <1>6, <1>7 DEF PipelineInv

\* The steps of the runtimes keep it.
LEMMA RuntimeStep ==
  ASSUME PipelineInv, NEW rt \in Runtimes,
         \/ TeardownRuntime(rt) \/ Install(rt) \/ Ignore(rt)
         \/ CheckNewest(rt) \/ ReloadComplete(rt) \/ ReloadFails(rt)
  PROVE  PipelineInv'
<1> USE DevServerAssumption
<1>0. DevTyped /\ ProxyInv /\ JobsInv /\ FateInv
  BY DEF PipelineInv
<1>1. UNCHANGED <<proxyVars, currentBundleId, ready, torndown, starts, announced>> /\ Running(rt)
  BY DEF TeardownRuntime, Install, Ignore, CheckNewest, ReloadComplete, ReloadFails
<1>2. ProxyInv' /\ proxyData' = proxyData
  BY <1>0, <1>1, NextProxyInv DEF proxyVars
<1>3. Bundles' = Bundles
  BY <1>1 DEF Bundles
<1>4. ASSUME UNCHANGED <<messages, lastSent, failed>>,
             \A o \in Runtimes : PendingIn(jobs'[o]) \subseteq PendingIn(jobs[o])
      PROVE  FateInv'
  <2>1. PICK X : X = {}
    OBVIOUS
  <2>2. failed' = failed \cup X /\ PlaysIn(messages') \subseteq PlaysIn(messages)
    BY <1>4, <2>1
  <2>3. /\ (X \cup X) \cap failed = {} /\ (X \cup X) \cap PlaysIn(messages) = {}
        /\ X \cap X = {} /\ X \subseteq Bundles /\ proxyData \notin X \cup X
        /\ Bundles \subseteq Bundles'
        /\ PlaysIn(messages') \subseteq PlaysIn(messages) \cup X
        /\ proxyData' \in {proxyData, Undefined} \cup PlaysIn(messages)
        /\ \A o \in Runtimes : \A b \in PendingIn(jobs'[o]) :
             \/ b \in PendingIn(jobs[o]) /\ b \notin X \cup X
             \/ b \notin Bundles
    BY <1>2, <1>3, <1>4, <2>1, <2>2
  <2>4. QED BY <1>0, <2>2, <2>3, FateMoves
<1>5. CASE TeardownRuntime(rt) \/ Ignore(rt)
  <2>1. /\ Unlock(rt) /\ UNCHANGED <<messages, lastSent, failed>>
        /\ installed' = installed \/ installed' = [installed EXCEPT ![rt] = 0]
    BY <1>5 DEF TeardownRuntime, Ignore
  <2>2. /\ JobsInv' /\ jobs' \in [Runtimes -> Seq(Job)] /\ stage' \in [Runtimes -> Stages]
        /\ installed' \in [Runtimes -> 0..MaxBundles]
        /\ \A o \in Runtimes : PendingIn(jobs'[o]) \subseteq PendingIn(jobs[o])
    BY <1>0, <1>1, <2>1, UnlockStep
  <2>3. DevTyped'
    BY <1>0, <1>1, <2>1, <2>2 DEF DevTyped
  <2>4. QED BY <1>2, <1>4, <2>1, <2>2, <2>3 DEF PipelineInv
<1>6. CASE Install(rt) \/ CheckNewest(rt)
  <2>1. Current(rt).op = "reload"
    BY <1>0, <1>6 DEF Install, CheckNewest, JobsInv
  <2>2. PICK st \in Stages : stage' = [stage EXCEPT ![rt] = st]
    BY <1>6 DEF Install, CheckNewest, Stages
  <2>3. /\ UNCHANGED <<jobs, messages, lastSent, failed>>
        /\ \/ installed' = installed
           \/ installed' = [installed EXCEPT ![rt] = Current(rt).id]
    BY <1>6 DEF Install, CheckNewest
  <2>4. /\ JobsInv' /\ stage' \in [Runtimes -> Stages]
        /\ installed' \in [Runtimes -> 0..MaxBundles]
    BY <1>0, <1>1, <2>1, <2>2, <2>3, StageStep
  <2>5. DevTyped'
    BY <1>0, <1>1, <2>3, <2>4 DEF DevTyped
  <2>6. FateInv'
    BY <1>4, <2>3
  <2>7. QED BY <1>2, <2>4, <2>5, <2>6 DEF PipelineInv
<1>7. CASE ReloadComplete(rt) \/ ReloadFails(rt)
  <2>1. Unlock(rt) /\ installed' = installed
    BY <1>7 DEF ReloadComplete, ReloadFails
  <2>2. Current(rt).op = "reload"
    BY <1>0, <1>7 DEF ReloadComplete, ReloadFails, MayComplete, JobsInv
  <2>3. PICK id : id = Current(rt).id
    OBVIOUS
  <2>4. /\ JobsInv' /\ jobs' \in [Runtimes -> Seq(Job)] /\ stage' \in [Runtimes -> Stages]
        /\ installed' \in [Runtimes -> 0..MaxBundles]
        /\ \A o \in Runtimes : PendingIn(jobs'[o]) \subseteq PendingIn(jobs[o])
        /\ id \in PendingIn(jobs[rt])
        /\ \A o \in Runtimes : id \notin PendingIn(jobs'[o])
    BY <1>0, <1>1, <2>1, <2>2, <2>3, UnlockStep
  <2>5. /\ id \in 1..MaxBundles /\ id \in Bundles /\ id \notin failed
        /\ id \notin PlaysIn(messages) /\ id # proxyData
    BY <1>0, <2>4 DEF PendingIn, JobsInv, FateInv
  <2>6. PICK X : X = {}
    OBVIOUS
  <2>7. PICK Y : Y = {id}
    OBVIOUS
  <2>8. CASE ReloadComplete(rt)
    <3>1. Send(PlayFor(id)) /\ failed' = failed
      BY <2>3, <2>8 DEF ReloadComplete
    <3>2. PlayFor(id) \in Message /\ PlayFor(id).bundle = id
      BY <2>5, SentMessages
    <3>3. /\ messages' \in Seq(Message) /\ lastSent' \in Message
          /\ PlaysIn(messages') \subseteq PlaysIn(messages) \cup Y
      BY <1>0, <2>7, <3>1, <3>2, SendFacts
    <3>4. DevTyped'
      BY <1>0, <1>1, <2>4, <3>1, <3>3 DEF DevTyped
    <3>5. FateInv'
      <4>1. failed' = failed \cup X /\ X \cap Y = {} /\ Y \cup X = Y
        BY <2>6, <3>1
      <4>2. /\ (Y \cup X) \cap failed = {} /\ (Y \cup X) \cap PlaysIn(messages) = {}
            /\ Y \cap X = {} /\ X \subseteq Bundles /\ Y \subseteq Bundles
            /\ proxyData \notin Y \cup X /\ Bundles \subseteq Bundles'
            /\ proxyData' \in {proxyData, Undefined} \cup PlaysIn(messages)
            /\ \A o \in Runtimes : \A b \in PendingIn(jobs'[o]) :
                 \/ b \in PendingIn(jobs[o]) /\ b \notin Y \cup X
                 \/ b \notin Bundles
        BY <1>2, <1>3, <2>4, <2>5, <2>6, <2>7
      <4>3. QED BY <1>0, <3>3, <4>1, <4>2, FateMoves
    <3>6. QED BY <1>2, <2>4, <3>4, <3>5 DEF PipelineInv
  <2>9. CASE ReloadFails(rt)
    <3>1. failed' = failed \cup Y /\ UNCHANGED <<messages, lastSent>>
      BY <2>3, <2>7, <2>9 DEF ReloadFails
    <3>2. failed' \subseteq ProxyData
      BY <1>0, <2>5, <2>7, <3>1 DEF DevTyped
    <3>3. DevTyped'
      BY <1>0, <1>1, <2>4, <3>1, <3>2 DEF DevTyped
    <3>4. FateInv'
      <4>1. PlaysIn(messages') \subseteq PlaysIn(messages) \cup X
        BY <3>1
      <4>2. /\ (X \cup Y) \cap failed = {} /\ (X \cup Y) \cap PlaysIn(messages) = {}
            /\ X \cap Y = {} /\ X \subseteq Bundles /\ Y \subseteq Bundles
            /\ proxyData \notin X \cup Y /\ Bundles \subseteq Bundles'
            /\ proxyData' \in {proxyData, Undefined} \cup PlaysIn(messages)
            /\ \A o \in Runtimes : \A b \in PendingIn(jobs'[o]) :
                 \/ b \in PendingIn(jobs[o]) /\ b \notin X \cup Y
                 \/ b \notin Bundles
        BY <1>2, <1>3, <2>4, <2>5, <2>6, <2>7
      <4>3. QED BY <1>0, <3>1, <4>1, <4>2, FateMoves
    <3>5. QED BY <1>2, <2>4, <3>3, <3>4 DEF PipelineInv
  <2>10. QED BY <1>7, <2>8, <2>9
<1>8. QED BY <1>5, <1>6, <1>7

\* So do a new bundle and DevEnv's teardown.
LEMMA EventStep ==
  ASSUME PipelineInv,
         \/ \E remote \in RemoteModes : BundleComplete(remote)
         \/ BeginTeardown \/ CompleteTeardown
  PROVE  PipelineInv'
<1> USE DevServerAssumption
<1>0. DevTyped /\ ProxyInv /\ JobsInv /\ FateInv
  BY DEF PipelineInv
<1>1. UNCHANGED <<proxyVars, stage, ready, starts, failed, announced>>
  BY DEF BundleComplete, BeginTeardown, CompleteTeardown
<1>2. ProxyInv' /\ proxyData' = proxyData
  BY <1>0, <1>1, NextProxyInv DEF proxyVars
<1>3. PICK X : X = {}
  OBVIOUS
<1>4. failed' = failed \cup X
  BY <1>1, <1>3
<1>5. ASSUME NEW remote \in RemoteModes, BundleComplete(remote) PROVE PipelineInv'
  <2>1. PICK id : id = currentBundleId + 1
    OBVIOUS
  <2>2. PICK mode \in Runtimes : mode = IF remote THEN "remote" ELSE "local"
    BY DEF Runtimes
  <2>3. /\ id <= MaxBundles /\ currentBundleId' = id
        /\ jobs' = [rt \in Runtimes |->
                      Append(jobs[rt], IF rt = mode THEN Reload(id) ELSE Teardown)]
        /\ Send(PauseFor(id)) /\ UNCHANGED <<installed, torndown>>
    BY <1>5, <2>1, <2>2 DEF BundleComplete
  <2>4. currentBundleId \in 0..MaxBundles /\ id \in 0..MaxBundles /\ Bundles \subseteq Bundles'
    BY <1>0, <2>1, <2>3 DEF DevTyped, Bundles
  <2>5. Reload(id) \in Job /\ Teardown \in Job
    BY <2>4 DEF Reload, Teardown, Job
  <2>6. \A rt \in Runtimes : \A e \in Job : Append(jobs[rt], e) \in Seq(Job)
    BY <1>0 DEF DevTyped
  <2>7. jobs' \in [Runtimes -> Seq(Job)]
    BY <2>3, <2>5, <2>6
  <2>8. /\ JobsInv'
        /\ \A rt \in Runtimes : \A b \in PendingIn(jobs'[rt]) :
             b \in PendingIn(jobs[rt]) \/ b \notin Bundles
    <3>1. \A rt \in Runtimes : \/ jobs'[rt] = Append(jobs[rt], Teardown)
                               \/ rt = mode /\ jobs'[rt] = Append(jobs[rt], Reload(id))
      BY <2>3
    <3>2. \A rt \in Runtimes : installed'[rt] = installed[rt]
      BY <2>3
    <3>3. installed' \in [Runtimes -> 0..MaxBundles] /\ stage' = stage
      BY <1>0, <1>1, <2>3 DEF DevTyped
    <3>4. QED BY <1>0, <2>1, <2>3, <2>4, <2>7, <3>1, <3>2, <3>3, JoinStep
  <2>9. /\ messages' \in Seq(Message) /\ lastSent' \in Message
        /\ PlaysIn(messages') \subseteq PlaysIn(messages) \cup X
    <3>1. PauseFor(id) \in Message /\ PauseFor(id).type = "pause"
      BY <2>4, SentMessages
    <3>2. QED BY <1>0, <2>3, <3>1, SendFacts
  <2>10. DevTyped'
    BY <1>0, <1>1, <2>3, <2>4, <2>7, <2>9 DEF DevTyped
  <2>11. FateInv'
    <3>1. /\ (X \cup X) \cap failed = {} /\ (X \cup X) \cap PlaysIn(messages) = {}
          /\ X \cap X = {} /\ X \subseteq Bundles /\ proxyData \notin X \cup X
          /\ proxyData' \in {proxyData, Undefined} \cup PlaysIn(messages)
          /\ \A rt \in Runtimes : \A b \in PendingIn(jobs'[rt]) :
               \/ b \in PendingIn(jobs[rt]) /\ b \notin X \cup X
               \/ b \notin Bundles
      BY <1>2, <1>3, <2>8
    <3>2. QED BY <1>0, <1>4, <2>4, <2>9, <3>1, FateMoves
  <2>12. QED BY <1>2, <2>8, <2>10, <2>11 DEF PipelineInv
<1>6. CASE BeginTeardown
  <2>1. /\ torndown' = "begun" /\ UNCHANGED <<currentBundleId, messages, lastSent>>
        /\ jobs' = [jobs EXCEPT !["local"] = Append(jobs["local"], Close)]
        /\ installed' = [installed EXCEPT !["remote"] = 0]
    BY <1>6 DEF BeginTeardown
  <2>2. Close \in Job /\ "local" \in Runtimes /\ "remote" \in Runtimes
    BY DEF Close, Job, Runtimes
  <2>3. Append(jobs["local"], Close) \in Seq(Job)
    BY <1>0, <2>2 DEF DevTyped
  <2>4. /\ jobs' \in [Runtimes -> Seq(Job)]
        /\ \A rt \in Runtimes : jobs'[rt] = jobs[rt] \/ jobs'[rt] = Append(jobs[rt], Close)
    BY <1>0, <2>1, <2>2, <2>3 DEF DevTyped
  <2>5. /\ installed' \in [Runtimes -> 0..MaxBundles]
        /\ \A rt \in Runtimes : installed'[rt] = installed[rt] \/ installed'[rt] = 0
    BY <1>0, <2>1, <2>2 DEF DevTyped
  <2>6. DevTyped'
    BY <1>0, <1>1, <2>1, <2>4, <2>5 DEF DevTyped
  <2>7. /\ JobsInv'
        /\ \A rt \in Runtimes : \A b \in PendingIn(jobs'[rt]) :
             b \in PendingIn(jobs[rt]) \/ b \notin Bundles
    <3>1. PICK id \in 0..MaxBundles : id = currentBundleId
      BY <1>0 DEF DevTyped
    <3>2. stage' = stage /\ currentBundleId' = id
      BY <1>1, <2>1, <3>1
    <3>3. QED BY <1>0, <2>2, <2>4, <2>5, <3>1, <3>2, JoinStep
  <2>8. FateInv'
    <3>1. Bundles' = Bundles /\ PlaysIn(messages') \subseteq PlaysIn(messages) \cup X
      BY <2>1 DEF Bundles
    <3>2. QED BY <1>0, <1>2, <1>3, <1>4, <2>7, <3>1, FateMoves
  <2>9. QED BY <1>2, <2>6, <2>7, <2>8 DEF PipelineInv
<1>7. CASE CompleteTeardown
  <2>1. UNCHANGED <<currentBundleId, jobs, stage, installed, messages, ready, starts,
                    lastSent, failed, announced>> /\ torndown' = "complete"
    BY <1>7 DEF CompleteTeardown
  <2>2. DevTyped'
    BY <1>0, <2>1, QuietTypes DEF DevTyped
  <2>3. JobsInv'
    BY <1>0, <2>1, JobsIdle
  <2>4. FateInv'
    BY <1>2, <2>1, SameFate
  <2>5. QED BY <1>2, <2>2, <2>3, <2>4 DEF PipelineInv
<1>8. QED BY <1>5, <1>6, <1>7

\* And so do the clients of the ProxyWorker, which leave proxyData alone.
LEMMA ClientStep ==
  ASSUME PipelineInv,
         \/ \E r \in Requests : Client(r)
         \/ UNCHANGED vars
  PROVE  PipelineInv' /\ UNCHANGED <<proxyData, pipeline>>
<1>0. DevTyped /\ ProxyInv /\ JobsInv /\ FateInv
  BY DEF PipelineInv
<1>1. [ProxyNext]_proxyVars /\ UNCHANGED <<proxyData, pipeline>>
  BY DEF Client, Fetch, Respond, NetworkError, ProxyNext, Request, vars, proxyVars
<1>2. UNCHANGED <<currentBundleId, jobs, stage, installed, messages, ready, torndown, starts,
                  lastSent, failed, announced>>
  BY <1>1 DEF pipeline
<1>3. ProxyInv'
  BY <1>0, <1>1, NextProxyInv
<1>4. DevTyped'
  BY <1>0, <1>2, QuietTypes DEF DevTyped
<1>5. JobsInv'
  BY <1>0, <1>2, JobsIdle
<1>6. FateInv'
  BY <1>1, <1>2, SameFate
<1>7. QED BY <1>1, <1>3, <1>4, <1>5, <1>6 DEF PipelineInv

\* Every step keeps the invariant of the pipeline.
LEMMA PipelineStep == PipelineInv /\ [Next]_vars => PipelineInv'
BY ControllerStep, RuntimeStep, EventStep, ClientStep DEF Next

-----------------------------------------------------------------------------
(* Messages that all arrive. *)

\* What the ProxyWorker is asked to play.
Target(m) == IF m.type = "play" THEN m.bundle ELSE Undefined

FollowInv ==
  torndown = "no" =>
    /\ messages # <<>> => messages[Len(messages)] = lastSent
    /\ messages = <<>> => proxyData = Target(lastSent)
    /\ messages = <<>> /\ ~ready => lastSent.type = "pause"

\* The controller has only the local runtime, which awaits nothing after the
\* comparison of bundle ids, and messages arrive.
ChecksLast == RemoteModes \subseteq {FALSE} /\ ~HasEntrypoints /\ ~MessagesCanFail

\* Messages are about bundles in their order, which lie between two of them.
Ordered(s) ==
  \A i, j \in 1..Len(s) : i < j /\ s[j].bundle # 0 => s[i].bundle <= s[j].bundle
Within(s, low, high) ==
  \A i \in 1..Len(s) : /\ s[i].bundle # 0 => low <= s[i].bundle
                       /\ s[i].bundle <= high

\* The remote runtime never reloads, and the local one checks and completes at
\* once.
OnlyLocal ==
  /\ stage["remote"] = "waiting" /\ PendingIn(jobs["remote"]) = {}
  /\ stage["local"] # "checked"

InOrder ==
  /\ torndown = "no" /\ lastSent.type = "play" => lastSent.bundle = currentBundleId
  /\ Ordered(messages)
  /\ Within(messages, announced, currentBundleId)
  /\ announced <= currentBundleId
  /\ proxyData # Undefined => announced <= proxyData

OrderInv == OnlyLocal /\ InOrder

\* The last message stays last when others are delivered, and the one that
\* joins becomes the last.
LEMMA LastFacts ==
  ASSUME NEW S, NEW s \in Seq(S)
  PROVE  /\ \A e \in S : Append(s, e) # <<>> /\ Append(s, e)[Len(Append(s, e))] = e
         /\ s # <<>> /\ Tail(s) # <<>> => Tail(s)[Len(Tail(s))] = s[Len(s)]
         /\ s # <<>> /\ Tail(s) = <<>> => Head(s) = s[Len(s)]
<1>1. ASSUME NEW e \in S PROVE Append(s, e) # <<>> /\ Append(s, e)[Len(Append(s, e))] = e
  BY AppendFacts
<1>2. ASSUME s # <<>>, Tail(s) # <<>> PROVE Tail(s)[Len(Tail(s))] = s[Len(s)]
  <2>1. /\ Len(s) \in Nat \ {0} /\ Len(Tail(s)) = Len(s) - 1 /\ Tail(s) \in Seq(S)
        /\ \A i \in 1..(Len(s) - 1) : Tail(s)[i] = s[i + 1]
    BY <1>2, TailFacts
  <2>2. Len(Tail(s)) # 0
    BY <1>2, <2>1
  <2>3. QED BY <2>1, <2>2
<1>3. ASSUME s # <<>>, Tail(s) = <<>> PROVE Head(s) = s[Len(s)]
  <2>1. Len(s) \in Nat \ {0} /\ Len(Tail(s)) = Len(s) - 1 /\ Head(s) = s[1]
    BY <1>3, TailFacts
  <2>2. PICK n : n = Len(s)
    OBVIOUS
  <2>3. \A t : t = <<>> => Len(t) = 0
    OBVIOUS
  <2>4. Len(Tail(s)) = 0
    BY <1>3, <2>3, Zenon
  <2>5. n \in Nat /\ n - 1 = 0
    BY <2>1, <2>2, <2>4
  <2>6. n = 1
    BY <2>5
  <2>7. QED BY <2>1, <2>2, <2>6
<1>4. QED BY <1>1, <1>2, <1>3

\* Nothing has been sent at the start.
LEMMA InitFollow == Init => FollowInv
BY DEF Init, ProxyInit, FollowInv, Target, PauseFor

\* While messages arrive, every step keeps what the ProxyWorker was asked last.
LEMMA FollowStep ==
  ~MessagesCanFail => (PipelineInv /\ FollowInv /\ [Next]_vars => FollowInv')
<1> SUFFICES ASSUME ~MessagesCanFail, PipelineInv, FollowInv, [Next]_vars PROVE FollowInv'
  OBVIOUS
<1>1. DevTyped /\ ProxyInv /\ JobsInv /\ FateInv /\ messages \in Seq(Message)
  BY DEF PipelineInv, DevTyped
<1>2. ASSUME NEW m \in Message, Send(m), UNCHANGED torndown PROVE FollowInv'
  <2>1. CASE torndown = "no"
    <3>1. messages' = Append(messages, m) /\ lastSent' = m
      BY <1>2, <2>1 DEF Send
    <3>2. messages' # <<>> /\ messages'[Len(messages')] = lastSent'
      BY <1>1, <3>1, LastFacts
    <3>3. QED BY <3>2 DEF FollowInv
  <2>2. CASE torndown # "no"
    BY <1>2, <2>2 DEF FollowInv
  <2>3. QED BY <2>1, <2>2
<1>3. ASSUME UNCHANGED <<messages, ready, torndown, lastSent, proxyData>> PROVE FollowInv'
  BY <1>3 DEF FollowInv, Target
<1>4. \A b \in 0..MaxBundles : PauseFor(b) \in Message /\ PlayFor(b) \in Message
  BY SentMessages
<1>5. ASSUME NEW changed \in BOOLEAN, ConfigUpdate(changed) PROVE FollowInv'
  BY <1>2, <1>4, <1>5, DevServerAssumption DEF ConfigUpdate
<1>6. CASE ProxyWorkerReady
  <2>1. /\ torndown = "no" /\ ~ready /\ ready' = TRUE /\ proxyData' = Undefined
        /\ UNCHANGED <<messages, torndown, lastSent>>
    BY <1>6 DEF ProxyWorkerReady
  <2>2. QED BY <2>1 DEF FollowInv, Target
<1>7. CASE Deliver
  <2>1. /\ messages # <<>> /\ ready /\ messages' = Tail(messages)
        /\ UNCHANGED <<ready, torndown, lastSent>>
        /\ torndown = "no" => Handle(Head(messages))
    BY <1>7 DEF Deliver
  <2> SUFFICES ASSUME torndown = "no" PROVE FollowInv'
    BY <2>1 DEF FollowInv
  <2>2. messages[Len(messages)] = lastSent
    BY <2>1 DEF FollowInv
  <2>3. CASE Tail(messages) # <<>>
    <3>1. messages'[Len(messages')] = lastSent'
      BY <1>1, <2>1, <2>2, <2>3, LastFacts
    <3>2. QED BY <2>1, <2>3, <3>1 DEF FollowInv
  <2>4. CASE Tail(messages) = <<>>
    <3>1. Head(messages) = lastSent
      BY <1>1, <2>1, <2>2, <2>4, LastFacts
    <3>2. proxyData' = Target(lastSent)
      BY <2>1, <3>1 DEF Handle, Pause, Play, Target
    <3>3. QED BY <2>1, <2>4, <3>2 DEF FollowInv, Target
  <2>5. QED BY <2>3, <2>4
<1>8. CASE DeliveryFails
  BY <1>8 DEF DeliveryFails
<1>9. CASE BundleStart
  BY <1>2, <1>4, <1>9, DevServerAssumption DEF BundleStart
<1>10. ASSUME NEW remote \in RemoteModes, BundleComplete(remote) PROVE FollowInv'
  <2>1. PICK id \in 0..MaxBundles : Send(PauseFor(id))
    <3>1. currentBundleId + 1 \in 0..MaxBundles
      BY <1>1, <1>10, DevServerAssumption DEF BundleComplete, DevTyped
    <3>2. QED BY <1>10, <3>1 DEF BundleComplete
  <2>2. QED BY <1>2, <1>4, <1>10, <2>1 DEF BundleComplete
<1>11. ASSUME NEW rt \in Runtimes, ReloadComplete(rt) PROVE FollowInv'
  <2>1. Send(PlayFor(Current(rt).id)) /\ UNCHANGED torndown /\ jobs[rt] # <<>>
    BY <1>11 DEF ReloadComplete, Running
  <2>2. Current(rt) \in Job
    BY <1>1, <2>1 DEF Current, DevTyped
  <2>3. Current(rt).id \in 0..MaxBundles
    BY <2>2 DEF Job
  <2>4. QED BY <1>2, <1>4, <2>1, <2>3
<1>12. ASSUME NEW rt \in Runtimes,
              \/ TeardownRuntime(rt) \/ Install(rt) \/ Ignore(rt)
              \/ CheckNewest(rt) \/ ReloadFails(rt)
       PROVE  FollowInv'
  BY <1>3, <1>12 DEF TeardownRuntime, Install, Ignore, CheckNewest, ReloadFails, proxyVars
<1>13. CASE BeginTeardown \/ CompleteTeardown
  BY <1>13 DEF BeginTeardown, CompleteTeardown, FollowInv
<1>14. CASE (\E r \in Requests : Client(r)) \/ UNCHANGED vars
  BY <1>3, <1>14, ClientStep DEF pipeline
<1>15. QED BY <1>5, <1>6, <1>7, <1>8, <1>9, <1>10, <1>11, <1>12, <1>13, <1>14 DEF Next

\* A message about the newest bundle, or about none, joins in order.
LEMMA OrderedAppend ==
  ASSUME NEW s \in Seq(Message), NEW m \in Message,
         NEW low \in 0..MaxBundles, NEW high \in 0..MaxBundles, NEW new \in 0..MaxBundles,
         Ordered(s), Within(s, low, high), low <= high, high <= new,
         m.bundle = 0 \/ m.bundle = new
  PROVE  Ordered(Append(s, m)) /\ Within(Append(s, m), low, new)
<1> USE DevServerAssumption
<1> DEFINE t == Append(s, m)
<1>1. /\ Len(s) \in Nat /\ Len(t) = Len(s) + 1
      /\ \A i \in 1..Len(s) : t[i] = s[i] /\ s[i] \in Message
      /\ t[Len(s) + 1] = m
  BY AppendFacts
<1> HIDE DEF t
<1>2. \A i \in 1..Len(t) : i \in 1..Len(s) \/ (i = Len(s) + 1 /\ t[i] = m)
  BY <1>1
<1>3. ASSUME NEW i \in 1..Len(s)
      PROVE  /\ t[i].bundle = s[i].bundle /\ s[i].bundle \in 0..MaxBundles
             /\ s[i].bundle # 0 => low <= s[i].bundle
             /\ s[i].bundle <= new
  <2>1. t[i].bundle = s[i].bundle /\ s[i].bundle \in 0..MaxBundles
    BY <1>1 DEF Message
  <2>2. (s[i].bundle # 0 => low <= s[i].bundle) /\ s[i].bundle <= high
    BY DEF Within
  <2>3. QED BY <2>1, <2>2
<1>4. Within(t, low, new)
  <2> SUFFICES ASSUME NEW i \in 1..Len(t)
               PROVE  (t[i].bundle # 0 => low <= t[i].bundle) /\ t[i].bundle <= new
    BY DEF Within
  <2>1. CASE i \in 1..Len(s)
    BY <1>3, <2>1
  <2>2. CASE t[i] = m
    BY <2>2
  <2>3. QED BY <1>2, <2>1, <2>2
<1>5. Ordered(t)
  <2> SUFFICES ASSUME NEW i \in 1..Len(t), NEW j \in 1..Len(t), i < j, t[j].bundle # 0
               PROVE  t[i].bundle <= t[j].bundle
    BY DEF Ordered
  <2>1. i \in 1..Len(s)
    BY <1>1
  <2>2. CASE j \in 1..Len(s)
    BY <1>3, <2>1, <2>2 DEF Ordered
  <2>3. CASE t[j] = m
    BY <1>3, <2>1, <2>3
  <2>4. QED BY <1>2, <2>2, <2>3
<1>6. QED BY <1>4, <1>5 DEF t

\* What waits behind a message about a bundle is about no older one.
LEMMA OrderedTail ==
  ASSUME NEW s \in Seq(Message), s # <<>>,
         NEW low \in 0..MaxBundles, NEW high \in 0..MaxBundles,
         Ordered(s), Within(s, low, high)
  PROVE  /\ Ordered(Tail(s)) /\ Within(Tail(s), low, high)
         /\ Within(Tail(s), Head(s).bundle, high)
         /\ Head(s).bundle \in 0..MaxBundles /\ Head(s).bundle <= high
         /\ Head(s).bundle # 0 => low <= Head(s).bundle
<1> USE DevServerAssumption
<1> DEFINE t == Tail(s)
<1>1. /\ Len(s) \in Nat \ {0} /\ Len(t) = Len(s) - 1
      /\ \A i \in 1..Len(t) : i + 1 \in 1..Len(s) /\ t[i] = s[i + 1]
      /\ Head(s) = s[1] /\ s[1] \in Message
  BY TailFacts
<1> HIDE DEF t
<1>2. 1 \in 1..Len(s) /\ \A i \in 1..Len(t) : 1 < i + 1
  BY <1>1
<1>3. Ordered(t)
  <2> SUFFICES ASSUME NEW i \in 1..Len(t), NEW j \in 1..Len(t), i < j, t[j].bundle # 0
               PROVE  t[i].bundle <= t[j].bundle
    BY DEF Ordered
  <2>1. i + 1 \in 1..Len(s) /\ j + 1 \in 1..Len(s) /\ i + 1 < j + 1
    BY <1>1
  <2>2. QED BY <1>1, <2>1 DEF Ordered
<1>4. Within(t, low, high)
  BY <1>1 DEF Within
<1>5. Within(t, s[1].bundle, high)
  BY <1>1, <1>2 DEF Within, Ordered
<1>6. /\ s[1].bundle \in 0..MaxBundles /\ s[1].bundle <= high
      /\ s[1].bundle # 0 => low <= s[1].bundle
  BY <1>1, <1>2 DEF Within, Message
<1>7. QED BY <1>1, <1>3, <1>4, <1>5, <1>6 DEF t

\* No message and no bundle at the start.
LEMMA InitOrder == Init => OrderInv
<1> SUFFICES ASSUME Init PROVE OrderInv
  OBVIOUS
<1>1. /\ messages = <<>> /\ announced = 0 /\ currentBundleId = 0 /\ proxyData = Undefined
      /\ lastSent.type = "pause"
  BY DEF Init, ProxyInit, PauseFor
<1>2. /\ stage["remote"] = "waiting" /\ jobs["remote"] = <<>> /\ stage["local"] = "waiting"
  BY DEF Init, Runtimes
<1>3. Ordered(messages) /\ Within(messages, announced, currentBundleId)
  BY <1>1 DEF Ordered, Within
<1>4. PendingIn(jobs["remote"]) = {}
  BY <1>2 DEF PendingIn
<1>5. QED BY <1>1, <1>2, <1>3, <1>4 DEF OrderInv, OnlyLocal, InOrder

\* Only the local runtime has reloads, and it never awaits anything after the
\* comparison.
LEMMA OnlyLocalStep ==
  ChecksLast => (PipelineInv /\ OnlyLocal /\ [Next]_vars => OnlyLocal')
<1> SUFFICES ASSUME ChecksLast, PipelineInv, OnlyLocal, [Next]_vars PROVE OnlyLocal'
  OBVIOUS
<1>1. /\ DevTyped /\ JobsInv /\ "local" \in Runtimes /\ "remote" \in Runtimes
      /\ jobs["remote"] \in Seq(Job) /\ JobsSorted(jobs["remote"])
  BY DEF PipelineInv, DevTyped, JobsInv, Runtimes
<1>2. ASSUME UNCHANGED <<jobs, stage>> PROVE OnlyLocal'
  BY <1>2 DEF OnlyLocal, PendingIn
<1>3. CASE \/ \E changed \in BOOLEAN : ConfigUpdate(changed)
           \/ ProxyWorkerReady \/ Deliver \/ DeliveryFails \/ BundleStart \/ CompleteTeardown
  BY <1>2, <1>3
  DEF ConfigUpdate, ProxyWorkerReady, Deliver, DeliveryFails, BundleStart, CompleteTeardown
<1>4. ASSUME NEW remote \in RemoteModes, BundleComplete(remote) PROVE OnlyLocal'
  <2>1. remote = FALSE
    BY DEF ChecksLast
  <2>2. stage' = stage /\ jobs'["remote"] = Append(jobs["remote"], Teardown)
    BY <1>1, <1>4, <2>1 DEF BundleComplete
  <2>3. Teardown \in Job /\ Teardown.op # "reload" /\ \A b : Teardown # Reload(b)
    BY DevServerAssumption DEF Teardown, Job, Reload
  <2>4. \A b \in PendingIn(jobs'["remote"]) : b \in PendingIn(jobs["remote"])
    BY <1>1, <2>2, <2>3, PendingAppend
  <2>5. QED BY <2>2, <2>4 DEF OnlyLocal, PendingIn
<1>5. CASE BeginTeardown
  <2>1. stage' = stage /\ jobs'["remote"] = jobs["remote"]
    BY <1>1, <1>5 DEF BeginTeardown, DevTyped
  <2>2. QED BY <2>1 DEF OnlyLocal, PendingIn
<1>6. ASSUME NEW rt \in Runtimes, Running(rt), Unlock(rt) PROVE OnlyLocal'
  <2>1. stage'["remote"] = "waiting" /\ stage'["local"] # "checked"
    BY <1>1, <1>6 DEF Unlock, OnlyLocal, DevTyped
  <2>2. jobs'["remote"] = jobs["remote"]
        \/ (jobs["remote"] # <<>> /\ jobs'["remote"] = Tail(jobs["remote"]))
    BY <1>1, <1>6 DEF Unlock, DevTyped, Running
  <2>3. PendingIn(jobs'["remote"]) = {}
    BY <1>1, <2>2, PendingTail DEF OnlyLocal
  <2>4. QED BY <2>1, <2>3 DEF OnlyLocal, PendingIn
<1>7. ASSUME NEW rt \in Runtimes, Install(rt) PROVE OnlyLocal'
  <2>1. /\ jobs[rt] # <<>> /\ Head(jobs[rt]).op = "reload"
        /\ stage' = [stage EXCEPT ![rt] = "updating"] /\ jobs' = jobs
    BY <1>7 DEF Install, Running, Current
  <2>2. rt # "remote"
    <3> SUFFICES ASSUME rt = "remote" PROVE FALSE
      OBVIOUS
    <3>1. Head(jobs["remote"]).id \in PendingIn(jobs["remote"])
      BY <1>1, <2>1, PendingTail
    <3>2. QED BY <3>1 DEF OnlyLocal
  <2>3. stage'["remote"] = "waiting" /\ stage'["local"] # "checked"
    BY <1>1, <2>1, <2>2 DEF OnlyLocal, DevTyped
  <2>4. QED BY <2>1, <2>3 DEF OnlyLocal, PendingIn
<1>8. ASSUME NEW rt \in Runtimes, CheckNewest(rt) PROVE OnlyLocal'
  BY <1>8 DEF CheckNewest, AwaitsAfterCheck, ChecksLast, OnlyLocal
<1>9. ASSUME NEW rt \in Runtimes,
             \/ TeardownRuntime(rt) \/ Ignore(rt) \/ ReloadComplete(rt) \/ ReloadFails(rt)
      PROVE  OnlyLocal'
  BY <1>6, <1>9 DEF TeardownRuntime, Ignore, ReloadComplete, ReloadFails
<1>10. CASE (\E r \in Requests : Client(r)) \/ UNCHANGED vars
  BY <1>2, <1>10, ClientStep DEF pipeline
<1>11. QED BY <1>3, <1>4, <1>5, <1>7, <1>8, <1>9, <1>10 DEF Next

\* Messages are sent, and delivered, in the order of the bundles.
LEMMA InOrderStep ==
  ChecksLast => (PipelineInv /\ OrderInv /\ [Next]_vars => InOrder')
<1> SUFFICES ASSUME ChecksLast, PipelineInv, OrderInv, [Next]_vars PROVE InOrder'
  OBVIOUS
<1> USE DevServerAssumption
<1>1. /\ DevTyped /\ JobsInv /\ FateInv /\ OnlyLocal /\ InOrder
      /\ messages \in Seq(Message) /\ announced \in 0..MaxBundles
      /\ currentBundleId \in 0..MaxBundles
  BY DEF PipelineInv, DevTyped, OrderInv
<1>2. ASSUME UNCHANGED <<messages, lastSent, announced, currentBundleId, proxyData>>,
             torndown' = "no" => torndown = "no"
      PROVE  InOrder'
  <2>1. Ordered(messages') /\ Within(messages', announced', currentBundleId')
    BY <1>1, <1>2 DEF InOrder
  <2>2. (Ordered(messages) /\ Within(messages, announced, currentBundleId))'
    BY <2>1 DEF Ordered, Within
  <2>3. QED BY <1>1, <1>2, <2>2 DEF InOrder
<1>3. ASSUME NEW m \in Message, NEW new \in 0..MaxBundles, Send(m),
             UNCHANGED <<torndown, announced, proxyData>>,
             currentBundleId' = new, currentBundleId <= new,
             m.bundle = 0 \/ m.bundle = new,
             m.type = "play" => m.bundle = new
      PROVE  torndown = "no" => InOrder'
  <2> SUFFICES ASSUME torndown = "no" PROVE InOrder'
    OBVIOUS
  <2>1. messages' = Append(messages, m) /\ lastSent' = m
    BY <1>3 DEF Send
  <2>2. Ordered(messages') /\ Within(messages', announced, new)
    BY <1>1, <1>3, <2>1, OrderedAppend DEF InOrder
  <2>3. (Ordered(messages) /\ Within(messages, announced, currentBundleId))'
    BY <1>3, <2>2 DEF Ordered, Within
  <2>4. announced <= currentBundleId /\ (proxyData # Undefined => announced <= proxyData)
    BY <1>1 DEF InOrder
  <2>5. announced' <= currentBundleId'
    BY <1>1, <1>3, <2>4
  <2>6. QED BY <1>3, <2>1, <2>3, <2>4, <2>5 DEF InOrder
<1>4. ASSUME torndown # "no", UNCHANGED <<torndown, announced, proxyData, messages>>,
             NEW new \in 0..MaxBundles,
             currentBundleId' = new, currentBundleId <= new
      PROVE  InOrder'
  <2>1. Within(messages, announced, currentBundleId) /\ announced <= currentBundleId
    BY <1>1 DEF InOrder
  <2>2. \A i \in 1..Len(messages) : messages[i].bundle \in 0..MaxBundles
    <3>1. \A i \in 1..Len(messages) : messages[i] \in Message
      BY <1>1
    <3>2. QED BY <3>1 DEF Message
  <2>3. Within(messages, announced, new) /\ announced <= new
    BY <1>1, <1>4, <2>1, <2>2 DEF Within
  <2>4. (Ordered(messages) /\ Within(messages, announced, currentBundleId))'
    BY <1>1, <1>4, <2>3 DEF Ordered, Within, InOrder
  <2>5. QED BY <1>1, <1>4, <2>3, <2>4 DEF InOrder
<1>5. ASSUME NEW m \in Message, NEW new \in 0..MaxBundles, Send(m),
             UNCHANGED <<torndown, announced, proxyData>>,
             currentBundleId' = new, currentBundleId <= new,
             m.bundle = 0 \/ m.bundle = new,
             m.type = "play" => m.bundle = new
      PROVE  InOrder'
  BY <1>3, <1>4, <1>5 DEF Send
<1>6. /\ \A b \in 0..MaxBundles :
           /\ PauseFor(b) \in Message /\ PauseFor(b).type # "play" /\ PauseFor(b).bundle = b
           /\ PlayFor(b) \in Message /\ PlayFor(b).bundle = b
      /\ currentBundleId <= currentBundleId
  BY <1>1, SentMessages
<1>7. CASE (\E changed \in BOOLEAN : ConfigUpdate(changed)) \/ BundleStart
  <2>1. Send(PauseFor(0)) /\ UNCHANGED <<proxyVars, torndown, announced, currentBundleId>>
    BY <1>7 DEF ConfigUpdate, BundleStart
  <2>2. UNCHANGED proxyData
    BY <2>1 DEF proxyVars
  <2>3. PauseFor(0) \in Message /\ PauseFor(0).type # "play" /\ PauseFor(0).bundle = 0
    BY <1>6
  <2>4. QED BY <1>1, <1>5, <1>6, <2>1, <2>2, <2>3
<1>8. CASE ProxyWorkerReady
  <2>1. /\ proxyData' = Undefined
        /\ UNCHANGED <<messages, lastSent, announced, currentBundleId, torndown>>
    BY <1>8 DEF ProxyWorkerReady
  <2>2. (Ordered(messages) /\ Within(messages, announced, currentBundleId))'
    BY <1>1, <2>1 DEF InOrder, Ordered, Within
  <2>3. QED BY <1>1, <2>1, <2>2 DEF InOrder
<1>9. CASE Deliver
  <2>1. /\ messages # <<>> /\ messages' = Tail(messages)
        /\ UNCHANGED <<currentBundleId, torndown, lastSent>>
        /\ Handle(Head(messages)) \/ UNCHANGED <<proxyVars, announced>>
    BY <1>9 DEF Deliver
  <2>2. PICK h \in Message : h = Head(messages)
    BY <1>1, <2>1
  <2>3. /\ Ordered(Tail(messages))
        /\ Within(Tail(messages), announced, currentBundleId)
        /\ Within(Tail(messages), h.bundle, currentBundleId)
        /\ h.bundle \in 0..MaxBundles /\ h.bundle <= currentBundleId
        /\ h.bundle # 0 => announced <= h.bundle
    BY <1>1, <2>1, <2>2, OrderedTail DEF InOrder
  <2>4. /\ torndown = "no" /\ lastSent.type = "play" => lastSent.bundle = currentBundleId
        /\ announced <= currentBundleId /\ (proxyData # Undefined => announced <= proxyData)
    BY <1>1 DEF InOrder
  <2>5. ASSUME Within(Tail(messages), announced', currentBundleId),
               announced' <= currentBundleId, proxyData' # Undefined => announced' <= proxyData'
        PROVE  InOrder'
    <3>1. (Ordered(messages) /\ Within(messages, announced, currentBundleId))'
      BY <2>1, <2>3, <2>5 DEF Ordered, Within
    <3>2. QED BY <2>1, <2>4, <2>5, <3>1 DEF InOrder
  <2>6. CASE UNCHANGED <<proxyVars, announced>>
    BY <2>3, <2>4, <2>5, <2>6 DEF proxyVars
  <2>7. CASE h.type = "pause" /\ Handle(h)
    <3>1. proxyData' = Undefined /\ (announced' = h.bundle \/ announced' = announced)
      BY <2>7 DEF Handle, Pause
    <3>2. QED BY <2>3, <2>4, <2>5, <3>1
  <2>8. CASE h.type = "play" /\ Handle(h)
    <3>1. proxyData' = h.bundle /\ announced' = announced
      BY <2>8 DEF Handle, Play
    <3>2. h.bundle \in PlaysIn(messages)
      BY <1>1, <2>1, <2>2, <2>8, PlaysTail
    <3>3. h.bundle \in Bundles
      BY <1>1, <3>2 DEF FateInv
    <3>4. h.bundle # 0
      BY <1>1, <3>3 DEF Bundles
    <3>5. QED BY <2>3, <2>4, <2>5, <3>1, <3>4
  <2>9. QED BY <2>1, <2>2, <2>6, <2>7, <2>8 DEF Handle
<1>10. CASE DeliveryFails
  BY <1>10 DEF DeliveryFails, ChecksLast
<1>11. ASSUME NEW remote \in RemoteModes, BundleComplete(remote) PROVE InOrder'
  <2>1. PICK id : id = currentBundleId + 1
    OBVIOUS
  <2>2. /\ id <= MaxBundles /\ currentBundleId' = id /\ Send(PauseFor(id))
        /\ UNCHANGED <<proxyVars, torndown, announced>>
    BY <1>11, <2>1 DEF BundleComplete
  <2>3. id \in 0..MaxBundles /\ currentBundleId <= id
    BY <1>1, <2>1, <2>2
  <2>4. UNCHANGED proxyData
    BY <2>2 DEF proxyVars
  <2>5. PauseFor(id) \in Message /\ PauseFor(id).type # "play" /\ PauseFor(id).bundle = id
    BY <1>6, <2>3
  <2>6. QED BY <1>5, <2>2, <2>3, <2>4, <2>5
<1>12. ASSUME NEW rt \in Runtimes, ReloadComplete(rt) PROVE InOrder'
  <2>1. /\ Send(PlayFor(Current(rt).id)) /\ MayComplete(rt)
        /\ UNCHANGED <<proxyVars, torndown, announced, currentBundleId>>
    BY <1>12 DEF ReloadComplete
  <2>2. Current(rt).id = currentBundleId
    BY <1>1, <2>1 DEF MayComplete, OnlyLocal, Superseded, Runtimes
  <2>3. UNCHANGED proxyData
    BY <2>1 DEF proxyVars
  <2>4. /\ PlayFor(currentBundleId) \in Message
        /\ PlayFor(currentBundleId).bundle = currentBundleId
    BY <1>1, <1>6
  <2>5. QED BY <1>1, <1>5, <1>6, <2>1, <2>2, <2>3, <2>4
<1>13. ASSUME NEW rt \in Runtimes,
              \/ TeardownRuntime(rt) \/ Install(rt) \/ Ignore(rt)
              \/ CheckNewest(rt) \/ ReloadFails(rt)
       PROVE  InOrder'
  BY <1>2, <1>13 DEF TeardownRuntime, Install, Ignore, CheckNewest, ReloadFails, proxyVars
<1>14. CASE BeginTeardown \/ CompleteTeardown
  BY <1>2, <1>14 DEF BeginTeardown, CompleteTeardown, proxyVars
<1>15. CASE (\E r \in Requests : Client(r)) \/ UNCHANGED vars
  BY <1>2, <1>15, ClientStep DEF pipeline
<1>16. QED BY <1>7, <1>8, <1>9, <1>10, <1>11, <1>12, <1>13, <1>14, <1>15 DEF Next

-----------------------------------------------------------------------------
(* Theorems. *)

\* Type correctness of the whole pipeline (DevEnv.ts and the controllers).
THEOREM PipelineTypeCorrect == Spec => []TypeOK
<1>1. PipelineInv => TypeOK
  BY DEF PipelineInv, DevTyped, ProxyInv, TypeOK
<1>2. QED BY <1>1, InitPipeline, PipelineStep, PTL DEF Spec

\* However often the ProxyWorker is started anew and messages to it fail or are
\* repeated, no request is lost or answered twice, none is held back while it
\* plays, and only GET and HEAD requests reach the user's Worker twice
\* (createProxyWorker, emitReadyEvent and processQueue).
THEOREM RestartsKeepRequests ==
  Spec => [](OnePlace /\ NothingHeldWhilePlaying /\ OnlyReadsAreResent)
<1>1. PipelineInv => OnePlace /\ NothingHeldWhilePlaying /\ OnlyReadsAreResent
  BY DEF PipelineInv, ProxyInv, QueueDiscipline
<1>2. QED BY <1>1, InitPipeline, PipelineStep, PTL DEF Spec

\* For any number of bundles, of retries of messages and of switches between the
\* runtimes: a bundle whose reload failed (the catch-block of #onBundleComplete)
\* is neither played nor on its way to be played.
THEOREM FailedIsNeverPlayed == Spec => []NeverPlaysFailed
<1>1. PipelineInv => NeverPlaysFailed
  <2> SUFFICES ASSUME PipelineInv PROVE NeverPlaysFailed
    OBVIOUS
  <2>1. proxyData \notin failed /\ failed \cap PlaysIn(messages) = {}
    BY DEF PipelineInv, FateInv
  <2>2. ASSUME NEW i \in DOMAIN messages, messages[i].type = "play"
        PROVE  messages[i].bundle \in PlaysIn(messages)
    <3>1. messages \in Seq(Message)
      BY DEF PipelineInv, DevTyped
    <3>2. i \in 1..Len(messages) /\ messages[i] \in Message
      BY <3>1
    <3>3. messages[i].bundle \in 0..MaxBundles
      BY <3>2 DEF Message
    <3>4. QED BY <2>2, <3>2, <3>3 DEF PlaysIn
  <2>3. QED BY <2>1, <2>2 DEF NeverPlaysFailed
<1>2. QED BY <1>1, InitPipeline, PipelineStep, PTL DEF Spec

\* The mutex of a runtime applies updates in the order of the events: no bundle
\* is handed to Miniflare, or uploaded, after a newer one (#onBundleComplete).
THEOREM BundlesAreInstalledInOrder == Spec => UpdatesInOrder
<1>1. ASSUME PipelineInv, [Next]_vars
      PROVE  [\A rt \in Runtimes :
                installed'[rt] # 0 => installed'[rt] >= installed[rt]]_vars
  <2> SUFFICES ASSUME NEW rt \in Runtimes, installed'[rt] # 0
               PROVE  installed'[rt] >= installed[rt]
    OBVIOUS
  <2>1. DevTyped /\ JobsInv /\ installed[rt] \in 0..MaxBundles
    BY <1>1 DEF PipelineInv, DevTyped
  <2>2. CASE installed'[rt] = installed[rt]
    BY <2>1, <2>2, DevServerAssumption
  <2>3. ASSUME NEW o \in Runtimes, Install(o) PROVE installed'[rt] >= installed[rt]
    <3>1. /\ jobs[o] # <<>> /\ Head(jobs[o]).op = "reload"
          /\ installed' = [installed EXCEPT ![o] = Head(jobs[o]).id]
      BY <2>3 DEF Install, Running, Current
    <3>2. CASE o # rt
      BY <2>1, <2>2, <3>1, <3>2 DEF DevTyped
    <3>3. CASE o = rt
      <4>1. jobs[rt] \in Seq(Job) /\ JobsSorted(jobs[rt])
        BY <2>1 DEF DevTyped, JobsInv
      <4>2. Head(jobs[rt]).id \in PendingIn(jobs[rt])
        BY <3>1, <3>3, <4>1, PendingTail
      <4>3. installed[rt] <= Head(jobs[rt]).id /\ Head(jobs[rt]).id \in 1..MaxBundles
        BY <2>1, <4>2 DEF JobsInv, PendingIn
      <4>4. installed'[rt] = Head(jobs[rt]).id
        BY <2>1, <3>1, <3>3 DEF DevTyped
      <4>5. QED BY <2>1, <4>3, <4>4, DevServerAssumption
    <3>4. QED BY <3>2, <3>3
  <2>4. \/ \E o \in Runtimes : Install(o)
        \/ UNCHANGED installed
        \/ \E o \in Runtimes : installed' = [installed EXCEPT ![o] = 0]
    <3>1. CASE (\E r \in Requests : Client(r)) \/ UNCHANGED vars
      BY <1>1, <3>1, ClientStep DEF pipeline
    <3>2. CASE BeginTeardown
      BY <3>2 DEF BeginTeardown, Runtimes
    <3>3. CASE \E o \in Runtimes : TeardownRuntime(o)
      BY <3>3 DEF TeardownRuntime
    <3>4. CASE UNCHANGED installed
      BY <3>4
    <3>5. QED BY <1>1, <3>1, <3>2, <3>3, <3>4
              DEF Next, ConfigUpdate, ProxyWorkerReady, Deliver, DeliveryFails, BundleStart,
                  BundleComplete, Ignore, CheckNewest, ReloadComplete, ReloadFails,
                  CompleteTeardown
  <2>5. CASE \E o \in Runtimes : installed' = [installed EXCEPT ![o] = 0]
    BY <2>1, <2>2, <2>5 DEF DevTyped
  <2>6. QED BY <2>2, <2>3, <2>4, <2>5
<1>2. QED BY <1>1, InitPipeline, PipelineStep, PTL DEF Spec, UpdatesInOrder

\* If messages arrive, the ProxyWorker is as the controller asked last once all
\* are delivered, also when it was started anew in between
\* (sendMessageToProxyWorker and its mutex).
THEOREM ProxyFollowsController == ~MessagesCanFail => (Spec => []FollowsController)
<1> SUFFICES ASSUME ~MessagesCanFail PROVE Spec => []FollowsController
  OBVIOUS
<1>1. PipelineInv /\ FollowInv => FollowsController
  BY DEF FollowInv, FollowsController, Target
<1>2. Init => PipelineInv /\ FollowInv
  BY InitPipeline, InitFollow
<1>3. (PipelineInv /\ FollowInv) /\ [Next]_vars => (PipelineInv /\ FollowInv)'
  BY PipelineStep, FollowStep
<1>4. QED BY <1>1, <1>2, <1>3, PTL DEF Spec

\* If no runtime awaits anything between its comparison of bundle ids and
\* reloadComplete, a bundle is never played after the pause for a newer one.
THEOREM SupersededIsNeverPlayed == ChecksLast => (Spec => []NeverPlaysSuperseded)
<1> SUFFICES ASSUME ChecksLast PROVE Spec => []NeverPlaysSuperseded
  OBVIOUS
<1>1. PipelineInv /\ OrderInv => NeverPlaysSuperseded
  <2> SUFFICES ASSUME PipelineInv, OrderInv, proxyData # Undefined PROVE proxyData >= announced
    BY DEF NeverPlaysSuperseded
  <2>1. announced <= proxyData
    BY DEF OrderInv, InOrder
  <2>2. announced \in Nat /\ proxyData \in Nat
    BY DEF PipelineInv, DevTyped, FateInv, Bundles
  <2>3. QED BY <2>1, <2>2
<1>2. Init => PipelineInv /\ OrderInv
  BY InitPipeline, InitOrder
<1>3. (PipelineInv /\ OrderInv) /\ [Next]_vars => (PipelineInv /\ OrderInv)'
  BY PipelineStep, OnlyLocalStep, InOrderStep DEF OrderInv
<1>4. QED BY <1>1, <1>2, <1>3, PTL DEF Spec

\* Under the same condition the bundle that is played when nothing is left to be
\* done is the latest one.
THEOREM LatestIsPlayedAtRest == ChecksLast => (Spec => []RestsOnLatest)
<1> SUFFICES ASSUME ChecksLast PROVE Spec => []RestsOnLatest
  OBVIOUS
<1> DEFINE Inv == PipelineInv /\ FollowInv /\ OrderInv
<1>1. Inv => RestsOnLatest
  BY DEF FollowInv, OrderInv, InOrder, RestsOnLatest, AtRest, Target
<1>2. Init => Inv
  BY InitPipeline, InitFollow, InitOrder
<1>3. Inv /\ [Next]_vars => Inv'
  BY PipelineStep, FollowStep, OnlyLocalStep, InOrderStep DEF OrderInv, ChecksLast
<1> HIDE DEF Inv
<1>4. QED BY <1>1, <1>2, <1>3, PTL DEF Spec

=============================================================================
