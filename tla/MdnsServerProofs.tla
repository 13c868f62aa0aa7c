-------------------------- MODULE MdnsServerProofs --------------------------
(***************************************************************************)
(* For every program, every set of services and every network: mdnsd_stop  *)
(* frees what the server owns only when the thread has left, a thread that *)
(* waits for packets has nothing else to do unless a byte in the pipe is   *)
(* there or about to come, the variables have their types, and the server  *)
(* implements ServiceDirectory.  For every program that adds records in    *)
(* order, every reply is complete.  Every packet sent that the compression *)
(* pointers reach into can be read again.                                  *)
(***************************************************************************)
EXTENDS MdnsServer, WellFoundedInduction, SequenceTheorems, TLAPS

\* The stop is acknowledged only by a thread in its last step, and freeing
\* waits for the acknowledgement (stop_flag in main_loop and mdnsd_stop).
StopInv ==
  /\ stopFlag = 2 => pc = "done"
  /\ freed => pc = "done"

\* A thread that has left takes no further step: every step of the thread
\* needs a place in main_loop.
LEMMA DoneIsFinal == ThreadNext => pc # "done"
BY DEF ThreadNext, CheckStop, Woken, Receive, ReceiveError, Question,
       SuppressKnown, AddRelated, Send, TakeAnnouncement, AnnounceType,
       AnnounceBrowse, Goodbye, Farewell

\* The thread never frees anything, and only its last step sets the flag.
LEMMA ThreadKeepsStopInv ==
  ASSUME StopInv, ThreadNext
  PROVE  StopInv'
<1>1. freed' = freed
  BY DEF ThreadNext, CheckStop, Woken, Receive, ReceiveError, Question,
         SuppressKnown, AddRelated, Send, TakeAnnouncement, AnnounceType,
         AnnounceBrowse, Goodbye, Farewell, ThreadOnly
<1>2. stopFlag' = stopFlag \/ pc' = "done"
  BY DEF ThreadNext, CheckStop, Woken, Receive, ReceiveError, Question,
         SuppressKnown, AddRelated, Send, TakeAnnouncement, AnnounceType,
         AnnounceBrowse, Goodbye, Farewell
<1>3. pc # "done"
  BY DoneIsFinal
<1> QED
  BY <1>1, <1>2, <1>3 DEF StopInv

\* The program sets the flag to 1 and frees at 2; it never moves the thread.
LEMMA ProgramKeepsStopInv ==
  ASSUME StopInv, ProgramNext
  PROVE  StopInv'
<1>1. pc' = pc
  BY DEF ProgramNext, SetHostname, AddRR, RegisterSvc, NotifyServer,
         StopServer, WakeServer, FreeServer, thread
<1>2. CASE StopServer
  BY <1>1, <1>2 DEF StopServer, StopInv
<1>3. CASE FreeServer
  BY <1>1, <1>3 DEF FreeServer, StopInv
<1>4. CASE SetHostname \/ AddRR \/ RegisterSvc \/ NotifyServer \/ WakeServer
  <2>1. stopFlag' = stopFlag /\ freed' = freed
    BY <1>4 DEF SetHostname, AddRR, RegisterSvc, NotifyServer, WakeServer, signals
  <2> QED
    BY <1>1, <2>1 DEF StopInv
<1> QED
  BY <1>2, <1>3, <1>4 DEF ProgramNext

LEMMA NextKeepsStopInv ==
  ASSUME StopInv, [Next]_vars
  PROVE  StopInv'
<1>1. CASE ThreadNext
  BY <1>1, ThreadKeepsStopInv
<1>2. CASE ProgramNext
  BY <1>2, ProgramKeepsStopInv
<1>3. ASSUME NEW q \in Queries, Arrive(q)
      PROVE  StopInv'
  BY <1>3 DEF Arrive, StopInv, signals, thread
<1>4. CASE UNCHANGED vars
  BY <1>4 DEF StopInv, vars, signals, thread
<1> QED
  BY <1>1, <1>2, <1>3, <1>4 DEF Next

\* Once mdnsd_stop frees the server, its thread is gone, whatever the program
\* registers and the network sends meanwhile.
THEOREM FreedOnlyWhenDoneAlways == Spec => []FreedOnlyWhenDone
<1>1. Init => StopInv
  BY DEF Init, StopInv
<1>2. StopInv /\ [Next]_vars => StopInv'
  BY NextKeepsStopInv
<1>3. StopInv => FreedOnlyWhenDone
  BY DEF StopInv, FreedOnlyWhenDone
<1> QED
  BY <1>1, <1>2, <1>3, PTL DEF Spec

----------------------------------------------------------------------------
\* No wake-up is lost: when the thread is about to wait, or waits, in select(),
\* a service that has yet to be announced, and a stop it has not seen, have a
\* byte in the pipe, or the call that made them has yet to write it.
NoLostWakeUp ==
  /\ pc \in {"check", "select"} /\ announce # <<>> => pipe > 0 \/ step = "notify"
  /\ pc = "select" /\ stopFlag = 1 => pipe > 0 \/ step = "wake"

WakeInv == pipe \in Nat /\ NoLostWakeUp

\* What the steps of the thread other than the loop's own do to the signals.
LEMMA AwayFromSelect ==
  ASSUME ThreadNext, ~CheckStop, ~Woken
  PROVE  /\ pipe' = pipe /\ step' = step
         /\ pc' # "select"
         /\ pc' = "check" => announce' = <<>>
<1>1. CASE Receive
  BY <1>1 DEF Receive, Parse, ThreadOnly, programVars
<1>2. CASE ReceiveError
  BY <1>2 DEF ReceiveError, Parse, ThreadOnly, programVars
<1>3. CASE Question
  BY <1>3 DEF Question, ThreadOnly, programVars
<1>4. CASE SuppressKnown
  BY <1>4 DEF SuppressKnown, ContinueWith, ThreadOnly, programVars
<1>5. CASE AddRelated
  BY <1>5 DEF AddRelated, ContinueWith, ThreadOnly, programVars
<1>6. CASE Send
  BY <1>6 DEF Send, ThreadOnly, programVars
<1>7. CASE TakeAnnouncement
  BY <1>7 DEF TakeAnnouncement, ThreadOnly, programVars
<1>8. CASE AnnounceType
  BY <1>8 DEF AnnounceType, ThreadOnly, programVars
<1>9. CASE AnnounceBrowse
  BY <1>9 DEF AnnounceBrowse, ContinueWith, ThreadOnly, programVars
<1>10. CASE Goodbye
  BY <1>10 DEF Goodbye, ThreadOnly, programVars
<1>11. CASE Farewell
  BY <1>11 DEF Farewell, ThreadOnly, programVars
<1> QED
  BY <1>1, <1>2, <1>3, <1>4, <1>5, <1>6, <1>7, <1>8, <1>9, <1>10, <1>11
  DEF ThreadNext

\* The thread goes to wait only with both lists and flag looked at.
LEMMA ThreadKeepsWakeInv ==
  ASSUME WakeInv, ThreadNext
  PROVE  WakeInv'
<1>1. CASE CheckStop
  BY <1>1 DEF CheckStop, ThreadOnly, programVars, shared, WakeInv, NoLostWakeUp
<1>2. CASE Woken
  BY <1>2 DEF Woken, ReadPipe, WakeInv, NoLostWakeUp
<1>3. CASE ~CheckStop /\ ~Woken
  BY <1>3, AwayFromSelect DEF WakeInv, NoLostWakeUp
<1> QED
  BY <1>1, <1>2, <1>3

\* What the program adds to a list or says by the flag, it follows with a byte.
LEMMA ProgramKeepsWakeInv ==
  ASSUME WakeInv, ProgramNext
  PROVE  WakeInv'
<1>1. pc' = pc
  BY DEF ProgramNext, SetHostname, AddRR, RegisterSvc, NotifyServer,
         StopServer, WakeServer, FreeServer, thread
<1>2. CASE SetHostname
  BY <1>1, <1>2 DEF SetHostname, Calling, Returned, signals, WakeInv, NoLostWakeUp
<1>3. CASE AddRR
  BY <1>1, <1>3 DEF AddRR, Calling, Returned, signals, WakeInv, NoLostWakeUp
<1>4. CASE RegisterSvc
  BY <1>1, <1>4 DEF RegisterSvc, Calling, signals, WakeInv, NoLostWakeUp
<1>5. CASE NotifyServer
  BY <1>1, <1>5 DEF NotifyServer, WritePipe, WakeInv, NoLostWakeUp
<1>6. CASE StopServer
  BY <1>1, <1>6 DEF StopServer, Calling, shared, WakeInv, NoLostWakeUp
<1>7. CASE WakeServer
  BY <1>1, <1>7 DEF WakeServer, WritePipe, WakeInv, NoLostWakeUp
<1>8. CASE FreeServer
  BY <1>1, <1>8 DEF FreeServer, Returned, shared, WakeInv, NoLostWakeUp
<1> QED
  BY <1>2, <1>3, <1>4, <1>5, <1>6, <1>7, <1>8 DEF ProgramNext

LEMMA NextKeepsWakeInv ==
  ASSUME WakeInv, [Next]_vars
  PROVE  WakeInv'
<1>1. CASE ThreadNext
  BY <1>1, ThreadKeepsWakeInv
<1>2. CASE ProgramNext
  BY <1>2, ProgramKeepsWakeInv
<1>3. ASSUME NEW q \in Queries, Arrive(q)
      PROVE  WakeInv'
  BY <1>3 DEF Arrive, WakeInv, NoLostWakeUp, programVars, shared, signals, thread
<1>4. CASE UNCHANGED vars
  BY <1>4 DEF WakeInv, NoLostWakeUp, vars, programVars, shared, signals, thread
<1> QED
  BY <1>1, <1>2, <1>3, <1>4 DEF Next

\* However the program's calls and the thread's packets interleave, the thread
\* never waits in select() for a wake-up that was already used: the reason why
\* every service is announced and mdnsd_stop returns.
THEOREM NeverALostWakeUp == Spec => []NoLostWakeUp
<1>1. Init => WakeInv
  BY DEF Init, WakeInv, NoLostWakeUp
<1>2. WakeInv /\ [Next]_vars => WakeInv'
  BY NextKeepsWakeInv
<1>3. WakeInv => NoLostWakeUp
  BY DEF WakeInv
<1> QED
  BY <1>1, <1>2, <1>3, PTL DEF Spec
----------------------------------------------------------------------------
(* Lists of records. *)

\* Induction along 0..n, with the predicate given by the set where it holds.
LEMMA InductionUpTo ==
  ASSUME NEW n \in Nat, NEW S, 0 \in S,
         \A m \in Nat : m < n /\ m \in S => m + 1 \in S
  PROVE  \A m \in 0..n : m \in S
<1> DEFINE R == {ss \in Nat \X Nat : ss[1] < ss[2]}
           Bad == {m \in Nat : m <= n /\ m \notin S}
<1>1. OpToRel(<, Nat) = R
  BY Zenon DEF OpToRel
<1>2. IsWellFoundedOn(R, Nat)
  BY <1>1, NatLessThanWellFounded, Zenon
<1>3. Bad = {}
  <2>1. SUFFICES ASSUME Bad # {} PROVE FALSE
    OBVIOUS
  <2>2. PICK m \in Bad : \A y \in Bad : ~(<<y, m>> \in R)
    <3>1. Bad \subseteq Nat
      OBVIOUS
    <3> HIDE DEF R, Bad
    <3>2. QED
      BY <1>2, <2>1, <3>1, WFMin
  <2>3. m \in Nat /\ m # 0 /\ m <= n /\ m \notin S
    OBVIOUS
  <2>4. m - 1 \in Nat /\ m - 1 < m /\ m - 1 < n /\ (m - 1) + 1 = m
    BY <2>3
  <2>5. m - 1 \notin Bad
    BY <2>2, <2>4
  <2>6. QED
    BY <2>3, <2>4, <2>5
<1>4. QED
  BY <1>3

\* The function by which Kept is defined exists, and is what it says.
LEMMA KeptFunction ==
  ASSUME NEW T, NEW list \in Seq(T), NEW S
  PROVE  \E f : /\ f[0] = <<>>
                /\ \A i \in 1..Len(list) :
                     f[i] = IF list[i] \in S THEN Append(f[i - 1], list[i]) ELSE f[i - 1]
                /\ Kept(list, S) = f[Len(list)]
<1> DEFINE N == Len(list)
           More(i, q) == IF list[i] \in S THEN Append(q, list[i]) ELSE q
           Body(f, n) == [i \in 0..n |-> IF i = 0 THEN <<>> ELSE More(i, f[i - 1])]
           Good == {n \in Nat : \E f : f = Body(f, n)}
<1>1. N \in Nat
  OBVIOUS
<1> HIDE DEF More
<1>2. 0 \in Good
  <2> DEFINE f == [i \in 0..0 |-> <<>>]
  <2>1. f = Body(f, 0)
    OBVIOUS
  <2>2. QED
    BY <2>1
<1>3. ASSUME NEW n \in Nat, n \in Good PROVE n + 1 \in Good
  <2>1. PICK g : g = Body(g, n)
    BY <1>3
  <2> DEFINE f == [i \in 0..(n + 1) |-> IF i = n + 1 THEN More(n + 1, g[n]) ELSE g[i]]
  <2>2. ASSUME NEW i \in 0..(n + 1)
        PROVE  f[i] = IF i = 0 THEN <<>> ELSE More(i, f[i - 1])
    <3>1. CASE i = 0
      <4>1. f[i] = g[0] /\ 0 \in 0..n
        BY <3>1
      <4>2. g[0] = <<>>
        BY <2>1, <4>1
      <4>3. QED
        BY <3>1, <4>1, <4>2
    <3>2. CASE i = n + 1
      <4>1. f[i] = More(i, g[n]) /\ f[i - 1] = g[n] /\ i # 0
        BY <3>2
      <4>2. QED
        BY <4>1
    <3>3. CASE i \in 1..n
      <4>1. f[i] = g[i] /\ f[i - 1] = g[i - 1] /\ i # 0 /\ i \in 0..n
        BY <3>3
      <4>2. g[i] = More(i, g[i - 1])
        BY <2>1, <4>1
      <4>3. QED
        BY <4>1, <4>2
    <3>4. QED
      BY <3>1, <3>2, <3>3
  <2>3. f = Body(f, n + 1)
    BY <2>2
  <2> HIDE DEF f
  <2>4. \E h : h = Body(h, n + 1)
    BY <2>3
  <2>5. n + 1 \in Nat
    OBVIOUS
  <2>6. QED
    BY <2>4, <2>5
<1>4. N \in Good
  <2>1. \A m \in Nat : m < N /\ m \in Good => m + 1 \in Good
    BY <1>3
  <2> HIDE DEF Good, N
  <2>2. \A m \in 0..N : m \in Good
    BY <1>1, <1>2, <2>1, InductionUpTo
  <2>3. QED
    BY <1>1, <2>2
<1>5. \E f : f = Body(f, N)
  BY <1>4
<1> DEFINE k == CHOOSE f : f = Body(f, N)
<1>6. k = Body(k, N)
  BY <1>5
<1>7. Kept(list, S) = k[N]
  BY DEF Kept, More
<1> HIDE DEF k
<1>8. 0 \in 0..N /\ \A i \in 1..N : i \in 0..N /\ i # 0
  BY <1>1
<1>9. k[0] = <<>> /\ \A i \in 1..N : k[i] = More(i, k[i - 1])
  BY <1>6, <1>8
<1>10. QED
  BY <1>7, <1>9 DEF More

\* What Append does to the members of a list.
LEMMA AppendMembers ==
  ASSUME NEW T, NEW q \in Seq(T), NEW e \in T
  PROVE  Append(q, e) \in Seq(T) /\ ToSet(Append(q, e)) = ToSet(q) \cup {e}
<1>1. /\ Append(q, e) \in Seq(T) /\ DOMAIN Append(q, e) = 1..(Len(q) + 1)
      /\ DOMAIN q = 1..Len(q) /\ Len(q) \in Nat
      /\ \A i \in 1..(Len(q) + 1) : Append(q, e)[i] = IF i \in 1..Len(q) THEN q[i] ELSE e
  OBVIOUS
<1> DEFINE a == Append(q, e)
<1> HIDE DEF a
<1>2. ToSet(a) = ToSet(q) \cup {e}
  <2>1. 1..(Len(q) + 1) = 1..Len(q) \cup {Len(q) + 1} /\ Len(q) + 1 \notin 1..Len(q)
    BY <1>1
  <2>2. QED
    BY <1>1, <2>1 DEF ToSet, a
<1>3. QED
  BY <1>1, <1>2 DEF a

\* Kept keeps just the members of S.
LEMMA KeptMembers ==
  ASSUME NEW T, NEW list \in Seq(T), NEW S
  PROVE  /\ Kept(list, S) \in Seq(T)
         /\ ToSet(Kept(list, S)) = ToSet(list) \cap S
<1>1. PICK f : /\ f[0] = <<>>
               /\ \A i \in 1..Len(list) :
                    f[i] = IF list[i] \in S THEN Append(f[i - 1], list[i]) ELSE f[i - 1]
               /\ Kept(list, S) = f[Len(list)]
  BY KeptFunction
<1> DEFINE N == Len(list)
           Upto(n) == {list[j] : j \in 1..n}
           Good == {n \in Nat : f[n] \in Seq(T) /\ ToSet(f[n]) = Upto(n) \cap S}
<1>2. N \in Nat /\ DOMAIN list = 1..N /\ ToSet(list) = Upto(N)
  BY DEF ToSet
<1>3. 0 \in Good
  <2>1. Upto(0) = {} /\ <<>> \in Seq(T) /\ ToSet(<<>>) = {}
    BY DEF ToSet
  <2>2. QED
    BY <1>1, <2>1
<1>4. ASSUME NEW n \in Nat, n < N, n \in Good PROVE n + 1 \in Good
  <2>1. n + 1 \in 1..N /\ (n + 1) - 1 = n /\ 1..(n + 1) = 1..n \cup {n + 1}
    BY <1>2, <1>4
  <2>2. Upto(n + 1) = Upto(n) \cup {list[n + 1]} /\ list[n + 1] \in T
    BY <2>1
  <2>3. f[n + 1] = IF list[n + 1] \in S THEN Append(f[n], list[n + 1]) ELSE f[n]
    BY <1>1, <2>1
  <2>4. f[n] \in Seq(T) /\ ToSet(f[n]) = Upto(n) \cap S
    BY <1>4
  <2> HIDE DEF Upto
  <2>5. /\ Append(f[n], list[n + 1]) \in Seq(T)
        /\ ToSet(Append(f[n], list[n + 1])) = ToSet(f[n]) \cup {list[n + 1]}
    BY <2>2, <2>4, AppendMembers
  <2>6. f[n + 1] \in Seq(T) /\ ToSet(f[n + 1]) = Upto(n + 1) \cap S
    <3>1. CASE list[n + 1] \in S
      BY <2>2, <2>3, <2>4, <2>5, <3>1
    <3>2. CASE list[n + 1] \notin S
      BY <2>2, <2>3, <2>4, <3>2
    <3>3. QED
      BY <3>1, <3>2
  <2>7. QED
    BY <2>1, <2>6
<1>5. N \in Good
  <2> HIDE DEF Good, N
  <2>1. QED
    BY <1>2, <1>3, <1>4, InductionUpTo
<1>6. QED
  BY <1>1, <1>2, <1>5
----------------------------------------------------------------------------
(***************************************************************************)
(* The directory.                                                           *)
(***************************************************************************)
Records == ToSet(group)

\* A reply made of records of S, with its lists counted.
Reply(S) ==
  {rep \in [ans : Seq(S), add : Seq(S), numAns : Nat, numAdd : Nat] :
     rep.numAns = Len(rep.ans) /\ rep.numAdd = Len(rep.add)}

IsService(r) == r.type = "PTR" /\ r.name # ServicesName /\ r.owner \in Services

Lists ==
  /\ group \in Seq(Records)
  /\ announce \in Seq(Records) /\ services \in Seq(Records)
  /\ reply \in Reply(Records)

\* Every pointer to a service is one that the goodbye takes back.
Pointers ==
  /\ \A r \in ToSet(services) : IsService(r)
  /\ \A r \in Records : r.type = "PTR" /\ r.name # ServicesName => r \in ToSet(services)

\* The calls, one after the other, and no more of them after mdnsd_stop.
Calls ==
  /\ program \in Programs /\ next \in 1..(Len(program) + 1)
  /\ step \in {"call", "notify", "wake", "wait"}
  /\ step # "call" => next <= Len(program)
  /\ step \in {"wake", "wait"} => next = Len(program)
  /\ stopFlag # 0 => step \in {"wake", "wait"} \/ next > Len(program)

Control ==
  /\ pipe \in Nat /\ stopFlag \in 0..2 /\ freed \in BOOLEAN
  /\ pc \in Locations
  /\ pc \in {"goodbye", "farewell", "done"} => stopFlag # 0

Owners(S) == {r.owner : r \in S}

\* Nobody hears of a service that the goodbye does not take back, and only
\* the goodbye takes back.
Heard ==
  /\ heard \subseteq Owners(ToSet(services))
  /\ zeroed # {} => pc \in {"farewell", "done"}
  /\ pc = "farewell" =>
       /\ reply.add = <<>>
       /\ ToSet(reply.ans) \subseteq zeroed \cap ToSet(services)
       /\ heard \subseteq Owners(ToSet(reply.ans))

DirectoryInv == Lists /\ Pointers /\ Calls /\ Control /\ Heard

LEMMA SeqGrows ==
  ASSUME NEW A, NEW B, A \subseteq B, NEW q \in Seq(A)
  PROVE  q \in Seq(B)
OBVIOUS

LEMMA OwnMembers ==
  ASSUME NEW T, NEW q \in Seq(T)
  PROVE  q \in Seq(ToSet(q)) /\ ToSet(q) \subseteq T
BY DEF ToSet

LEMMA Tuples ==
  ASSUME NEW a, NEW b, NEW c
  PROVE  /\ <<a>> \in Seq({a}) /\ ToSet(<<a>>) = {a}
         /\ <<a, b>> \in Seq({a, b}) /\ ToSet(<<a, b>>) = {a, b}
         /\ <<a, b, c>> \in Seq({a, b, c}) /\ ToSet(<<a, b, c>>) = {a, b, c}
         /\ <<>> \in Seq({a}) /\ ToSet(<<>>) = {}
BY DEF ToSet

\* What concatenation does to them.
LEMMA Concatenated ==
  ASSUME NEW T, NEW q \in Seq(T), NEW r \in Seq(T)
  PROVE  q \o r \in Seq(T) /\ ToSet(q \o r) = ToSet(q) \cup ToSet(r)
<1> DEFINE s == q \o r
<1>1. /\ s \in Seq(T) /\ DOMAIN s = 1..(Len(q) + Len(r))
      /\ DOMAIN q = 1..Len(q) /\ DOMAIN r = 1..Len(r) /\ Len(q) \in Nat /\ Len(r) \in Nat
      /\ \A i \in 1..(Len(q) + Len(r)) :
           s[i] = IF i \in 1..Len(q) THEN q[i] ELSE r[i - Len(q)]
  OBVIOUS
<1> HIDE DEF s
<1>2. ASSUME NEW x \in ToSet(s) PROVE x \in ToSet(q) \cup ToSet(r)
  <2>1. PICK i \in 1..(Len(q) + Len(r)) : x = s[i]
    BY <1>1, <1>2 DEF ToSet
  <2>2. CASE i \in 1..Len(q)
    BY <1>1, <2>1, <2>2 DEF ToSet
  <2>3. CASE i \notin 1..Len(q)
    <3>1. i - Len(q) \in 1..Len(r) /\ x = r[i - Len(q)]
      BY <1>1, <2>1, <2>3
    <3>2. QED
      BY <1>1, <3>1 DEF ToSet
  <2>4. QED
    BY <2>2, <2>3
<1>3. ASSUME NEW x \in ToSet(q) PROVE x \in ToSet(s)
  <2>1. PICK i \in 1..Len(q) : x = q[i]
    BY <1>1, <1>3 DEF ToSet
  <2>2. i \in 1..(Len(q) + Len(r)) /\ s[i] = x
    BY <1>1, <2>1
  <2>3. QED
    BY <1>1, <2>2 DEF ToSet
<1>4. ASSUME NEW x \in ToSet(r) PROVE x \in ToSet(s)
  <2>1. PICK i \in 1..Len(r) : x = r[i]
    BY <1>1, <1>4 DEF ToSet
  <2>2. Len(q) + i \in 1..(Len(q) + Len(r)) /\ s[Len(q) + i] = x
    <3>1. /\ Len(q) + i \in 1..(Len(q) + Len(r)) /\ Len(q) + i \notin 1..Len(q)
          /\ (Len(q) + i) - Len(q) = i
      BY <1>1, <2>1
    <3>2. QED
      BY <1>1, <2>1, <3>1
  <2>3. QED
    BY <1>1, <2>2 DEF ToSet
<1>5. QED
  BY <1>1, <1>2, <1>3, <1>4 DEF s

\* rr_list_append adds the records that are wanted and not there.
LEMMA Appended ==
  ASSUME NEW T, NEW list \in Seq(T), NEW from \in Seq(T), NEW S
  PROVE  /\ AppendFrom(list, from, S) \in Seq(T)
         /\ ToSet(AppendFrom(list, from, S)) = ToSet(list) \cup (ToSet(from) \cap S)
<1> DEFINE kept == Kept(from, S \ ToSet(list))
<1>1. kept \in Seq(T) /\ ToSet(kept) = ToSet(from) \cap (S \ ToSet(list))
  BY KeptMembers
<1> HIDE DEF kept
<1>2. /\ list \o kept \in Seq(T)
      /\ ToSet(list \o kept) = ToSet(list) \cup ToSet(kept)
  BY <1>1, Concatenated
<1>3. QED
  BY <1>1, <1>2 DEF AppendFrom, kept

LEMMA AppendedNew ==
  ASSUME NEW T, NEW list \in Seq(T), NEW rrs \in Seq(T)
  PROVE  /\ AppendNew(list, rrs) \in Seq(T)
         /\ ToSet(AppendNew(list, rrs)) = ToSet(list) \cup ToSet(rrs)
BY Appended DEF AppendNew

\* A list that records were added to, of the group that they are in.
LEMMA ListGrows ==
  ASSUME NEW A, NEW B, NEW q \in Seq(A), NEW r \in Seq(B)
  PROVE  AppendNew(q, r) \in Seq(A \cup ToSet(r))
<1> DEFINE U == A \cup ToSet(r)
<1>1. r \in Seq(ToSet(r))
  BY OwnMembers
<1>2. q \in Seq(U) /\ r \in Seq(U)
  <2>1. A \subseteq U /\ ToSet(r) \subseteq U
    OBVIOUS
  <2> HIDE DEF U
  <2>2. QED
    BY <1>1, <2>1, SeqGrows
<1>3. QED
  BY <1>2, AppendedNew

\* Its members are those of both, whatever sets they come from.
LEMMA ListMembers ==
  ASSUME NEW A, NEW B, NEW q, NEW r, q \in Seq(A), r \in Seq(B)
  PROVE  ToSet(AppendNew(q, r)) = ToSet(q) \cup ToSet(r)
<1>1. PICK U : A \subseteq U /\ B \subseteq U
  <2>1. A \subseteq A \cup B /\ B \subseteq A \cup B
    OBVIOUS
  <2>2. QED
    BY <2>1
<1>2. q \in Seq(U) /\ r \in Seq(U)
  BY <1>1, SeqGrows
<1>3. QED
  BY <1>2, AppendedNew

LEMMA ReplyGrows ==
  ASSUME NEW A, NEW B, A \subseteq B, NEW rep \in Reply(A)
  PROVE  rep \in Reply(B)
<1>1. rep.ans \in Seq(B) /\ rep.add \in Seq(B)
  BY SeqGrows DEF Reply
<1>2. QED
  BY <1>1 DEF Reply

LEMMA NoReplyType ==
  ASSUME NEW S
  PROVE  NoReply \in Reply(S)
BY DEF NoReply, Reply

\* Records are appended to a reply from the group, and counted.
LEMMA Populated ==
  ASSUME Lists, NEW rep \in Reply(Records), NEW name, NEW type
  PROVE  /\ PopulateAns(rep, name, type) \in Reply(Records)
         /\ PopulateAdd(rep, name, type) \in Reply(Records)
<1>1. group \in Seq(Records) /\ rep.ans \in Seq(Records) /\ rep.add \in Seq(Records)
  BY DEF Lists, Reply
<1> DEFINE S == Asked(group, name, type)
           a == AppendFrom(rep.ans, group, S)
           b == AppendFrom(rep.add, group, S)
<1> HIDE DEF S
<1>2. a \in Seq(Records) /\ b \in Seq(Records)
  BY <1>1, Appended
<1> HIDE DEF a, b
<1>3. rep.numAns + Len(a) - Len(rep.ans) = Len(a) /\ rep.numAdd + Len(b) - Len(rep.add) = Len(b)
  BY <1>1, <1>2 DEF Reply
<1>4. [rep EXCEPT !.ans = a, !.numAns = Len(a)] \in Reply(Records)
      /\ [rep EXCEPT !.add = b, !.numAdd = Len(b)] \in Reply(Records)
  <2>1. rep \in [ans : Seq(Records), add : Seq(Records), numAns : Nat, numAdd : Nat]
        /\ rep.numAns = Len(rep.ans) /\ rep.numAdd = Len(rep.add)
    BY DEF Reply
  <2>2. Len(a) \in Nat /\ Len(b) \in Nat
    BY <1>2
  <2> DEFINE ra == [rep EXCEPT !.ans = a, !.numAns = Len(a)]
             rb == [rep EXCEPT !.add = b, !.numAdd = Len(b)]
  <2>3. /\ ra \in [ans : Seq(Records), add : Seq(Records), numAns : Nat, numAdd : Nat]
        /\ ra.ans = a /\ ra.numAns = Len(a) /\ ra.numAdd = Len(ra.add)
    BY <1>2, <2>1, <2>2
  <2>4. /\ rb \in [ans : Seq(Records), add : Seq(Records), numAns : Nat, numAdd : Nat]
        /\ rb.add = b /\ rb.numAdd = Len(b) /\ rb.numAns = Len(rb.ans)
    BY <1>2, <2>1, <2>2
  <2> HIDE DEF ra, rb
  <2>5. ra \in Reply(Records) /\ rb \in Reply(Records)
    BY <2>3, <2>4 DEF Reply
  <2>6. QED
    BY <2>5 DEF ra, rb
<1>5. /\ PopulateAns(rep, name, type) = [rep EXCEPT !.ans = a, !.numAns = Len(a)]
      /\ PopulateAdd(rep, name, type) = [rep EXCEPT !.add = b, !.numAdd = Len(b)]
  BY <1>3 DEF PopulateAns, PopulateAdd, a, b, S, Reply
<1>6. QED
  BY <1>4, <1>5

LEMMA InitDirectory == Init => DirectoryInv
<1> SUFFICES ASSUME Init PROVE DirectoryInv
  OBVIOUS
<1>1. ToSet(<<>>) = {}
  BY DEF ToSet
<1>2. Lists
  <2>1. reply \in Reply(Records)
    BY NoReplyType DEF Init
  <2>2. QED
    BY <2>1 DEF Init, Lists
<1>3. Pointers
  BY <1>1 DEF Init, Pointers, Records
<1>4. Calls
  <2>1. program \in Seq(ToSet(program))
    BY ProgramsAssumption DEF Init
  <2>2. Len(program) \in Nat
    BY <2>1
  <2>3. QED
    BY <2>2 DEF Init, Calls
<1>5. Control
  <2>1. pipe = 0 /\ stopFlag = 0 /\ freed \in BOOLEAN /\ pc = "check"
    BY DEF Init
  <2>2. QED
    BY <2>1 DEF Control, Locations
<1>6. Heard
  BY DEF Init, Heard
<1>7. QED
  BY <1>2, <1>3, <1>4, <1>5, <1>6 DEF DirectoryInv

\* Records that a call adds to the group.
LEMMA GroupGrows ==
  ASSUME Lists, NEW T, NEW rrs \in Seq(T), group' = GroupAdd(group, rrs)
  PROVE  group' \in Seq(Records') /\ Records' = Records \cup ToSet(rrs)
<1>1. PICK A : group \in Seq(A) /\ A = Records
  BY DEF Lists
<1>2. /\ AppendNew(group, rrs) \in Seq(A \cup ToSet(rrs))
      /\ ToSet(AppendNew(group, rrs)) = ToSet(group) \cup ToSet(rrs)
  <2>1. PICK g \in Seq(A) : g = group
    BY <1>1
  <2>2. AppendNew(g, rrs) \in Seq(A \cup ToSet(rrs))
    BY ListGrows
  <2>3. g \in Seq(A) /\ rrs \in Seq(T)
    OBVIOUS
  <2> DEFINE new == AppendNew(g, rrs)
  <2>4. ToSet(new) = ToSet(g) \cup ToSet(rrs)
    BY <2>3, ListMembers
  <2>5. QED
    BY <2>1, <2>2, <2>4
<1>3. group' = AppendNew(group, rrs)
  BY DEF GroupAdd
<1>4. Records' = A \cup ToSet(rrs)
  BY <1>1, <1>2, <1>3 DEF Records
<1>5. QED
  BY <1>1, <1>2, <1>3, <1>4

LEMMA GrowingLists ==
  ASSUME Lists, NEW T, NEW rrs \in Seq(T), group' = GroupAdd(group, rrs),
         UNCHANGED <<announce, services, reply>>
  PROVE  Lists'
<1>1. group' \in Seq(Records') /\ Records' = Records \cup ToSet(rrs)
  BY GroupGrows
<1>2. Records \subseteq Records'
  BY <1>1
<1>3. announce \in Seq(Records') /\ services \in Seq(Records') /\ reply \in Reply(Records')
  BY <1>2, SeqGrows, ReplyGrows DEF Lists
<1>4. QED
  BY <1>1, <1>3 DEF Lists

\* What mdnsd_register_svc adds.
LEMMA Registered ==
  ASSUME Lists, RegisterSvc
  PROVE  LET s == program[next].service
             target == IF s.host = None THEN hostname ELSE s.host
         IN /\ Lists'
            /\ ToSet(services') = ToSet(services) \cup {PtrRecord(s)}
            /\ PtrRecord(s) \in Records' /\ Records \subseteq Records'
            /\ Records' \ Records \subseteq
                 {PtrRecord(s), BrowseRecord(s), SrvRecord(s, target)}
                   \cup (IF s.txt = None THEN {} ELSE {TxtRecord(s)})
            /\ \A r \in Records' \ Records : \/ r = PtrRecord(s)
                                             \/ r.type # "PTR"
                                             \/ r.name = ServicesName
<1> DEFINE s == program[next].service
           txt == IF s.txt = None THEN <<>> ELSE <<TxtRecord(s)>>
           target == IF s.host = None THEN hostname ELSE s.host
           a == SrvRecord(s, target)
           b == PtrRecord(s)
           c == BrowseRecord(s)
           d == TxtRecord(s)
           rrs == txt \o <<a, b, c>>
<1>1. /\ group' = GroupAdd(group, rrs)
      /\ announce' = AppendNew(announce, <<b>>)
      /\ services' = AppendNew(services, <<b>>)
      /\ reply' = reply
  BY DEF RegisterSvc, thread
<1>2. /\ a.type = "SRV" /\ d.type = "TXT" /\ c.name = ServicesName
  BY DEF SrvRecord, TxtRecord, BrowseRecord, Record
<1> DEFINE U == {a, b, c, d}
<1>3. txt \in Seq(U) /\ ToSet(txt) \subseteq (IF s.txt = None THEN {} ELSE {d})
  <2>1. <<>> \in Seq(U) /\ ToSet(<<>>) = {}
    BY DEF ToSet
  <2> HIDE DEF a, b, c
  <2>2. <<d>> \in Seq(U) /\ ToSet(<<d>>) = {d}
    <3> HIDE DEF d
    <3>1. QED
      BY DEF ToSet
  <2>3. QED
    BY <2>1, <2>2
<1> HIDE DEF s, txt, a, b, c, d
<1>4. <<b>> \in Seq({b}) /\ ToSet(<<b>>) = {b}
  BY Tuples
<1>5. rrs \in Seq(U) /\ ToSet(rrs) = ToSet(txt) \cup {a, b, c}
  <2>1. <<a, b, c>> \in Seq({a, b, c}) /\ ToSet(<<a, b, c>>) = {a, b, c}
    <3>1. <<a, b, c>> \in Seq({a, b, c})
      OBVIOUS
    <3>2. ToSet(<<a, b, c>>) = {a, b, c}
      BY DEF ToSet
    <3>3. QED
      BY <3>1, <3>2
  <2>2. {a, b, c} \subseteq U
    OBVIOUS
  <2> HIDE DEF U
  <2>3. <<a, b, c>> \in Seq(U)
    BY <2>1, <2>2, SeqGrows
  <2> DEFINE t == <<a, b, c>>
  <2>4. t \in Seq(U) /\ ToSet(t) = {a, b, c} /\ rrs = txt \o t
    BY <2>1, <2>3
  <2> HIDE DEF t, rrs
  <2>5. QED
    BY <1>3, <2>4, Concatenated
<1> HIDE DEF rrs
<1>6. group' \in Seq(Records') /\ Records' = Records \cup ToSet(rrs)
  BY <1>1, <1>5, GroupGrows
<1>7. Records \subseteq Records' /\ b \in Records' /\ Records \cup {b} \subseteq Records'
  BY <1>5, <1>6
<1>8. /\ announce' \in Seq(Records \cup {b}) /\ services' \in Seq(Records \cup {b})
      /\ ToSet(services') = ToSet(services) \cup {b}
  <2>1. PICK A : A = Records /\ announce \in Seq(A) /\ services \in Seq(A)
    BY DEF Lists
  <2> DEFINE t == <<b>>
  <2>2. t \in Seq({b}) /\ ToSet(t) = {b}
    BY <1>4
  <2>3. announce' = AppendNew(announce, t) /\ services' = AppendNew(services, t)
    BY <1>1
  <2> HIDE DEF t
  <2>4. AppendNew(announce, t) \in Seq(A \cup {b})
    BY <2>1, <2>2, ListGrows
  <2>5. AppendNew(services, t) \in Seq(A \cup {b})
    BY <2>1, <2>2, ListGrows
  <2>6. ToSet(AppendNew(services, t)) = ToSet(services) \cup {b}
    <3>1. PICK q \in Seq(A) : q = services
      BY <2>1
    <3>2. ToSet(AppendNew(q, t)) = ToSet(q) \cup ToSet(t)
      BY <2>2, <3>1, ListMembers
    <3>3. QED
      BY <2>2, <3>1, <3>2
  <2>7. QED
    BY <2>1, <2>3, <2>4, <2>5, <2>6
<1>9. announce' \in Seq(Records') /\ services' \in Seq(Records') /\ reply' \in Reply(Records')
  BY <1>1, <1>7, <1>8, SeqGrows, ReplyGrows DEF Lists
<1>10. Lists'
  BY <1>6, <1>9 DEF Lists
<1>11. \A r \in Records' \ Records : r = b \/ r.type # "PTR" \/ r.name = ServicesName
  BY <1>2, <1>3, <1>5, <1>6
<1>12. Records' \ Records \subseteq {b, c, a} \cup (IF s.txt = None THEN {} ELSE {d})
  BY <1>3, <1>5, <1>6
<1>13. QED
  BY <1>7, <1>8, <1>10, <1>11, <1>12 DEF a, b, c, d, s

\* The other calls that add records.
LEMMA AddedRecords ==
  ASSUME Lists, Calls, SetHostname \/ AddRR
  PROVE  /\ Lists' /\ Records \subseteq Records'
         /\ \A r \in Records' \ Records : r.type # "PTR"
         /\ Records' \ Records \subseteq Made(program, next)
<1>1. UNCHANGED <<announce, services, reply>>
  BY DEF SetHostname, AddRR, thread
<1>2. CASE SetHostname
  <2> DEFINE h == program[next].host
             a == AddressRecord(h, program[next].addr)
             b == NsecRecord(h)
  <2>1. group' = GroupAdd(group, <<a, b>>) /\ a.type = "A" /\ b.type = "NSEC"
    BY <1>2 DEF SetHostname, AddressRecord, NsecRecord, Record
  <2>made. Made(program, next) = {a, b}
    BY <1>2 DEF SetHostname, Calling, Made
  <2> HIDE DEF a, b
  <2>2. <<a, b>> \in Seq({a, b}) /\ ToSet(<<a, b>>) = {a, b}
    BY Tuples
  <2>3. Lists' /\ Records' = Records \cup {a, b}
    BY <1>1, <2>1, <2>2, GroupGrows, GrowingLists
  <2>4. QED
    BY <2>1, <2>3, <2>made
<1>3. CASE AddRR
  <2> DEFINE a == program[next].rr
  <2>1. group' = GroupAdd(group, <<a>>)
    BY <1>3 DEF AddRR
  <2>2. a.type # "PTR"
    <3>1. program \in Seq(ToSet(program)) /\ program[next].op = "rr" /\ next \in 1..Len(program)
      BY <1>3, ProgramsAssumption DEF AddRR, Calling, Calls
    <3>2. QED
      BY <3>1, ProgramsAssumption DEF Calls
  <2>made. Made(program, next) = {a}
    BY <1>3 DEF AddRR, Calling, Made
  <2> HIDE DEF a
  <2>3. <<a>> \in Seq({a}) /\ ToSet(<<a>>) = {a}
    BY Tuples
  <2>4. Lists' /\ Records' = Records \cup {a}
    BY <1>1, <2>1, <2>3, GroupGrows, GrowingLists
  <2>5. QED
    BY <2>2, <2>4, <2>made
<1>4. QED
  BY <1>2, <1>3

\* What the thread's steps make of the reply; they leave the group alone.
LEMMA ThreadReplies ==
  ASSUME Lists, ThreadNext
  PROVE  Lists'
<1>1. group' = group /\ services' = services /\ Records' = Records
  BY DEF ThreadNext, CheckStop, Woken, Receive, ReceiveError, Question,
         SuppressKnown, AddRelated, Send, TakeAnnouncement, AnnounceType,
         AnnounceBrowse, Goodbye, Farewell, shared, Records
<1>2. announce' \in Seq(Records)
  <2>1. CASE TakeAnnouncement
    <3>1. PICK A : A = Records /\ announce \in Seq(A)
      BY DEF Lists
    <3>2. announce' = announce \/ (announce # <<>> /\ announce' = Tail(announce))
      BY <2>1 DEF TakeAnnouncement
    <3>3. QED
      BY <3>1, <3>2
  <2>2. CASE ~TakeAnnouncement
    <3>1. announce' = announce
      BY <2>2 DEF ThreadNext, CheckStop, Woken, Receive, ReceiveError, Question,
         SuppressKnown, AddRelated, Send, AnnounceType, AnnounceBrowse, Goodbye, Farewell,
         shared
    <3>2. QED
      BY <3>1 DEF Lists
  <2>3. QED
    BY <2>1, <2>2
<1>3. reply' \in Reply(Records)
  <2>1. reply \in Reply(Records) /\ NoReply \in Reply(Records)
    BY NoReplyType DEF Lists
  <2>2. CASE CheckStop \/ Woken \/ Send \/ TakeAnnouncement \/ Farewell
    BY <2>1, <2>2 DEF CheckStop, Woken, Send, TakeAnnouncement, Farewell
  <2>3. CASE Receive \/ ReceiveError
    BY <2>1, <2>3 DEF Receive, ReceiveError, Parse
  <2>4. CASE Question
    <3> DEFINE q == pkt.questions[question]
    <3>1. reply' = IF q.unicast THEN reply ELSE PopulateAns(reply, q.name, q.type)
      BY <2>4 DEF Question
    <3>2. QED
      BY <2>1, <3>1, Populated
  <2>5. CASE SuppressKnown
    <3>1. PICK kept \in {Kept(reply.ans, {r \in ToSet(reply.ans) : ~IsKnown(r)})} :
            reply' = [reply EXCEPT !.ans = kept,
                        !.numAns = @ - (Len(reply.ans) - Len(kept))]
      BY <2>5 DEF SuppressKnown
    <3>2. reply.ans \in Seq(Records) /\ reply.numAns = Len(reply.ans)
      BY <2>1 DEF Reply
    <3>3. kept \in Seq(Records)
      BY <3>1, <3>2, KeptMembers
    <3>4. reply.numAns - (Len(reply.ans) - Len(kept)) = Len(kept) /\ Len(kept) \in Nat
      BY <3>2, <3>3
    <3>5. reply' = [reply EXCEPT !.ans = kept, !.numAns = Len(kept)]
      BY <3>1, <3>4
    <3>6. /\ reply' \in [ans : Seq(Records), add : Seq(Records), numAns : Nat, numAdd : Nat]
          /\ reply'.numAns = Len(reply'.ans) /\ reply'.numAdd = Len(reply'.add)
      BY <2>1, <3>3, <3>4, <3>5 DEF Reply
    <3>7. QED
      BY <3>6 DEF Reply
  <2>6. CASE AddRelated
    <3>1. \E name, type : reply' = PopulateAdd(reply, name, type)
      BY <2>6 DEF AddRelated
    <3>2. QED
      BY <2>1, <3>1, Populated
  <2>7. CASE AnnounceType \/ AnnounceBrowse
    BY <2>1, <2>7, Populated DEF AnnounceType, AnnounceBrowse
  <2>8. CASE Goodbye
    <3>1. reply' = [NoReply EXCEPT !.ans = services, !.numAns = Len(services)]
          /\ services \in Seq(Records)
      BY <2>8 DEF Goodbye, Lists
    <3>2. Len(services) \in Nat
      BY <3>1
    <3>3. reply' = [ans |-> services, add |-> <<>>, numAns |-> Len(services), numAdd |-> 0]
      BY <3>1 DEF NoReply
    <3>4. /\ reply' \in [ans : Seq(Records), add : Seq(Records), numAns : Nat, numAdd : Nat]
          /\ reply'.numAns = Len(reply'.ans) /\ reply'.numAdd = Len(reply'.add)
      <4>1. PICK R, l, n : R = Records /\ l = services /\ n = Len(l)
        OBVIOUS
      <4>2. l \in Seq(R) /\ n \in Nat /\ n = Len(l)
        BY <3>1, <3>2, <4>1
      <4>3. <<>> \in Seq(R) /\ Len(<<>>) = 0
        OBVIOUS
      <4> DEFINE rep == [ans |-> l, add |-> <<>>, numAns |-> n, numAdd |-> 0]
      <4>4. /\ rep \in [ans : Seq(R), add : Seq(R), numAns : Nat, numAdd : Nat]
            /\ rep.numAns = n /\ rep.ans = l /\ rep.numAdd = 0 /\ rep.add = <<>>
        BY <4>2, <4>3
      <4>5. reply' = rep
        BY <3>3, <4>1
      <4> HIDE DEF rep
      <4>6. QED
        BY <4>1, <4>2, <4>3, <4>4, <4>5
    <3>5. QED
      BY <3>4 DEF Reply
  <2>9. QED
    BY <2>2, <2>3, <2>4, <2>5, <2>6, <2>7, <2>8 DEF ThreadNext
<1>4. QED
  BY <1>1, <1>2, <1>3 DEF Lists

LEMMA StepLists ==
  ASSUME Lists, Calls, [Next]_vars
  PROVE  Lists'
<1>1. CASE ThreadNext
  BY <1>1, ThreadReplies
<1>2. CASE SetHostname \/ AddRR
  BY <1>2, AddedRecords
<1>3. CASE RegisterSvc
  BY <1>3, Registered
<1>4. CASE UNCHANGED <<group, announce, services, reply>>
  BY <1>4 DEF Lists, Records
<1>5. CASE NotifyServer \/ StopServer \/ WakeServer \/ FreeServer
  BY <1>4, <1>5 DEF NotifyServer, StopServer, WakeServer, FreeServer, shared, thread
<1>6. ASSUME NEW q \in Queries, Arrive(q) PROVE Lists'
  BY <1>4, <1>6 DEF Arrive, shared, thread
<1>7. CASE UNCHANGED vars
  BY <1>4, <1>7 DEF vars, shared, thread
<1>8. QED
  BY <1>1, <1>2, <1>3, <1>5, <1>6, <1>7 DEF Next, ProgramNext

\* A pointer enters the group only together with the list of the goodbye.
LEMMA StepPointers ==
  ASSUME Lists, Pointers, Calls, [Next]_vars
  PROVE  Pointers'
<1>1. CASE RegisterSvc
  <2> DEFINE s == program[next].service
             b == PtrRecord(s)
  <2>1. /\ ToSet(services') = ToSet(services) \cup {b}
        /\ \A r \in Records' \ Records : r = b \/ r.type # "PTR" \/ r.name = ServicesName
    BY <1>1, Registered
  <2>2. IsService(b)
    <3>1. program \in Seq(ToSet(program)) /\ next \in DOMAIN program
          /\ program[next].op = "register"
      BY <1>1, ProgramsAssumption DEF RegisterSvc, Calling, Calls
    <3>2. s.id \in Services /\ s.type # ServicesName
      BY <3>1, ProgramsAssumption DEF Calls
    <3>3. b.type = "PTR" /\ b.name = s.type /\ b.owner = s.id
      BY DEF PtrRecord, Record
    <3>4. QED
      BY <3>2, <3>3 DEF IsService
  <2> HIDE DEF b
  <2>3. \A r \in ToSet(services') : IsService(r)
    BY <2>1, <2>2 DEF Pointers
  <2>4. \A r \in Records' : r.type = "PTR" /\ r.name # ServicesName => r \in ToSet(services')
    BY <2>1 DEF Pointers
  <2>5. QED
    BY <2>3, <2>4 DEF Pointers
<1>2. CASE SetHostname \/ AddRR
  <2>1. services' = services
    BY <1>2 DEF SetHostname, AddRR
  <2>2. \A r \in Records' \ Records : r.type # "PTR"
    BY <1>2, AddedRecords
  <2>3. QED
    BY <2>1, <2>2 DEF Pointers
<1>3. CASE UNCHANGED <<group, services>>
  BY <1>3 DEF Pointers, Records
<1>4. CASE ThreadNext
  <2>1. UNCHANGED <<group, services>>
    BY <1>4 DEF ThreadNext, CheckStop, Woken, Receive, ReceiveError, Question,
         SuppressKnown, AddRelated, Send, TakeAnnouncement, AnnounceType,
         AnnounceBrowse, Goodbye, Farewell, shared
  <2>2. QED
    BY <1>3, <2>1
<1>5. CASE NotifyServer \/ StopServer \/ WakeServer \/ FreeServer
  BY <1>3, <1>5 DEF NotifyServer, StopServer, WakeServer, FreeServer, shared
<1>6. ASSUME NEW q \in Queries, Arrive(q) PROVE Pointers'
  BY <1>3, <1>6 DEF Arrive, shared
<1>7. CASE UNCHANGED vars
  BY <1>3, <1>7 DEF vars, shared
<1>8. QED
  BY <1>1, <1>2, <1>4, <1>5, <1>6, <1>7 DEF Next, ProgramNext

\* The thread's part of the signals: only its last step sets the flag.
LEMMA ThreadSignals ==
  ASSUME Control, ThreadNext
  PROVE  Control' /\ (stopFlag # 0 <=> stopFlag' # 0)
<1> USE DEF Control, Locations, ThreadOnly, ContinueWith, Parse
<1>1. CASE CheckStop
  BY <1>1 DEF CheckStop
<1>2. CASE Woken
  BY <1>2 DEF Woken, ReadPipe
<1>3. CASE Receive
  BY <1>3 DEF Receive
<1>4. CASE ReceiveError
  BY <1>4 DEF ReceiveError
<1>5. CASE Question
  BY <1>5 DEF Question
<1>6. CASE SuppressKnown
  BY <1>6 DEF SuppressKnown
<1>7. CASE AddRelated
  BY <1>7 DEF AddRelated
<1>8. CASE Send
  BY <1>8 DEF Send
<1>9. CASE TakeAnnouncement
  BY <1>9 DEF TakeAnnouncement
<1>10. CASE AnnounceType
  BY <1>10 DEF AnnounceType
<1>11. CASE AnnounceBrowse
  BY <1>11 DEF AnnounceBrowse
<1>12. CASE Goodbye
  BY <1>12 DEF Goodbye
<1>13. CASE Farewell
  BY <1>13 DEF Farewell
<1>14. QED
  BY <1>1, <1>2, <1>3, <1>4, <1>5, <1>6, <1>7, <1>8, <1>9, <1>10, <1>11, <1>12, <1>13
  DEF ThreadNext

LEMMA StepControl ==
  ASSUME Control, [Next]_vars
  PROVE  Control'
<1>1. CASE ThreadNext
  BY <1>1, ThreadSignals
<1>2. CASE ProgramNext
  <2>1. pc' = pc /\ (freed' = freed \/ freed' = TRUE)
    BY <1>2 DEF ProgramNext, SetHostname, AddRR, RegisterSvc, NotifyServer, StopServer,
           WakeServer, FreeServer, signals, thread
  <2>2. freed' \in BOOLEAN
    BY <2>1 DEF Control
  <2>3. pipe' \in Nat
    BY <1>2 DEF ProgramNext, SetHostname, AddRR, RegisterSvc, NotifyServer, StopServer,
           WakeServer, FreeServer, WritePipe, signals, Control
  <2>4. stopFlag' \in 0..2 /\ (stopFlag # 0 => stopFlag' # 0)
    BY <1>2 DEF ProgramNext, SetHostname, AddRR, RegisterSvc, NotifyServer, StopServer,
           WakeServer, FreeServer, signals, Control
  <2>5. QED
    BY <2>1, <2>2, <2>3, <2>4 DEF Control
<1>3. ASSUME NEW q \in Queries, Arrive(q) PROVE Control'
  BY <1>3 DEF Arrive, signals, thread, Control
<1>4. CASE UNCHANGED vars
  BY <1>4 DEF vars, signals, thread, Control
<1>5. QED
  BY <1>1, <1>2, <1>3, <1>4 DEF Next

\* The calls come in order, and mdnsd_stop is the last.
LEMMA StepCalls ==
  ASSUME Calls, Control, [Next]_vars
  PROVE  Calls'
<1>1. Len(program) \in Nat /\ DOMAIN program = 1..Len(program) /\ next \in Nat
  BY ProgramsAssumption DEF Calls
<1>2. CASE SetHostname \/ AddRR \/ RegisterSvc
  BY <1>1, <1>2 DEF SetHostname, AddRR, RegisterSvc, Calling, Returned, signals, Calls
<1>3. CASE NotifyServer
  BY <1>1, <1>3 DEF NotifyServer, Returned, Calls
<1>4. CASE StopServer
  <2>1. next \in DOMAIN program /\ program[next].op = "stop" /\ program' = program
        /\ next' = next /\ step' = "wake"
    BY <1>1, <1>4 DEF StopServer, Calling, Calls
  <2>2. next = Len(program)
    BY <2>1, ProgramsAssumption DEF Calls
  <2>3. QED
    BY <1>1, <2>1, <2>2 DEF Calls
<1>5. CASE WakeServer
  BY <1>1, <1>5 DEF WakeServer, Calls
<1>6. CASE FreeServer
  BY <1>1, <1>6 DEF FreeServer, Returned, Calls
<1>7. CASE ThreadNext
  <2>1. UNCHANGED <<program, next, step>>
    BY <1>7 DEF ThreadNext, CheckStop, Woken, Receive, ReceiveError, Question,
         SuppressKnown, AddRelated, Send, TakeAnnouncement, AnnounceType,
         AnnounceBrowse, Goodbye, Farewell, ThreadOnly, programVars
  <2>2. QED
    BY <1>7, <2>1, ThreadSignals DEF Calls
<1>8. ASSUME NEW q \in Queries, Arrive(q) PROVE Calls'
  BY <1>8 DEF Arrive, programVars, signals, Calls
<1>9. CASE UNCHANGED vars
  BY <1>9 DEF vars, programVars, signals, Calls
<1>10. QED
  BY <1>2, <1>3, <1>4, <1>5, <1>6, <1>7, <1>8, <1>9 DEF Next, ProgramNext

\* The services a packet tells of are registered ones, and none of them is
\* taken back while no lifetime is zero.
LEMMA Told ==
  ASSUME Lists, Pointers, NEW z
  PROVE  /\ ServicesIn(reply, z) \subseteq Owners(ToSet(services)) \cap Services
         /\ zeroed = {} => ServicesIn(reply, TRUE) = {}
<1>1. PICK R : R = Records
  OBVIOUS
<1>2. reply.ans \in Seq(R) /\ reply.add \in Seq(R)
  BY <1>1 DEF Lists, Reply
<1>3. /\ reply.ans \o reply.add \in Seq(R)
      /\ ToSet(reply.ans \o reply.add) = ToSet(reply.ans) \cup ToSet(reply.add)
  BY <1>2, Concatenated
<1>4. ToSet(reply.ans \o reply.add) \subseteq R
  BY <1>3, OwnMembers
<1>5. ServicesIn(reply, z) \subseteq Owners(ToSet(services)) \cap Services
  <2>1. ASSUME NEW q \in ToSet(reply.ans \o reply.add), q.type = "PTR", q.name # ServicesName
        PROVE  q.owner \in Owners(ToSet(services)) \cap Services
    <3>1. q \in ToSet(services) /\ IsService(q)
      BY <1>1, <1>4, <2>1 DEF Pointers
    <3>2. QED
      BY <3>1 DEF Owners, IsService
  <2>2. QED
    BY <2>1 DEF ServicesIn
<1>6. zeroed = {} => ServicesIn(reply, TRUE) = {}
  BY DEF ServicesIn, Ttl, DefaultTtl
<1>7. QED
  BY <1>5, <1>6

\* A packet that is sent while no lifetime is zero.
LEMMA SentNews ==
  ASSUME Lists, Pointers, Heard, Send
  PROVE  \/ heard' = heard
         \/ heard' = heard \cup ServicesIn(reply, FALSE)
<1>1. zeroed = {}
  BY DEF Send, Heard
<1>2. ServicesIn(reply, TRUE) = {}
  BY <1>1, Told
<1>3. QED
  BY <1>2 DEF Send, Transmit

\* The goodbye takes back all that was heard.
LEMMA SentGoodbye ==
  ASSUME Lists, Pointers, Heard, Farewell
  PROVE  heard' = {}
<1>1. /\ reply.add = <<>> /\ heard \subseteq Owners(ToSet(reply.ans))
      /\ ToSet(reply.ans) \subseteq zeroed \cap ToSet(services)
  BY DEF Farewell, Heard
<1>2. PICK a : a = reply.ans
  OBVIOUS
<1>3. a \in Seq(Records) /\ reply.numAns = Len(a)
  BY <1>2 DEF Lists, Reply
<1>4. CASE reply.numAns > 0
  <2>1. a \o <<>> = a
    BY <1>3
  <2>2. \A r \in ToSet(a) : r.type = "PTR" /\ r.name # ServicesName /\ Ttl(r) = 0
    BY <1>1, <1>2 DEF Pointers, IsService, Ttl
  <2>3. ServicesIn(reply, FALSE) = {} /\ ServicesIn(reply, TRUE) = Owners(ToSet(a))
    BY <1>1, <1>2, <2>1, <2>2 DEF ServicesIn, Owners
  <2>4. QED
    BY <1>1, <1>2, <1>4, <2>3 DEF Farewell, Transmit
<1>5. CASE ~(reply.numAns > 0)
  <2>1. ToSet(a) = {}
    BY <1>3, <1>5 DEF ToSet
  <2>2. heard' = heard
    BY <1>5 DEF Farewell
  <2>3. QED
    BY <1>1, <1>2, <2>1, <2>2 DEF Owners
<1>6. QED
  BY <1>4, <1>5

\* The other steps of the thread tell nobody anything.
LEMMA ThreadQuiet ==
  ASSUME ThreadNext, ~Send, ~Farewell
  PROVE  /\ heard' = heard /\ services' = services
         /\ pc \notin {"farewell", "done"} /\ pc' # "done"
         /\ Goodbye \/ (zeroed' = zeroed /\ pc' # "farewell")
<1> USE DEF ThreadOnly, ContinueWith, Parse, shared
<1>1. CASE CheckStop \/ Woken \/ Receive \/ ReceiveError \/ Question
  BY <1>1 DEF CheckStop, Woken, Receive, ReceiveError, Question
<1>2. CASE SuppressKnown \/ AddRelated
  BY <1>2 DEF SuppressKnown, AddRelated
<1>3. CASE TakeAnnouncement \/ AnnounceType \/ AnnounceBrowse
  BY <1>3 DEF TakeAnnouncement, AnnounceType, AnnounceBrowse
<1>4. CASE Goodbye
  BY <1>4 DEF Goodbye
<1>5. QED
  BY <1>1, <1>2, <1>3, <1>4 DEF ThreadNext

\* Each packet tells of registered services, and the goodbye of all of them.
LEMMA StepHeard ==
  ASSUME DirectoryInv, [Next]_vars
  PROVE  Heard'
<1> USE DEF DirectoryInv
<1>1. CASE Send
  <2>1. heard' \subseteq Owners(ToSet(services))
    BY <1>1, SentNews, Told DEF Heard
  <2>2. services' = services /\ zeroed' = {} /\ pc' = "drain"
    BY <1>1 DEF Send, shared, Heard
  <2>3. QED
    BY <2>1, <2>2 DEF Heard
<1>2. CASE Farewell
  <2>1. heard' = {} /\ pc' = "done"
    BY <1>2, SentGoodbye DEF Farewell
  <2>2. QED
    BY <2>1 DEF Heard
<1>3. CASE Goodbye
  <2>1. /\ heard' = heard /\ services' = services /\ pc' = "farewell"
        /\ zeroed' = zeroed \cup ToSet(services)
        /\ reply' = [NoReply EXCEPT !.ans = services, !.numAns = Len(services)]
    BY <1>3 DEF Goodbye
  <2>2. reply'.ans = services /\ reply'.add = <<>>
    BY <2>1 DEF NoReply
  <2>3. QED
    BY <2>1, <2>2 DEF Heard
<1>4. CASE ThreadNext /\ ~Send /\ ~Farewell /\ ~Goodbye
  <2>1. /\ heard' = heard /\ services' = services /\ zeroed' = zeroed
        /\ pc \notin {"farewell", "done"} /\ pc' # "farewell"
    BY <1>4, ThreadQuiet
  <2>2. QED
    BY <2>1 DEF Heard
<1>5. CASE RegisterSvc
  <2>1. ToSet(services) \subseteq ToSet(services')
    BY <1>5, Registered
  <2>2. UNCHANGED <<heard, zeroed, pc, reply>>
    BY <1>5 DEF RegisterSvc, thread
  <2>3. Owners(ToSet(services)) \subseteq Owners(ToSet(services'))
    BY <2>1 DEF Owners
  <2>4. QED
    BY <2>1, <2>2, <2>3 DEF Heard
<1>6. CASE UNCHANGED <<heard, services, zeroed, pc, reply>>
  BY <1>6 DEF Heard
<1>7. CASE ProgramNext /\ ~RegisterSvc
  BY <1>6, <1>7 DEF ProgramNext, SetHostname, AddRR, NotifyServer, StopServer, WakeServer,
         FreeServer, shared, thread
<1>8. ASSUME NEW q \in Queries, Arrive(q) PROVE Heard'
  BY <1>6, <1>8 DEF Arrive, shared, thread
<1>9. CASE UNCHANGED vars
  BY <1>6, <1>9 DEF vars, shared, thread
<1>10. QED
  BY <1>1, <1>2, <1>3, <1>4, <1>5, <1>7, <1>8, <1>9 DEF Next

LEMMA StepDirectory ==
  ASSUME DirectoryInv, [Next]_vars
  PROVE  DirectoryInv'
BY StepLists, StepPointers, StepCalls, StepControl, StepHeard DEF DirectoryInv

\* Every list holds records of the group, every reply is counted, and only
\* services the program may register are heard of.
THEOREM TypeCorrect == Spec => []TypeOK
<1>1. Init => DirectoryInv
  BY InitDirectory
<1>2. DirectoryInv /\ [Next]_vars => DirectoryInv'
  BY StepDirectory
<1>3. ASSUME DirectoryInv PROVE TypeOK
  <2>1. ToSet(announce) \subseteq Records /\ ToSet(services) \subseteq Records
    BY <1>3, OwnMembers DEF DirectoryInv, Lists
  <2>2. heard \subseteq Services
    BY <1>3 DEF DirectoryInv, Heard, Pointers, IsService, Owners
  <2>3. reply.numAns = Len(reply.ans) /\ reply.numAdd = Len(reply.add)
    BY <1>3 DEF DirectoryInv, Lists, Reply
  <2>4. QED
    BY <1>3, <2>1, <2>2, <2>3 DEF DirectoryInv, Calls, Control, Records, TypeOK
<1>4. QED
  BY <1>1, <1>2, <1>3, PTL DEF Spec

\* Every step of the two threads is a registration, an announcement, the
\* goodbye, or nothing, to who hears of the services.
LEMMA StepsServe ==
  ASSUME DirectoryInv, DirectoryInv', [Next]_vars
  PROVE  [Directory!Next]_(Directory!vars)
<1> DEFINE Known == Owners(ToSet(services))
<1> SUFFICES \/ UNCHANGED <<Known, heard, pc # "done">>
             \/ /\ pc # "done"
                /\ \/ \E s \in Services : /\ Known' = Known \cup {s}
                                          /\ heard' = heard /\ pc' # "done"
                   \/ \E S \in SUBSET Services : /\ S \subseteq Known
                                                 /\ heard' = heard \cup S
                                                 /\ Known' = Known /\ pc' # "done"
                   \/ pc' = "done" /\ heard' = {} /\ Known' = Known
  BY DEF Directory!Next, Directory!vars, Directory!Register, Directory!Tell,
         Directory!Leave, Owners
<1> USE DEF DirectoryInv
<1>1. CASE RegisterSvc
  <2> DEFINE s == program[next].service
             b == PtrRecord(s)
  <2>1. ToSet(services') = ToSet(services) \cup {b}
    BY <1>1, Registered
  <2>2. b.owner \in Services
    BY <2>1 DEF Pointers, IsService
  <2>3. pc # "done" /\ pc' = pc /\ heard' = heard
    BY <1>1 DEF RegisterSvc, Calling, thread, Calls, Control
  <2> HIDE DEF b
  <2>4. Known' = Known \cup {b.owner}
    BY <2>1 DEF Owners
  <2>5. QED
    BY <2>2, <2>3, <2>4
<1>2. CASE Send
  <2>1. pc # "done" /\ pc' # "done" /\ services' = services
    BY <1>2 DEF Send, shared
  <2>2. heard' = heard \/ heard' = heard \cup ServicesIn(reply, FALSE)
    BY <1>2, SentNews
  <2>3. ServicesIn(reply, FALSE) \subseteq Known /\ ServicesIn(reply, FALSE) \in SUBSET Services
    BY Told
  <2>4. QED
    BY <2>1, <2>2, <2>3
<1>3. CASE Farewell
  BY <1>3, SentGoodbye DEF Farewell, shared
<1>4. CASE ThreadNext /\ ~Send /\ ~Farewell
  BY <1>4, ThreadQuiet
<1>5. CASE UNCHANGED <<services, heard, pc>>
  BY <1>5
<1>6. CASE ProgramNext /\ ~RegisterSvc
  BY <1>5, <1>6 DEF ProgramNext, SetHostname, AddRR, NotifyServer, StopServer, WakeServer,
         FreeServer, shared, thread
<1>7. ASSUME NEW q \in Queries, Arrive(q) PROVE UNCHANGED <<services, heard, pc>>
  BY <1>7 DEF Arrive, shared, thread
<1>8. CASE UNCHANGED vars
  BY <1>5, <1>8 DEF vars, shared, thread
<1>9. QED
  BY <1>1, <1>2, <1>3, <1>4, <1>5, <1>6, <1>7, <1>8 DEF Next

\* The server implements the directory of services: whatever the program
\* registers between two lookups, and whatever the network asks, nobody hears
\* of a service the goodbye does not take back, and it takes back all of them
\* (mdnsd_register_svc, send_packet and the end of main_loop).
THEOREM ServesDirectory == Spec => KeepsDirectory
<1>1. Init => DirectoryInv
  BY InitDirectory
<1>2. DirectoryInv /\ [Next]_vars => DirectoryInv'
  BY StepDirectory
<1>3. Init => Directory!Init
  BY DEF Init, Directory!Init, ToSet
<1>4. DirectoryInv /\ DirectoryInv' /\ [Next]_vars => [Directory!Next]_(Directory!vars)
  BY StepsServe
<1>5. QED
  BY <1>1, <1>2, <1>3, <1>4, PTL DEF Spec, KeepsDirectory, Directory!Spec

----------------------------------------------------------------------------
(***************************************************************************)
(* The reply is complete.                                                  *)
(***************************************************************************)

\* Every record of the group was made by a call that is over, or about to
\* wake the thread, and so was the host name that services run on.
Origin ==
  /\ hostname \in HostsBefore(program, next)
  /\ \A r \in Records : \E i \in DOMAIN program :
       /\ i < next \/ (i = next /\ step = "notify")
       /\ r \in Made(program, i)

\* What a record refers to is among the additional records.
Answered(rep, r) ==
  r.name # ServicesName =>
    \A q \in Records : Related(r, q) => q \in ToSet(rep.add)

\* The first lookup of a service, for its host, is answered.
HostKnown(rep, r) ==
  r.name # ServicesName =>
    \A q \in Records : q.name = r.data /\ q.type # "NSEC" => q \in ToSet(rep.add)

Upto(rep, list, n) == \A i \in 1..n : Answered(rep, rep[list][i])
AllOf(rep, list) == \A r \in ToSet(rep[list]) : Answered(rep, r)

\* While records are looked up, those before the one worked on are answered.
Pending(rep, w) ==
  /\ w \in [list : {"ans", "add"}, at : Nat, lookup : Nat]
  /\ w.at \in DOMAIN rep[w.list]
  /\ Upto(rep, w.list, w.at - 1)
  /\ w.list = "add" => AllOf(rep, "ans")
  /\ w.lookup \in DOMAIN Lookups(rep[w.list][w.at])
  /\ w.lookup > 1 => HostKnown(rep, rep[w.list][w.at])

Ready(rep) == AllOf(rep, "ans") /\ AllOf(rep, "add")

Working ==
  /\ pc = "related" => Pending(reply, work)
  /\ pc = "send" => Ready(reply)

\* What a packet that is sent tells.
Whole(rep) ==
  LET told == ToSet(rep.ans \o rep.add)
  IN /\ told \subseteq Records
     /\ \A r \in told :
          r.name # ServicesName /\ (r.type = "PTR" => Ttl(r) > 0) =>
            \A q \in Records : Related(r, q) => q \in told

ReplyInv == Origin /\ Working /\ (sent # None => Whole(sent))

\* The lookups of a record find what it refers to.
LEMMA LookupsByType ==
  ASSUME NEW r
  PROVE  /\ r.type = "PTR" => Lookups(r) = <<[name |-> r.data, type |-> "ANY"]>>
         /\ r.type = "SRV" => Lookups(r) = <<[name |-> r.data, type |-> "ANY"],
                                             [name |-> r.name, type |-> "TXT"]>>
         /\ r.type \in {"A", "AAAA"} => Lookups(r) = <<[name |-> r.name, type |-> "NSEC"]>>
         /\ r.type \notin {"PTR", "SRV", "A", "AAAA"} => Lookups(r) = <<>>
BY DEF Lookups

LEMMA NothingToLookUp ==
  ASSUME NEW r, Lookups(r) = <<>>
  PROVE  \A q : ~Related(r, q)
<1>1. r.type \notin {"PTR", "SRV", "A", "AAAA"}
  BY LookupsByType
<1>2. QED
  BY <1>1 DEF Related

\* A least member, of a set of positions.
LEMMA LeastMember ==
  ASSUME NEW S, S \subseteq Nat, S # {}
  PROVE  Min(S) \in S /\ \A x \in S : Min(S) <= x
<1> DEFINE Lower == {n \in Nat : \A x \in S : n <= x}
<1>1. PICK m \in S : \A x \in S : m <= x
  <2>1. SUFFICES ASSUME \A m \in S : \E x \in S : x < m PROVE FALSE
    BY DEF Lower
  <2>2. PICK n \in S : TRUE
    OBVIOUS
  <2>3. 0 \in Lower
    OBVIOUS
  <2>4. \A m \in Nat : m < n + 1 /\ m \in Lower => m + 1 \in Lower
    <3>1. SUFFICES ASSUME NEW m \in Nat, m \in Lower PROVE m + 1 \in Lower
      OBVIOUS
    <3>2. m \notin S
      BY <2>1, <3>1
    <3>3. \A x \in S : m + 1 <= x
      BY <3>1, <3>2
    <3>4. QED
      BY <3>3
  <2>5. \A m \in 0..(n + 1) : m \in Lower
    <3> HIDE DEF Lower
    <3>1. n + 1 \in Nat
      BY <2>2
    <3>2. QED
      BY <2>3, <2>4, <3>1, InductionUpTo
  <2>6. n + 1 <= n
    <3>1. n + 1 \in 0..(n + 1)
      BY <2>2
    <3>2. n + 1 \in Lower
      BY <2>5, <3>1
    <3>3. QED
      BY <2>2, <3>2
  <2>7. QED
    BY <2>2, <2>6
<1>2. QED
  BY <1>1 DEF Min

\* Both lists of a reply, by their names.
LEMMA ListsOf ==
  ASSUME NEW S, NEW rep \in Reply(S), NEW list \in {"ans", "add"}
  PROVE  /\ rep["ans"] = rep.ans /\ rep["add"] = rep.add
         /\ rep[list] \in Seq(S) /\ rep.ans \in Seq(S) /\ rep.add \in Seq(S)
         /\ DOMAIN rep[list] = 1..Len(rep[list]) /\ Len(rep[list]) \in Nat
BY DEF Reply

\* The walk through the lists goes on with the next record to look up, and
\* ends when there is none left.
LEMMA Continues ==
  ASSUME NEW rep \in Reply(Records), NEW list \in {"ans", "add"},
         NEW at \in 0..Len(rep[list]), Upto(rep, list, at),
         list = "add" => AllOf(rep, "ans"), ContinueWith(rep, list, at)
  PROVE  \/ pc' = "related" /\ Pending(rep, work')
         \/ pc' = "send" /\ Ready(rep)
<1>1. /\ rep[list] \in Seq(Records)
      /\ DOMAIN rep[list] = 1..Len(rep[list]) /\ Len(rep[list]) \in Nat
  BY ListsOf
<1>2. ASSUME NEW l \in {"ans", "add"}, NEW n \in 0..Len(rep[l]), Upto(rep, l, n),
             Ahead(rep, l, n) = {}
      PROVE  AllOf(rep, l)
  <2>1. DOMAIN rep[l] = 1..Len(rep[l]) /\ Len(rep[l]) \in Nat
    BY ListsOf
  <2>2. ASSUME NEW i \in 1..Len(rep[l]) PROVE Answered(rep, rep[l][i])
    <3>1. CASE i <= n
      <4>1. i \in 1..n
        BY <2>1, <3>1
      <4>2. QED
        BY <1>2, <4>1 DEF Upto
    <3>2. CASE n < i
      <4>1. i \in (n + 1)..Len(rep[l])
        BY <2>1, <3>2
      <4>2. Lookups(rep[l][i]) = <<>>
        BY <1>2, <4>1 DEF Ahead
      <4>3. QED
        BY <4>2, NothingToLookUp DEF Answered
    <3>3. QED
      BY <2>1, <3>1, <3>2
  <2>3. QED
    BY <2>1, <2>2 DEF AllOf, ToSet
<1>3. ASSUME NEW l \in {"ans", "add"}, NEW n \in 0..Len(rep[l]), Upto(rep, l, n),
             l = "add" => AllOf(rep, "ans"), Ahead(rep, l, n) # {},
             work' = [list |-> l, at |-> Min(Ahead(rep, l, n)), lookup |-> 1]
      PROVE  Pending(rep, work')
  <2>1. DOMAIN rep[l] = 1..Len(rep[l]) /\ Len(rep[l]) \in Nat
    BY ListsOf
  <2> DEFINE m == Min(Ahead(rep, l, n))
  <2>2. m \in Ahead(rep, l, n) /\ \A x \in Ahead(rep, l, n) : m <= x
    <3>1. Ahead(rep, l, n) \subseteq Nat
      BY <2>1 DEF Ahead
    <3>2. QED
      BY <1>3, <3>1, LeastMember
  <2> HIDE DEF m
  <2>3. m \in (n + 1)..Len(rep[l]) /\ Lookups(rep[l][m]) # <<>>
    BY <2>2 DEF Ahead
  <2>4. ASSUME NEW i \in 1..(m - 1) PROVE Answered(rep, rep[l][i])
    <3>1. CASE i <= n
      <4>1. i \in 1..n
        BY <2>1, <2>3, <3>1
      <4>2. QED
        BY <1>3, <4>1 DEF Upto
    <3>2. CASE n < i
      <4>1. i \in (n + 1)..Len(rep[l]) /\ ~(m <= i)
        BY <2>1, <2>3, <3>2
      <4>2. Lookups(rep[l][i]) = <<>>
        BY <2>2, <4>1 DEF Ahead
      <4>3. QED
        BY <4>2, NothingToLookUp DEF Answered
    <3>3. QED
      BY <2>1, <2>3, <3>1, <3>2
  <2>5. /\ work'.list = l /\ work'.at = m /\ work'.lookup = 1
        /\ work' \in [list : {"ans", "add"}, at : Nat, lookup : Nat]
    BY <1>3, <2>1, <2>3 DEF m
  <2>6. 1 \in DOMAIN Lookups(rep[l][m])
    BY <2>3, LookupsByType
  <2>7. m \in DOMAIN rep[l]
    BY <2>1, <2>3
  <2>8. Upto(rep, l, m - 1)
    BY <2>4 DEF Upto
  <2>9. QED
    BY <1>3, <2>5, <2>6, <2>7, <2>8 DEF Pending
<1>4. CASE Ahead(rep, list, at) # {}
  BY <1>3, <1>4 DEF ContinueWith
<1>5. CASE Ahead(rep, list, at) = {} /\ list = "ans" /\ Ahead(rep, "add", 0) # {}
  <2>1. AllOf(rep, "ans")
    BY <1>2, <1>5
  <2>2. 0 \in 0..Len(rep["add"]) /\ Upto(rep, "add", 0)
    BY ListsOf DEF Upto
  <2>3. pc' = "related" /\ work' = [list |-> "add", at |-> Min(Ahead(rep, "add", 0)), lookup |-> 1]
    BY <1>5 DEF ContinueWith
  <2>4. QED
    BY <1>3, <1>5, <2>1, <2>2, <2>3
<1>6. CASE Ahead(rep, list, at) = {} /\ ~(list = "ans" /\ Ahead(rep, "add", 0) # {})
  <2>1. AllOf(rep, list)
    BY <1>2, <1>6
  <2>2. pc' = "send"
    BY <1>6 DEF ContinueWith
  <2>3. CASE list = "add"
    BY <2>1, <2>2, <2>3 DEF Ready
  <2>4. CASE list = "ans"
    <3>1. 0 \in 0..Len(rep["add"]) /\ Upto(rep, "add", 0)
      BY ListsOf DEF Upto
    <3>2. AllOf(rep, "add")
      BY <1>2, <1>6, <2>4, <3>1
    <3>3. QED
      BY <2>1, <2>2, <2>4, <3>2 DEF Ready
  <2>5. QED
    BY <2>3, <2>4
<1>7. QED
  BY <1>4, <1>5, <1>6

\* The state a reply is looked at in matters only by the group.
LEMMA Renamed ==
  ASSUME Records' = Records
  PROVE  /\ Pending(reply', work') => Pending(reply, work)'
         /\ Ready(reply') => Ready(reply)'
BY DEF Pending, Ready, Upto, AllOf, Answered, HostKnown

\* What one lookup adds to a reply.
LEMMA LookedUp ==
  ASSUME Lists, NEW rep \in Reply(Records), NEW name, NEW type,
         NEW new, new = PopulateAdd(rep, name, type)
  PROVE  /\ new \in Reply(Records) /\ new.ans = rep.ans
         /\ ToSet(new.add) = ToSet(rep.add) \cup Asked(group, name, type)
         /\ Len(rep.add) <= Len(new.add)
         /\ \A i \in 1..Len(rep.add) : new.add[i] = rep.add[i]
<1>1. PICK R : R = Records
  OBVIOUS
<1>2. group \in Seq(R) /\ rep.add \in Seq(R)
  BY <1>1 DEF Lists, Reply
<1> DEFINE S == Asked(group, name, type)
           b == AppendFrom(rep.add, group, S)
           k == Kept(group, S \ ToSet(rep.add))
<1>3. S \subseteq ToSet(group)
  BY DEF Asked
<1> HIDE DEF S
<1>4. new.add = b /\ new.ans = rep.ans
  BY DEF PopulateAdd, S, Reply
<1>5. ToSet(b) = ToSet(rep.add) \cup (ToSet(group) \cap S)
  BY <1>2, Appended
<1>6. k \in Seq(R)
  BY <1>2, KeptMembers
<1>7. b = rep.add \o k
  BY DEF AppendFrom
<1> HIDE DEF k
<1>8. Len(rep.add) <= Len(rep.add \o k) /\ \A i \in 1..Len(rep.add) : (rep.add \o k)[i] = rep.add[i]
  BY <1>2, <1>6
<1>9. new \in Reply(Records)
  BY Populated
<1> HIDE DEF b
<1>10. QED
  BY <1>3, <1>4, <1>5, <1>7, <1>8, <1>9 DEF S

\* What one lookup, and then all the lookups of a record, leave answered.
LEMMA LookupAnswers ==
  ASSUME Lists, NEW rep \in Reply(Records), Pending(rep, work),
         NEW r, r = rep[work.list][work.at],
         NEW l, l = Lookups(r)[work.lookup],
         NEW new, new = PopulateAdd(rep, l.name, l.type)
  PROVE  /\ work.lookup < Len(Lookups(r)) => /\ Lookups(r) = <<Lookups(r)[1], Lookups(r)[2]>>
                                             /\ work.lookup = 1 /\ HostKnown(new, r)
         /\ ~(work.lookup < Len(Lookups(r))) => Answered(new, r)
<1>1. ToSet(new.add) = ToSet(rep.add) \cup Asked(group, l.name, l.type)
  <2>1. PICK name, type : name = l.name /\ type = l.type
    OBVIOUS
  <2>2. new = PopulateAdd(rep, name, type)
    BY <2>1
  <2>3. ToSet(new.add) = ToSet(rep.add) \cup Asked(group, name, type)
    BY <2>2, LookedUp
  <2>4. QED
    BY <2>1, <2>3
<1>2. work.lookup \in DOMAIN Lookups(r) /\ (work.lookup > 1 => HostKnown(rep, r))
  BY DEF Pending
<1>3. \A q \in Asked(group, l.name, l.type) : q \in ToSet(new.add)
  BY <1>1
<1>4. CASE r.type = "PTR"
  <2>1. work.lookup = 1 /\ Len(Lookups(r)) = 1 /\ l = [name |-> r.data, type |-> "ANY"]
    BY <1>2, <1>4, LookupsByType
  <2>2. l.name = r.data /\ l.type = "ANY"
    BY <2>1
  <2>3. QED
    <3>1. Answered(new, r)
      BY <1>3, <1>4, <2>2 DEF Answered, Related, Asked, Records
    <3>2. QED
      BY <2>1, <3>1
<1>5. CASE r.type = "SRV"
  <2> DEFINE x == [name |-> r.data, type |-> "ANY"]
             y == [name |-> r.name, type |-> "TXT"]
  <2>1. Lookups(r) = <<x, y>>
    BY <1>5, LookupsByType
  <2>2. x.name = r.data /\ x.type = "ANY" /\ y.name = r.name /\ y.type = "TXT"
    OBVIOUS
  <2> HIDE DEF x, y
  <2>3. /\ work.lookup \in 1..2 /\ Len(Lookups(r)) = 2
        /\ Lookups(r)[1] = x /\ Lookups(r)[2] = y
    BY <1>2, <2>1
  <2>4. CASE work.lookup = 1
    <3>1. l.name = r.data /\ l.type = "ANY"
      BY <2>2, <2>3, <2>4
    <3>2. HostKnown(new, r)
      BY <1>3, <3>1 DEF HostKnown, Asked, Records
    <3>3. QED
      BY <2>1, <2>3, <2>4, <3>2
  <2>5. CASE work.lookup = 2
    <3>1. l.name = r.name /\ l.type = "TXT"
      BY <2>2, <2>3, <2>5
    <3>2. HostKnown(rep, r)
      BY <1>2, <2>5
    <3>3. HostKnown(new, r)
      BY <1>1, <3>2 DEF HostKnown
    <3>4. Answered(new, r)
      BY <1>3, <1>5, <3>1, <3>3 DEF HostKnown, Answered, Related, Asked, Records
    <3>5. QED
      BY <2>3, <2>5, <3>4
  <2>6. work.lookup = 1 \/ work.lookup = 2
    BY <2>3
  <2>7. QED
    BY <2>4, <2>5, <2>6, Zenon
<1>6. CASE r.type \in {"A", "AAAA"}
  <2>1. work.lookup = 1 /\ Len(Lookups(r)) = 1 /\ l = [name |-> r.name, type |-> "NSEC"]
    BY <1>2, <1>6, LookupsByType
  <2>2. l.name = r.name /\ l.type = "NSEC"
    BY <2>1
  <2>3. QED
    <3>1. Answered(new, r)
      BY <1>3, <1>6, <2>2 DEF Answered, Related, Asked, Records
    <3>2. QED
      BY <2>1, <3>1
<1>7. CASE r.type \notin {"PTR", "SRV", "A", "AAAA"}
  <2>1. Lookups(r) = <<>>
    BY <1>7, LookupsByType
  <2>2. QED
    BY <1>2, <2>1
<1>8. QED
  BY <1>4, <1>5, <1>6, <1>7

\* More additional records answer no less.
LEMMA MoreAnswers ==
  ASSUME NEW rep, NEW new, NEW r, ToSet(rep.add) \subseteq ToSet(new.add), Answered(rep, r)
  PROVE  Answered(new, r)
BY DEF Answered

\* One step of the walk through the lists.
LEMMA RelatedStep ==
  ASSUME Lists, Working, AddRelated
  PROVE  Working'
<1>1. reply \in Reply(Records) /\ Pending(reply, work)
  BY DEF Lists, AddRelated, Working
<1> DEFINE r == reply[work.list][work.at]
           l == Lookups(r)[work.lookup]
           new == PopulateAdd(reply, l.name, l.type)
<1>2. /\ reply' = new /\ Records' = Records
      /\ IF work.lookup < Len(Lookups(r))
           THEN work' = [work EXCEPT !.lookup = @ + 1] /\ pc' = pc
           ELSE ContinueWith(new, work.list, work.at)
  BY DEF AddRelated, shared, Records
<1>3. PICK R : R = Records
  OBVIOUS
<1>4. /\ work.list \in {"ans", "add"} /\ work.at \in DOMAIN reply[work.list]
      /\ Upto(reply, work.list, work.at - 1)
      /\ work.list = "add" => AllOf(reply, "ans")
  BY <1>1 DEF Pending
<1> HIDE DEF r, l, new
<1>5. /\ new \in Reply(Records) /\ new.ans = reply.ans
      /\ ToSet(reply.add) \subseteq ToSet(new.add)
      /\ Len(reply.add) <= Len(new.add)
      /\ \A i \in 1..Len(reply.add) : new.add[i] = reply.add[i]
  BY <1>1, LookedUp DEF new
<1>6. /\ DOMAIN reply[work.list] = 1..Len(reply[work.list]) /\ Len(reply[work.list]) \in Nat
      /\ DOMAIN new[work.list] = 1..Len(new[work.list]) /\ Len(new[work.list]) \in Nat
      /\ reply["ans"] = reply.ans /\ reply["add"] = reply.add
      /\ new["ans"] = new.ans /\ new["add"] = new.add
  BY <1>1, <1>4, <1>5, ListsOf
<1>7. /\ Len(reply[work.list]) <= Len(new[work.list])
      /\ \A i \in 1..Len(reply[work.list]) : new[work.list][i] = reply[work.list][i]
  BY <1>4, <1>5, <1>6
<1>8. Upto(new, work.list, work.at - 1)
  <2>1. ASSUME NEW i \in 1..(work.at - 1) PROVE Answered(new, new[work.list][i])
    <3>1. i \in 1..Len(reply[work.list])
      BY <1>4, <1>6
    <3>2. Answered(reply, reply[work.list][i])
      BY <1>4 DEF Upto
    <3>3. QED
      BY <1>5, <1>7, <3>1, <3>2, MoreAnswers
  <2>2. QED
    BY <2>1 DEF Upto
<1>9. work.list = "add" => AllOf(new, "ans")
  BY <1>4, <1>5, <1>6, MoreAnswers DEF AllOf
<1>10. /\ work.lookup < Len(Lookups(r)) => /\ Lookups(r) = <<Lookups(r)[1], Lookups(r)[2]>>
                                           /\ work.lookup = 1 /\ HostKnown(new, r)
       /\ ~(work.lookup < Len(Lookups(r))) => Answered(new, r)
  BY <1>1, LookupAnswers DEF r, l, new
<1>11. new[work.list][work.at] = r /\ work.at \in 1..Len(new[work.list]) /\ work.at \in Nat
  BY <1>4, <1>6, <1>7 DEF r
<1>12. CASE work.lookup < Len(Lookups(r))
  <2>1. /\ work'.list = work.list /\ work'.at = work.at /\ work'.lookup = 2 /\ pc' = "related"
        /\ work' \in [list : {"ans", "add"}, at : Nat, lookup : Nat]
    <3>1. work \in [list : {"ans", "add"}, at : Nat, lookup : Nat]
      BY <1>1 DEF Pending
    <3>2. work' = [work EXCEPT !.lookup = work.lookup + 1] /\ pc' = pc
      BY <1>2, <1>12
    <3>3. pc = "related" /\ work.lookup + 1 = 2
      BY <1>10, <1>12 DEF AddRelated
    <3>4. work' = [work EXCEPT !.lookup = 2]
      BY <3>2, <3>3
    <3>5. QED
      BY <3>1, <3>2, <3>3, <3>4
  <2>2. 2 \in DOMAIN Lookups(r)
    BY <1>10, <1>12
  <2>3. Pending(new, work')
    BY <1>4, <1>6, <1>8, <1>9, <1>10, <1>11, <1>12, <2>1, <2>2 DEF Pending
  <2>4. QED
    BY <1>2, <2>1, <2>3, Renamed DEF Working
<1>13. CASE ~(work.lookup < Len(Lookups(r)))
  <2>1. Upto(new, work.list, work.at)
    <3>1. ASSUME NEW i \in 1..work.at PROVE Answered(new, new[work.list][i])
      <4>1. i = work.at \/ i \in 1..(work.at - 1)
        BY <1>11
      <4>2. QED
        BY <1>8, <1>10, <1>11, <1>13, <4>1 DEF Upto
    <3>2. QED
      BY <3>1 DEF Upto
  <2>2. work.at \in 0..Len(new[work.list])
    BY <1>11
  <2>3. \/ pc' = "related" /\ Pending(new, work')
        \/ pc' = "send" /\ Ready(new)
    BY <1>2, <1>4, <1>5, <1>9, <1>13, <2>1, <2>2, Continues
  <2>4. QED
    BY <1>2, <2>3, Renamed DEF Working
<1>14. QED
  BY <1>12, <1>13

----------------------------------------------------------------------------
\* What the program adds while a reply is made, nothing in the group refers to.
NothingOwed ==
  /\ Records \subseteq Records'
  /\ \A r \in Records, q \in Records' \ Records :
       r.name # ServicesName => ~Related(r, q)

LEMMA InitOrigin == Init => Origin
BY DEF Init, Origin, HostsBefore, Records, ToSet

\* A call adds records of its own, which no earlier one refers to.
LEMMA CallAdds ==
  ASSUME InOrder, Calls, Origin, Calling("host") \/ Calling("rr") \/ Calling("register"),
         Records \subseteq Records', Records' \ Records \subseteq Made(program, next)
  PROVE  NothingOwed
<1>1. next \in DOMAIN program /\ next \in Nat /\ step = "call" /\ program \in Programs
  <2>1. program \in Seq(ToSet(program)) /\ next \in 1..(Len(program) + 1) /\ step = "call"
        /\ next <= Len(program) /\ program \in Programs
    BY ProgramsAssumption DEF Calling, Calls
  <2>2. Len(program) \in Nat /\ DOMAIN program = 1..Len(program)
    BY <2>1
  <2>3. QED
    BY <2>1, <2>2
<1>2. ASSUME NEW r \in Records, NEW q \in Records' \ Records, r.name # ServicesName
      PROVE  ~Related(r, q)
  <2>1. PICK i \in DOMAIN program : i < next /\ r \in Made(program, i)
    BY <1>1 DEF Origin
  <2>2. q \in Made(program, next)
    OBVIOUS
  <2>3. QED
    BY <1>1, <1>2, <2>1, <2>2 DEF InOrder
<1>3. QED
  BY <1>2 DEF NothingOwed

\* The hosts named by then only become more.
LEMMA HostsGrow ==
  ASSUME NEW p, NEW n \in Nat, DOMAIN p \subseteq Nat
  PROVE  HostsBefore(p, n) \subseteq HostsBefore(p, n + 1)
BY DEF HostsBefore

\* A call that is over: its records stay those of the calls made.
LEMMA CallReturns ==
  ASSUME Calls, next' = next + 1, program' = program, step' = "call",
         hostname' \in HostsBefore(program, next + 1),
         \A r \in Records' : \E i \in DOMAIN program : i <= next /\ r \in Made(program, i)
  PROVE  Origin'
<1>1. next \in Nat /\ DOMAIN program \subseteq Nat
  <2>1. program \in Seq(ToSet(program)) /\ next \in 1..(Len(program) + 1)
    BY ProgramsAssumption DEF Calls
  <2>2. Len(program) \in Nat /\ DOMAIN program = 1..Len(program)
    BY <2>1
  <2>3. QED
    BY <2>1, <2>2
<1>2. ASSUME NEW r \in Records'
      PROVE  \E i \in DOMAIN program' : /\ i < next' \/ (i = next' /\ step' = "notify")
                                        /\ r \in Made(program', i)
  <2>1. PICK i \in DOMAIN program : i <= next /\ r \in Made(program, i)
    OBVIOUS
  <2>2. i < next + 1
    BY <1>1, <2>1
  <2>3. QED
    BY <2>1, <2>2
<1>3. QED
  BY <1>2 DEF Origin

LEMMA StepOrigin ==
  ASSUME InOrder, Lists, Calls, Control, Origin, [Next]_vars
  PROVE  Origin' /\ NothingOwed
<1>1. next \in Nat /\ DOMAIN program \subseteq Nat /\ DOMAIN program = 1..Len(program)
      /\ Len(program) \in Nat
  <2>1. program \in Seq(ToSet(program)) /\ next \in 1..(Len(program) + 1)
    BY ProgramsAssumption DEF Calls
  <2>2. Len(program) \in Nat /\ DOMAIN program = 1..Len(program)
    BY <2>1
  <2>3. QED
    BY <2>1, <2>2
<1>2. hostname \in HostsBefore(program, next + 1)
  BY <1>1, HostsGrow DEF Origin
<1>3. CASE SetHostname \/ AddRR
  <2>1. /\ Records \subseteq Records' /\ Records' \ Records \subseteq Made(program, next)
    BY <1>3, AddedRecords
  <2>2. Calling("host") \/ Calling("rr")
    BY <1>3 DEF SetHostname, AddRR
  <2>3. NothingOwed
    BY <2>1, <2>2, CallAdds
  <2>4. next \in DOMAIN program /\ step = "call"
    BY <1>1, <2>2 DEF Calling, Calls
  <2>5. next' = next + 1 /\ program' = program /\ step' = "call"
    BY <1>3 DEF SetHostname, AddRR, Returned
  <2>6. hostname' \in HostsBefore(program, next + 1)
    <3>1. CASE AddRR
      BY <1>2, <3>1 DEF AddRR
    <3>2. CASE SetHostname
      <4>1. hostname' = program[next].host /\ program[next].op = "host"
        BY <3>2 DEF SetHostname, Calling
      <4>2. next < next + 1
        BY <1>1
      <4>3. QED
        BY <2>4, <4>1, <4>2 DEF HostsBefore
    <3>3. QED
      BY <1>3, <3>1, <3>2
  <2>7. ASSUME NEW r \in Records'
        PROVE  \E i \in DOMAIN program : i <= next /\ r \in Made(program, i)
    <3>1. CASE r \in Records
      <4>1. PICK i \in DOMAIN program : i < next /\ r \in Made(program, i)
        BY <2>4, <3>1 DEF Origin
      <4>2. i <= next
        BY <1>1, <4>1
      <4>3. QED
        BY <4>1, <4>2
    <3>2. CASE r \notin Records
      BY <1>1, <2>1, <2>4, <3>2
    <3>3. QED
      BY <3>1, <3>2
  <2>8. QED
    BY <2>3, <2>5, <2>6, <2>7, CallReturns
<1>4. CASE RegisterSvc
  <2>1. program[next].op = "register" /\ Calling("register") /\ next \in DOMAIN program
        /\ step = "call"
    BY <1>1, <1>4 DEF RegisterSvc, Calling, Calls
  <2> DEFINE s == program[next].service
             target == IF s.host = None THEN hostname ELSE s.host
             own == {PtrRecord(s), BrowseRecord(s), SrvRecord(s, target)}
                      \cup (IF s.txt = None THEN {} ELSE {TxtRecord(s)})
  <2>2. Records \subseteq Records' /\ Records' \ Records \subseteq own
    BY <1>4, Registered
  <2>3. own \subseteq Made(program, next)
    <3> DEFINE hosts == IF s.host = None THEN HostsBefore(program, next) ELSE {s.host}
    <3>1. target \in hosts
      BY DEF Origin
    <3>2. Made(program, next) = {PtrRecord(s), BrowseRecord(s)}
              \cup {SrvRecord(s, h) : h \in hosts}
              \cup (IF s.txt = None THEN {} ELSE {TxtRecord(s)})
      BY <2>1 DEF Made
    <3> HIDE DEF target, hosts, s
    <3>3. QED
      BY <3>1, <3>2
  <2> HIDE DEF own
  <2>4. Records' \ Records \subseteq Made(program, next)
    BY <2>2, <2>3
  <2>5. NothingOwed
    BY <2>1, <2>2, <2>4, CallAdds
  <2>6. UNCHANGED <<program, next, hostname>> /\ step' = "notify"
    BY <1>4 DEF RegisterSvc
  <2>7. ASSUME NEW r \in Records'
        PROVE  \E i \in DOMAIN program : (i < next \/ i = next) /\ r \in Made(program, i)
    <3>1. CASE r \in Records
      BY <3>1 DEF Origin
    <3>2. CASE r \notin Records
      BY <2>1, <2>4, <3>2
    <3>3. QED
      BY <3>1, <3>2
  <2>8. QED
    BY <2>5, <2>6, <2>7 DEF Origin
<1>5. ASSUME UNCHANGED <<program, next, hostname, group>>, step = "notify" => step' = "notify"
      PROVE  Origin' /\ NothingOwed
  BY <1>5 DEF Origin, NothingOwed, Records
<1>6. ASSUME UNCHANGED <<program, hostname, group>>, next' = next + 1, step' = "call"
      PROVE  Origin' /\ NothingOwed
  <2>1. Records' = Records
    BY <1>6 DEF Records
  <2>2. \A r \in Records' : \E i \in DOMAIN program : i <= next /\ r \in Made(program, i)
    BY <1>1, <2>1 DEF Origin
  <2>3. Origin'
    BY <1>2, <1>6, <2>2, CallReturns
  <2>4. QED
    BY <2>1, <2>3 DEF NothingOwed
<1>7. CASE NotifyServer \/ FreeServer
  BY <1>6, <1>7 DEF NotifyServer, FreeServer, Returned, shared
<1>8. CASE StopServer \/ WakeServer
  BY <1>5, <1>8 DEF StopServer, WakeServer, Calling, shared
<1>9. CASE ThreadNext
  <2>1. UNCHANGED <<program, next, step, hostname, group>>
    BY <1>9 DEF ThreadNext, CheckStop, Woken, Receive, ReceiveError, Question,
         SuppressKnown, AddRelated, Send, TakeAnnouncement, AnnounceType,
         AnnounceBrowse, Goodbye, Farewell, ThreadOnly, programVars, shared
  <2>2. QED
    BY <1>5, <2>1
<1>10. ASSUME NEW q \in Queries, Arrive(q) PROVE Origin' /\ NothingOwed
  BY <1>5, <1>10 DEF Arrive, programVars, shared
<1>11. CASE UNCHANGED vars
  BY <1>5, <1>11 DEF vars, programVars, shared
<1>12. QED
  BY <1>3, <1>4, <1>7, <1>8, <1>9, <1>10, <1>11 DEF Next, ProgramNext

----------------------------------------------------------------------------
\* What is answered stays answered while the program adds records.
LEMMA StillWorking ==
  ASSUME Lists, Working, NothingOwed, UNCHANGED <<pc, reply, work>>
  PROVE  Working'
<1>1. reply \in Reply(Records)
  BY DEF Lists
<1>2. ASSUME NEW r \in Records, Answered(reply, r)
      PROVE  r.name # ServicesName =>
               \A q \in Records' : Related(r, q) => q \in ToSet(reply.add)
  BY <1>2 DEF NothingOwed, Answered
<1>3. ASSUME NEW list \in {"ans", "add"}, NEW i \in DOMAIN reply[list]
      PROVE  reply[list][i] \in Records
  <2>1. PICK R : R = Records
    OBVIOUS
  <2>2. reply[list] \in Seq(R)
    BY <1>1, <2>1, ListsOf
  <2>3. QED
    BY <1>3, <2>1, <2>2
<1>4. ASSUME NEW list \in {"ans", "add"}, AllOf(reply, list) PROVE AllOf(reply, list)'
  <2>1. \A r \in ToSet(reply[list]) : r \in Records
    BY <1>3 DEF ToSet
  <2>2. QED
    BY <1>2, <1>4, <2>1 DEF AllOf, Answered
<1>5. pc = "send" => Ready(reply)'
  BY <1>4 DEF Working, Ready
<1>6. ASSUME pc = "related" PROVE Pending(reply, work)'
  <2>1. Pending(reply, work)
    BY <1>6 DEF Working
  <2>2. /\ work \in [list : {"ans", "add"}, at : Nat, lookup : Nat]
        /\ work.at \in DOMAIN reply[work.list]
        /\ Upto(reply, work.list, work.at - 1)
    BY <2>1 DEF Pending
  <2>3. work.list \in {"ans", "add"}
    BY <2>2
  <2>4. DOMAIN reply[work.list] = 1..Len(reply[work.list]) /\ Len(reply[work.list]) \in Nat
    BY <1>1, <2>3, ListsOf
  <2>5. Upto(reply, work.list, work.at - 1)'
    <3>1. ASSUME NEW i \in 1..(work.at - 1) PROVE Answered(reply, reply[work.list][i])'
      <4>1. i \in DOMAIN reply[work.list]
        BY <2>2, <2>4
      <4>2. Answered(reply, reply[work.list][i]) /\ reply[work.list][i] \in Records
        BY <1>3, <2>2, <2>3, <4>1 DEF Upto
      <4>3. QED
        BY <1>2, <4>2 DEF Answered
    <3>2. QED
      BY <3>1 DEF Upto
  <2>6. (work.list = "add" => AllOf(reply, "ans"))'
    BY <1>4, <2>1 DEF Pending
  <2> DEFINE r == reply[work.list][work.at]
  <2>7. r \in Records
    BY <1>3, <2>2, <2>3
  <2>8. ASSUME work.lookup > 1 PROVE HostKnown(reply, r)'
    <3>1. HostKnown(reply, r) /\ work.lookup \in DOMAIN Lookups(r)
      BY <2>1, <2>8 DEF Pending
    <3> HIDE DEF r
    <3>2. r.type = "SRV"
      <4>1. CASE r.type = "PTR"
        BY <2>8, <3>1, <4>1, LookupsByType
      <4>2. CASE r.type \in {"A", "AAAA"}
        BY <2>8, <3>1, <4>2, LookupsByType
      <4>3. CASE r.type \notin {"PTR", "SRV", "A", "AAAA"}
        BY <2>8, <3>1, <4>3, LookupsByType
      <4>4. QED
        BY <4>1, <4>2, <4>3
    <3>3. \A q : q.name = r.data /\ q.type # "NSEC" => Related(r, q)
      BY <3>2 DEF Related
    <3>4. r.name # ServicesName =>
            \A q \in Records' : q.name = r.data /\ q.type # "NSEC" => q \in ToSet(reply.add)
      BY <2>7, <3>1, <3>3 DEF HostKnown, NothingOwed
    <3>5. r' = r
      BY DEF r
    <3>6. QED
      BY <3>4, <3>5 DEF HostKnown
  <2>9. work' = work /\ reply' = reply
    OBVIOUS
  <2>10. QED
    BY <2>1, <2>5, <2>6, <2>8, <2>9 DEF Pending
<1>7. QED
  BY <1>5, <1>6 DEF Working

\* The walk through the lists begins.
LEMMA WalkBegins ==
  ASSUME Lists', Records' = Records, ContinueWith(reply', "ans", 0)
  PROVE  Working'
<1>1. PICK rep : rep = reply'
  OBVIOUS
<1>2. rep \in Reply(Records) /\ ContinueWith(rep, "ans", 0)
  BY <1>1 DEF Lists
<1>3. 0 \in 0..Len(rep["ans"]) /\ Upto(rep, "ans", 0)
  BY <1>2, ListsOf DEF Upto
<1>4. \/ pc' = "related" /\ Pending(rep, work')
      \/ pc' = "send" /\ Ready(rep)
  BY <1>2, <1>3, Continues
<1>5. QED
  BY <1>1, <1>4, Renamed DEF Working

LEMMA StepWorking ==
  ASSUME Lists, Lists', Working, NothingOwed, [Next]_vars
  PROVE  Working'
<1>1. CASE AddRelated
  BY <1>1, RelatedStep
<1>2. CASE SuppressKnown \/ AnnounceBrowse
  <2>1. Records' = Records
    BY <1>2 DEF SuppressKnown, AnnounceBrowse, shared, Records
  <2>2. ContinueWith(reply', "ans", 0)
    <3>1. \E rep : reply' = rep /\ ContinueWith(rep, "ans", 0)
      BY <1>2 DEF SuppressKnown, AnnounceBrowse
    <3>2. PICK rep : reply' = rep /\ ContinueWith(rep, "ans", 0)
      BY <3>1
    <3>3. QED
      BY <3>2
  <2>3. QED
    BY <2>1, <2>2, WalkBegins
<1>3. CASE ThreadNext /\ ~AddRelated /\ ~SuppressKnown /\ ~AnnounceBrowse
  <2>1. pc' \notin {"related", "send"}
    BY <1>3 DEF ThreadNext, CheckStop, Woken, Receive, ReceiveError, Question, Send,
         TakeAnnouncement, AnnounceType, Goodbye, Farewell, Parse
  <2>2. QED
    BY <2>1 DEF Working
<1>4. CASE ProgramNext
  BY <1>4, StillWorking DEF ProgramNext, SetHostname, AddRR, RegisterSvc, NotifyServer,
         StopServer, WakeServer, FreeServer, thread
<1>5. ASSUME NEW q \in Queries, Arrive(q) PROVE Working'
  BY <1>5, StillWorking DEF Arrive, thread
<1>6. CASE UNCHANGED vars
  BY <1>6, StillWorking DEF vars, thread
<1>7. QED
  BY <1>1, <1>2, <1>3, <1>4, <1>5, <1>6 DEF Next

\* A reply is sent whole.
LEMMA SendsWhole ==
  ASSUME Lists, Ready(reply)
  PROVE  Whole(reply)
<1>1. PICK R : R = Records
  OBVIOUS
<1>2. reply.ans \in Seq(R) /\ reply.add \in Seq(R) /\ reply["ans"] = reply.ans
      /\ reply["add"] = reply.add
  BY <1>1, ListsOf DEF Lists
<1>3. /\ reply.ans \o reply.add \in Seq(R)
      /\ ToSet(reply.ans \o reply.add) = ToSet(reply.ans) \cup ToSet(reply.add)
  BY <1>2, Concatenated
<1>4. ToSet(reply.ans \o reply.add) \subseteq R
  BY <1>3, OwnMembers
<1>5. \A r \in ToSet(reply.ans) \cup ToSet(reply.add) : Answered(reply, r)
  BY <1>2 DEF Ready, AllOf
<1>6. QED
  BY <1>1, <1>3, <1>4, <1>5 DEF Whole, Answered

\* The goodbye refers to nothing: its services are gone.
LEMMA GoodbyeIsWhole ==
  ASSUME Lists, Pointers, Heard, pc = "farewell"
  PROVE  Whole(reply)
<1>1. reply.add = <<>> /\ ToSet(reply.ans) \subseteq zeroed \cap ToSet(services)
  BY DEF Heard
<1>2. PICK R : R = Records
  OBVIOUS
<1>3. PICK a : a = reply.ans /\ a \in Seq(R)
  BY <1>2 DEF Lists, Reply
<1>4. a \o <<>> = a /\ ToSet(a) \subseteq R
  BY <1>3, OwnMembers
<1>5. \A r \in ToSet(a) : r.type = "PTR" /\ Ttl(r) = 0
  BY <1>1, <1>3 DEF Pointers, IsService, Ttl
<1>6. ~(0 > 0)
  OBVIOUS
<1>7. QED
  BY <1>1, <1>2, <1>3, <1>4, <1>5, <1>6 DEF Whole

\* What was sent stays whole while the program adds records.
LEMMA StaysWhole ==
  ASSUME NothingOwed, zeroed \subseteq zeroed', NEW rep, Whole(rep)
  PROVE  /\ ToSet(rep.ans \o rep.add) \subseteq Records'
         /\ \A r \in ToSet(rep.ans \o rep.add) :
              r.name # ServicesName /\ (r.type = "PTR" => (Ttl(r))' > 0) =>
                \A q \in Records' : Related(r, q) => q \in ToSet(rep.ans \o rep.add)
BY DEF NothingOwed, Whole, Ttl, DefaultTtl

LEMMA StepSent ==
  ASSUME DirectoryInv, Working, NothingOwed, sent # None => Whole(sent), [Next]_vars,
         sent' # None
  PROVE  Whole(sent)'
<1> USE DEF DirectoryInv
<1>1. zeroed \subseteq zeroed'
  <2>1. zeroed' = zeroed \/ zeroed' = zeroed \cup ToSet(services)
    <3>1. CASE ThreadNext
      BY <3>1 DEF ThreadNext, CheckStop, Woken, Receive, ReceiveError, Question,
         SuppressKnown, AddRelated, Send, TakeAnnouncement, AnnounceType,
         AnnounceBrowse, Goodbye, Farewell, shared
    <3>2. CASE ProgramNext
      BY <3>2 DEF ProgramNext, SetHostname, AddRR, RegisterSvc, NotifyServer, StopServer,
         WakeServer, FreeServer, shared
    <3>3. ASSUME NEW q \in Queries, Arrive(q) PROVE zeroed' = zeroed
      BY <3>3 DEF Arrive, shared
    <3>4. CASE UNCHANGED vars
      BY <3>4 DEF vars, shared
    <3>5. QED
      BY <3>1, <3>2, <3>3, <3>4 DEF Next
  <2>2. QED
    BY <2>1
<1>2. ASSUME NEW rep, Whole(rep), sent' = rep PROVE Whole(sent)'
  BY <1>1, <1>2, StaysWhole DEF Whole
<1>3. CASE sent' = sent
  BY <1>2, <1>3
<1>4. CASE Send
  <2>1. Ready(reply)
    BY <1>4 DEF Send, Working
  <2>2. Whole(reply)
    BY <2>1, SendsWhole
  <2>3. sent' = sent \/ sent' = reply
    BY <1>4 DEF Send, Transmit
  <2>4. QED
    BY <1>2, <1>3, <2>2, <2>3
<1>5. CASE Farewell
  <2>1. Whole(reply)
    BY <1>5, GoodbyeIsWhole DEF Farewell
  <2>2. sent' = sent \/ sent' = reply
    BY <1>5 DEF Farewell, Transmit
  <2>3. QED
    BY <1>2, <1>3, <2>1, <2>2
<1>6. CASE ThreadNext /\ ~Send /\ ~Farewell
  <2>1. sent' = sent \/ sent' = None
    BY <1>6 DEF ThreadNext, CheckStop, Woken, Receive, ReceiveError, Question,
         SuppressKnown, AddRelated, TakeAnnouncement, AnnounceType, AnnounceBrowse, Goodbye
  <2>2. QED
    BY <1>3, <2>1
<1>7. CASE ProgramNext
  BY <1>3, <1>7 DEF ProgramNext, SetHostname, AddRR, RegisterSvc, NotifyServer, StopServer,
         WakeServer, FreeServer
<1>8. ASSUME NEW q \in Queries, Arrive(q) PROVE Whole(sent)'
  BY <1>3, <1>8 DEF Arrive
<1>9. CASE UNCHANGED vars
  BY <1>3, <1>9 DEF vars
<1>10. QED
  BY <1>4, <1>5, <1>6, <1>7, <1>8, <1>9 DEF Next

LEMMA StepReply ==
  ASSUME InOrder, DirectoryInv, DirectoryInv', ReplyInv, [Next]_vars
  PROVE  ReplyInv'
<1>1. Origin' /\ NothingOwed
  BY StepOrigin DEF DirectoryInv, ReplyInv
<1>2. Working'
  BY <1>1, StepWorking DEF DirectoryInv, ReplyInv
<1>3. sent' # None => Whole(sent)'
  BY <1>1, StepSent DEF ReplyInv
<1>4. QED
  BY <1>1, <1>2, <1>3 DEF ReplyInv

\* Whatever the program registers between two lookups of a reply, and between
\* two packets, no packet names a service or a host without the records that
\* it refers to, for every program that adds them in order (add_related_rr and
\* process_mdns_pkt): the records of a service enter the group together.
THEOREM RepliesAreComplete == InOrder /\ Spec => []ReplyIsComplete
<1>1. InOrder /\ Init => DirectoryInv /\ ReplyInv
  <2>1. Init => Working /\ (sent # None => Whole(sent))
    BY DEF Init, Working
  <2>2. QED
    BY <2>1, InitDirectory, InitOrigin DEF ReplyInv
<1>2. InOrder /\ DirectoryInv /\ ReplyInv /\ [Next]_vars => DirectoryInv' /\ ReplyInv'
  BY StepDirectory, StepReply
<1>3. DirectoryInv /\ ReplyInv => ReplyIsComplete
  BY DEF ReplyInv, Whole, Records, ReplyIsComplete
<1>4. InOrder => []InOrder
  <2>1. InOrder => InOrder'
    BY DEF InOrder
  <2>2. QED
    BY <2>1, PTL
<1>5. QED
  BY <1>1, <1>2, <1>3, <1>4, PTL DEF Spec

----------------------------------------------------------------------------
(***************************************************************************)
(* The wire.                                                               *)
(***************************************************************************)

\* Sequences, whatever they are made of.
LEMMA ListOf ==
  ASSUME NEW S, NEW s \in Seq(S)
  PROVE  IsList(s)
BY DEF IsList, ToSet

LEMMA ListFacts ==
  ASSUME NEW s, IsList(s)
  PROVE  Len(s) \in Nat /\ DOMAIN s = 1..Len(s)
BY DEF IsList

LEMMA TwoLists ==
  ASSUME NEW s, NEW t, IsList(s), IsList(t)
  PROVE  \E S : s \in Seq(S) /\ t \in Seq(S)
<1> DEFINE S == ToSet(s) \cup ToSet(t)
<1>1. ToSet(s) \subseteq S /\ ToSet(t) \subseteq S
  OBVIOUS
<1> HIDE DEF S
<1>2. s \in Seq(S) /\ t \in Seq(S)
  BY <1>1, SeqMonotonic DEF IsList
<1>3. QED
  BY <1>2

LEMMA JoinLists ==
  ASSUME NEW s, NEW t, IsList(s), IsList(t)
  PROVE  /\ IsList(s \o t) /\ Len(s \o t) = Len(s) + Len(t)
         /\ \A i \in 1..Len(s) : (s \o t)[i] = s[i]
         /\ \A i \in 1..Len(t) : (s \o t)[Len(s) + i] = t[i]
<1>1. PICK S : s \in Seq(S) /\ t \in Seq(S)
  BY TwoLists
<1>2. /\ s \o t \in Seq(S) /\ Len(s \o t) = Len(s) + Len(t)
      /\ \A i \in 1..(Len(s) + Len(t)) :
           (s \o t)[i] = IF i <= Len(s) THEN s[i] ELSE t[i - Len(s)]
  BY <1>1
<1>3. Len(s) \in Nat /\ Len(t) \in Nat
  BY <1>1
<1> DEFINE j == s \o t
<1> HIDE DEF j
<1>4. \A i \in 1..Len(s) : j[i] = s[i]
  BY <1>2, <1>3 DEF j
<1>5. \A i \in 1..Len(t) : j[Len(s) + i] = t[i]
  <2>1. SUFFICES ASSUME NEW i \in 1..Len(t) PROVE j[Len(s) + i] = t[i]
    OBVIOUS
  <2>2. Len(s) + i \in 1..(Len(s) + Len(t)) /\ ~(Len(s) + i <= Len(s)) /\ (Len(s) + i) - Len(s) = i
    BY <1>3, <2>1
  <2>3. QED
    BY <1>2, <2>2 DEF j
<1>6. IsList(j)
  BY <1>2, ListOf DEF j
<1>7. QED
  BY <1>2, <1>4, <1>5, <1>6 DEF j

LEMMA SameList ==
  ASSUME NEW s, NEW t, IsList(s), IsList(t), Len(s) = Len(t),
         \A i \in 1..Len(s) : s[i] = t[i]
  PROVE  s = t
<1>1. PICK S : s \in Seq(S) /\ t \in Seq(S)
  BY TwoLists
<1>2. QED
  BY <1>1, SeqEqual

LEMMA FunctionList ==
  ASSUME NEW n \in Nat, NEW f, f = [i \in 1..n |-> f[i]]
  PROVE  IsList(f) /\ Len(f) = n
<1> DEFINE S == {f[i] : i \in 1..n}
<1>1. f \in [1..n -> S]
  OBVIOUS
<1> HIDE DEF S
<1>2. f \in Seq(S) /\ Len(f) = n
  BY <1>1
<1>3. QED
  BY <1>2, ListOf

LEMMA SingleList ==
  ASSUME NEW e
  PROVE  IsList(<<e>>) /\ Len(<<e>>) = 1 /\ <<e>>[1] = e
<1>1. <<e>> \in Seq({e})
  OBVIOUS
<1>2. QED
  BY <1>1, ListOf

LEMMA TripleList ==
  ASSUME NEW a, NEW b, NEW c
  PROVE  /\ IsList(<<a, b, c>>) /\ Len(<<a, b, c>>) = 3
         /\ <<a, b, c>>[1] = a /\ <<a, b, c>>[2] = b /\ <<a, b, c>>[3] = c
<1>1. <<a, b, c>> \in Seq({a, b, c})
  OBVIOUS
<1>2. QED
  BY <1>1, ListOf

LEMMA EmptyList == IsList(<<>>) /\ Len(<<>>) = 0
<1>1. <<>> \in Seq({})
  OBVIOUS
<1>2. QED
  BY <1>1, ListOf

\* The suffixes of a name.
LEMMA SuffixFacts ==
  ASSUME NEW n, IsList(n), NEW i \in 1..(Len(n) + 1)
  PROVE  /\ IsList(Suffix(n, i)) /\ Len(Suffix(n, i)) = Len(n) + 1 - i
         /\ \A j \in 1..(Len(n) + 1 - i) : Suffix(n, i)[j] = n[i + j - 1]
<1>1. n \in Seq(ToSet(n)) /\ Len(n) \in Nat /\ DOMAIN n = 1..Len(n)
  BY DEF IsList
<1>2. \A j \in i..Len(n) : n[j] \in ToSet(n)
  BY <1>1 DEF ToSet
<1>3. /\ SubSeq(n, i, Len(n)) \in Seq(ToSet(n))
      /\ Len(SubSeq(n, i, Len(n))) = IF i <= Len(n) THEN Len(n) - i + 1 ELSE 0
      /\ \A j \in 1..(Len(n) - i + 1) : SubSeq(n, i, Len(n))[j] = n[i + j - 1]
  <2>1. i \in Int /\ Len(n) \in Int
    BY <1>1
  <2>2. QED
    BY <1>2, <2>1, SubSeqProperties
<1>4. Len(n) - i + 1 = Len(n) + 1 - i
      /\ (IF i <= Len(n) THEN Len(n) - i + 1 ELSE 0) = Len(n) + 1 - i
  BY <1>1
<1>5. QED
  BY <1>3, <1>4, ListOf DEF Suffix

LEMMA WholeSuffix ==
  ASSUME NEW n, IsList(n)
  PROVE  Suffix(n, 1) = n
<1>1. Len(n) \in Nat /\ 1 \in 1..(Len(n) + 1)
  BY ListFacts
<1>2. IsList(Suffix(n, 1)) /\ Len(Suffix(n, 1)) = Len(n)
      /\ \A j \in 1..Len(n) : Suffix(n, 1)[j] = n[j]
  <2>1. /\ IsList(Suffix(n, 1)) /\ Len(Suffix(n, 1)) = Len(n) + 1 - 1
        /\ \A j \in 1..(Len(n) + 1 - 1) : Suffix(n, 1)[j] = n[1 + j - 1]
    BY <1>1, SuffixFacts
  <2>2. Len(n) + 1 - 1 = Len(n) /\ \A j \in 1..Len(n) : 1 + j - 1 = j
    BY <1>1
  <2>3. QED
    BY <2>1, <2>2
<1>3. QED
  BY <1>2, SameList

LEMMA RestFacts ==
  ASSUME NEW n, IsList(n), NEW d \in Nat, Len(n) = d + 1
  PROVE  /\ IsList(Suffix(n, 2)) /\ Len(Suffix(n, 2)) = d
         /\ \A j \in 1..d : Suffix(n, 2)[j] = n[j + 1]
<1>1. 2 \in 1..(Len(n) + 1) /\ Len(n) + 1 - 2 = d /\ \A j \in 1..d : 2 + j - 1 = j + 1
  OBVIOUS
<1>2. /\ IsList(Suffix(n, 2)) /\ Len(Suffix(n, 2)) = Len(n) + 1 - 2
      /\ \A j \in 1..(Len(n) + 1 - 2) : Suffix(n, 2)[j] = n[2 + j - 1]
  BY <1>1, SuffixFacts
<1>3. QED
  BY <1>1, <1>2

LEMMA NextSuffix ==
  ASSUME NEW n, IsList(n), NEW i \in 1..Len(n)
  PROVE  /\ Suffix(n, i) # <<>> /\ Suffix(n, i)[1] = n[i]
         /\ Suffix(Suffix(n, i), 2) = Suffix(n, i + 1)
<1> DEFINE s == Suffix(n, i)  t == Suffix(n, i + 1)  u == Suffix(s, 2)  d == Len(n) - i
<1>1. Len(n) \in Nat /\ i \in Nat /\ i \in 1..(Len(n) + 1) /\ i + 1 \in 1..(Len(n) + 1)
      /\ d \in Nat
  BY ListFacts
<1>2. Len(n) + 1 - i = d + 1 /\ Len(n) + 1 - (i + 1) = d
  BY <1>1
<1>3. IsList(s) /\ Len(s) = d + 1 /\ \A j \in 1..(d + 1) : s[j] = n[i + j - 1]
  BY <1>1, <1>2, SuffixFacts
<1>4. IsList(t) /\ Len(t) = d /\ \A j \in 1..d : t[j] = n[(i + 1) + j - 1]
  BY <1>1, <1>2, SuffixFacts
<1> HIDE DEF s, t, d
<1>5. IsList(u) /\ Len(u) = d /\ \A j \in 1..d : u[j] = s[j + 1]
  BY <1>1, <1>3, RestFacts
<1> HIDE DEF u
<1>6. \A j \in 1..d : u[j] = t[j]
  <2>1. SUFFICES ASSUME NEW j \in 1..d PROVE u[j] = t[j]
    OBVIOUS
  <2>2. j \in Nat /\ j + 1 \in 1..(d + 1)
        /\ i + (j + 1) - 1 = i + j /\ (i + 1) + j - 1 = i + j
    BY <1>1, <2>1
  <2>3. u[j] = s[j + 1] /\ s[j + 1] = n[i + j] /\ t[j] = n[i + j]
    BY <1>3, <1>4, <1>5, <2>1, <2>2
  <2>4. QED
    BY <2>3
<1>7. u = t
  BY <1>4, <1>5, <1>6, SameList
<1>8. s # <<>>
  BY <1>1, <1>3, EmptyList
<1>9. s[1] = n[i]
  <2>1. 1 \in 1..(d + 1) /\ i + 1 - 1 = i
    BY <1>1
  <2>2. QED
    BY <1>3, <2>1
<1>10. QED
  BY <1>7, <1>8, <1>9 DEF s, t, u

LEMMA FirstAndRest ==
  ASSUME NEW n, IsList(n), n # <<>>
  PROVE  /\ Len(n) >= 1 /\ n = <<n[1]>> \o Suffix(n, 2)
         /\ IsList(Suffix(n, 2)) /\ Len(Suffix(n, 2)) = Len(n) - 1
<1>1. Len(n) \in Nat /\ Len(n) >= 1
  <2>1. n \in Seq(ToSet(n))
    BY DEF IsList
  <2>2. QED
    BY <2>1, EmptySeq
<1> DEFINE u == Suffix(n, 2)  v == <<n[1]>> \o u
<1>2. IsList(u) /\ Len(u) = Len(n) - 1 /\ \A j \in 1..(Len(n) - 1) : u[j] = n[j + 1]
  <2>1. Len(n) - 1 \in Nat /\ Len(n) = (Len(n) - 1) + 1
    BY <1>1
  <2>2. QED
    BY <2>1, RestFacts
<1> HIDE DEF u
<1>3. /\ IsList(v) /\ Len(v) = 1 + Len(u) /\ v[1] = n[1]
      /\ \A i \in 1..Len(u) : v[1 + i] = u[i]
  <2>1. IsList(<<n[1]>>) /\ Len(<<n[1]>>) = 1 /\ <<n[1]>>[1] = n[1]
    BY SingleList
  <2>2. 1 \in 1..1
    OBVIOUS
  <2> DEFINE w == <<n[1]>>
  <2> HIDE DEF w
  <2>3. /\ IsList(w \o u) /\ Len(w \o u) = 1 + Len(u)
        /\ (w \o u)[1] = w[1]
        /\ \A i \in 1..Len(u) : (w \o u)[1 + i] = u[i]
    BY <1>2, <2>1, <2>2, JoinLists DEF w
  <2>4. QED
    BY <2>1, <2>3 DEF w
<1> HIDE DEF v
<1>4. Len(v) = Len(n)
  BY <1>1, <1>2, <1>3
<1>5. \A i \in 1..Len(n) : n[i] = v[i]
  <2>1. SUFFICES ASSUME NEW i \in 1..Len(n), i # 1 PROVE n[i] = v[i]
    BY <1>3
  <2>2. i - 1 \in 1..Len(u) /\ 1 + (i - 1) = i /\ (i - 1) + 1 = i
    BY <1>1, <1>2, <2>1
  <2>3. v[1 + (i - 1)] = u[i - 1] /\ u[i - 1] = n[(i - 1) + 1]
    BY <1>2, <1>3, <2>2
  <2>4. QED
    BY <2>2, <2>3
<1>6. n = v
  BY <1>3, <1>4, <1>5, SameList
<1>7. QED
  BY <1>1, <1>2, <1>6 DEF u, v

----------------------------------------------------------------------------
(* Reading names. *)

\* A name ends at a cell that is the root or a pointer.
IsStop(c) == c[1] \in {"root", "pointer"}

\* What the parser makes of the labels at p, when f gives those further on.
Read(buf, f, p) ==
  IF p = Len(buf) \/ At(buf, p) = Root THEN <<>>
  ELSE LET q == IF At(buf, p)[1] = "pointer" THEN At(buf, p)[2] ELSE p
       IN <<At(buf, q)[2]>> \o f[q + 1]

Reader(buf, f) ==
  \A p \in 0..Len(buf) : f[p] = Read(buf, f, p) /\ UncompressName(buf, p) = f[p]

\* Every cell is of a kind that is known, and a pointer leads back beyond the
\* end of another name: this is why following pointers comes to an end.
Backward(buf) ==
  \A p \in 0..(Len(buf) - 1) :
    /\ At(buf, p) = Root \/ At(buf, p)[1] \in {"label", "field", "pointer"}
    /\ At(buf, p)[1] = "pointer" =>
         /\ At(buf, p)[2] \in Nat
         /\ \E t \in Nat : At(buf, p)[2] < t /\ t < p /\ IsStop(At(buf, t))

LEMMA Cells ==
  /\ \A l : Label(l)[1] = "label" /\ Label(l)[2] = l /\ ~IsStop(Label(l)) /\ Label(l) # Root
  /\ \A l : Field(l)[1] = "field" /\ Field(l)[2] = l /\ ~IsStop(Field(l)) /\ Field(l) # Root
  /\ \A l : Pointer(l)[1] = "pointer" /\ Pointer(l)[2] = l % PointerLimit /\ IsStop(Pointer(l))
            /\ Pointer(l) # Root
  /\ Root[1] = "root" /\ IsStop(Root)
<1>1. Root[1] = "root" /\ IsStop(Root)
  BY DEF Root, IsStop
<1>2. \A l : Label(l)[1] = "label" /\ Label(l)[2] = l /\ ~IsStop(Label(l)) /\ Label(l) # Root
  BY <1>1 DEF Label, IsStop
<1>3. \A l : Field(l)[1] = "field" /\ Field(l)[2] = l /\ ~IsStop(Field(l)) /\ Field(l) # Root
  BY <1>1 DEF Field, IsStop
<1>4. \A l : Pointer(l)[1] = "pointer" /\ Pointer(l)[2] = l % PointerLimit /\ IsStop(Pointer(l))
            /\ Pointer(l) # Root
  BY <1>1 DEF Pointer, IsStop
<1>5. QED
  BY <1>1, <1>2, <1>3, <1>4

\* The function by which UncompressName is defined exists when the positions
\* can be ranked so that each is read with the help of one of a lower rank.
LEMMA RankedReader ==
  ASSUME NEW buf, IsList(buf), NEW R \in Nat, NEW rank,
         \A p \in 0..Len(buf) : rank[p] \in Nat /\ rank[p] <= R,
         \A p \in 0..Len(buf) :
           \/ p = Len(buf) \/ At(buf, p) = Root
           \/ \E q \in Nat : /\ q = IF At(buf, p)[1] = "pointer" THEN At(buf, p)[2] ELSE p
                             /\ q + 1 <= Len(buf) /\ rank[q + 1] < rank[p]
  PROVE  \E f : Reader(buf, f)
<1> DEFINE N == Len(buf)
           Good == {n \in Nat : \E g : \A p \in 0..N : rank[p] < n => g[p] = Read(buf, g, p)}
<1>1. N \in Nat
  BY ListFacts
<1>2. 0 \in Good
  <2>1. \A p \in 0..N : ~(rank[p] < 0)
    OBVIOUS
  <2>2. QED
    BY <2>1
<1>3. ASSUME NEW g, NEW h, NEW n \in Nat, NEW p \in 0..N, rank[p] <= n,
             \A o \in 0..N : rank[o] < n => g[o] = h[o]
      PROVE  Read(buf, g, p) = Read(buf, h, p)
  <2>1. CASE p = N \/ At(buf, p) = Root
    BY <2>1 DEF Read
  <2>2. CASE ~(p = N \/ At(buf, p) = Root)
    <3>1. PICK q \in Nat : /\ q = IF At(buf, p)[1] = "pointer" THEN At(buf, p)[2] ELSE p
                           /\ q + 1 <= N /\ rank[q + 1] < rank[p]
      BY <2>2
    <3>2. q + 1 \in 0..N /\ rank[q + 1] < n
      <4>1. q + 1 \in 0..N
        BY <1>1, <3>1
      <4>2. rank[q + 1] \in Nat /\ rank[p] \in Nat
        BY <4>1
      <4>3. QED
        BY <1>3, <3>1, <4>1, <4>2
    <3>3. g[q + 1] = h[q + 1]
      BY <1>3, <3>2
    <3>4. QED
      BY <2>2, <3>1, <3>3 DEF Read
  <2>3. QED
    BY <2>1, <2>2
<1>4. ASSUME NEW n \in Nat, n \in Good PROVE n + 1 \in Good
  <2>1. PICK g : \A p \in 0..N : rank[p] < n => g[p] = Read(buf, g, p)
    BY <1>4
  <2> DEFINE f == [p \in 0..N |-> IF rank[p] = n THEN Read(buf, g, p) ELSE g[p]]
  <2>2. \A p \in 0..N : rank[p] < n => g[p] = f[p]
    BY <1>1
  <2>3. \A p \in 0..N : rank[p] < n + 1 => f[p] = Read(buf, g, p)
    BY <2>1
  <2> HIDE DEF f
  <2>4. \A p \in 0..N : rank[p] < n + 1 => Read(buf, g, p) = Read(buf, f, p)
    <3>1. SUFFICES ASSUME NEW p \in 0..N, rank[p] < n + 1 PROVE Read(buf, g, p) = Read(buf, f, p)
      OBVIOUS
    <3>2. rank[p] <= n
      <4>1. rank[p] \in Nat
        OBVIOUS
      <4>2. QED
        BY <3>1, <4>1
    <3>3. QED
      BY <1>3, <2>2, <3>2
  <2>5. \A p \in 0..N : rank[p] < n + 1 => f[p] = Read(buf, f, p)
    BY <2>3, <2>4
  <2>6. \E h : \A p \in 0..N : rank[p] < n + 1 => h[p] = Read(buf, h, p)
    BY <2>5
  <2>7. n + 1 \in Nat
    OBVIOUS
  <2>8. QED
    BY <2>6, <2>7
<1>5. R + 1 \in Good
  <2>1. \A m \in Nat : m < R + 1 /\ m \in Good => m + 1 \in Good
    BY <1>4
  <2>2. R + 1 \in Nat /\ R + 1 \in 0..(R + 1)
    OBVIOUS
  <2> HIDE DEF Good
  <2>3. QED
    BY <1>2, <2>1, <2>2, InductionUpTo
<1>6. PICK g : \A p \in 0..N : rank[p] < R + 1 => g[p] = Read(buf, g, p)
  BY <1>5
<1>7. \A p \in 0..N : rank[p] < R + 1
  OBVIOUS
<1> DEFINE f == [p \in 0..N |-> g[p]]
<1>8. \A p \in 0..N : g[p] = f[p]
  OBVIOUS
<1>9. \A p \in 0..N : f[p] = Read(buf, g, p)
  BY <1>6, <1>7
<1> HIDE DEF f
<1>10. \A p \in 0..N : Read(buf, g, p) = Read(buf, f, p)
  <2>1. R + 1 \in Nat /\ \A p \in 0..N : rank[p] <= R + 1
    OBVIOUS
  <2>2. QED
    BY <1>3, <1>8, <2>1
<1>11. f = [p \in 0..N |-> Read(buf, f, p)]
  <2>1. f = [p \in 0..N |-> f[p]]
    BY <1>8 DEF f
  <2>2. QED
    BY <1>9, <1>10, <2>1
<1>12. \E h : h = [p \in 0..N |-> Read(buf, h, p)]
  BY <1>11
<1> DEFINE k == CHOOSE h : h = [p \in 0..N |-> Read(buf, h, p)]
<1>13. k = [p \in 0..N |-> Read(buf, k, p)]
  BY <1>12
<1>14. \A p \in 0..N : UncompressName(buf, p) = k[p]
  BY DEF UncompressName, Read
<1> HIDE DEF k
<1>15. \A p \in 0..N : k[p] = Read(buf, k, p)
  BY <1>13
<1>16. Reader(buf, k)
  BY <1>14, <1>15 DEF Reader
<1>17. QED
  BY <1>16

\* The end of what stands at p.
NextStop(buf, p) == Min({t \in p..Len(buf) : t = Len(buf) \/ IsStop(At(buf, t))})

LEMMA NextStops ==
  ASSUME NEW buf, IsList(buf), NEW p \in 0..Len(buf)
  PROVE  /\ NextStop(buf, p) \in p..Len(buf)
         /\ NextStop(buf, p) = Len(buf) \/ IsStop(At(buf, NextStop(buf, p)))
         /\ \A t \in p..Len(buf) : t = Len(buf) \/ IsStop(At(buf, t)) => NextStop(buf, p) <= t
<1> DEFINE S == {t \in p..Len(buf) : t = Len(buf) \/ IsStop(At(buf, t))}
<1>1. Len(buf) \in Nat
  BY ListFacts
<1>2. Len(buf) \in S /\ S \subseteq Nat
  BY <1>1
<1>3. NextStop(buf, p) = Min(S)
  BY DEF NextStop
<1>4. Min(S) \in S /\ \A x \in S : Min(S) <= x
  <2> HIDE DEF S
  <2>1. QED
    BY <1>2, LeastMember
<1>5. QED
  BY <1>3, <1>4

LEMMA ReaderExists ==
  ASSUME NEW buf, IsList(buf), Backward(buf)
  PROVE  \E f : Reader(buf, f)
<1> DEFINE N == Len(buf)
           K == N + 1
           S(p) == NextStop(buf, p)
           rank == [p \in 0..N |-> S(p) * K + (S(p) - p)]
           R == N * K + N
<1>1. N \in Nat /\ K \in Nat
  BY ListFacts
<1>2. \A p \in 0..N : /\ S(p) \in p..N /\ (S(p) = N \/ IsStop(At(buf, S(p))))
                      /\ \A t \in p..N : t = N \/ IsStop(At(buf, t)) => S(p) <= t
  BY NextStops
<1>3. \A a \in Nat, b \in Nat : a <= b => a * K <= b * K /\ a * K \in Nat /\ b * K \in Nat
  BY <1>1
<1>4. \A p \in 0..N : rank[p] \in Nat /\ rank[p] <= R
  <2>1. SUFFICES ASSUME NEW p \in 0..N PROVE rank[p] \in Nat /\ rank[p] <= R
    OBVIOUS
  <2>2. S(p) \in Nat /\ S(p) <= N /\ p \in Nat /\ p <= S(p)
    BY <1>1, <1>2
  <2>3. S(p) * K <= N * K /\ S(p) * K \in Nat /\ N * K \in Nat
    BY <1>1, <1>3, <2>2
  <2> DEFINE x == S(p) * K  y == N * K
  <2>4. rank[p] = x + (S(p) - p) /\ R = y + N /\ x <= y /\ x \in Nat /\ y \in Nat
    BY <2>3
  <2> HIDE DEF x, y, rank, R, S, N
  <2>5. QED
    BY <1>1, <2>2, <2>4
<1>5. R \in Nat
  <2>1. N * K \in Nat
    BY <1>1, <1>3
  <2>2. QED
    BY <1>1, <2>1
<1>6. ASSUME NEW p \in 0..N, p # N, At(buf, p) # Root
      PROVE  \E q \in Nat : /\ q = IF At(buf, p)[1] = "pointer" THEN At(buf, p)[2] ELSE p
                            /\ q + 1 <= N /\ rank[q + 1] < rank[p]
  <2>1. p \in Nat /\ p < N /\ p \in 0..(N - 1)
    BY <1>1, <1>6
  <2>2. CASE At(buf, p)[1] = "pointer"
    <3> DEFINE q == At(buf, p)[2]
    <3>1. q \in Nat /\ \E t \in Nat : q < t /\ t < p /\ IsStop(At(buf, t))
      BY <2>1, <2>2 DEF Backward
    <3>2. PICK t \in Nat : q < t /\ t < p /\ IsStop(At(buf, t))
      BY <3>1
    <3> HIDE DEF q
    <3>3. q + 1 \in 0..N /\ q + 1 <= t /\ t \in (q + 1)..N
      BY <1>1, <2>1, <3>1, <3>2
    <3>4. S(q + 1) \in (q + 1)..N /\ S(q + 1) <= t
      BY <1>2, <3>2, <3>3
    <3>5. S(p) = p
      <4>1. p \in p..N /\ IsStop(At(buf, p))
        BY <1>1, <2>1, <2>2 DEF IsStop
      <4>2. S(p) \in p..N /\ S(p) <= p
        BY <1>2, <4>1
      <4>3. QED
        BY <1>1, <2>1, <4>2
    <3> DEFINE s == S(q + 1)  x == s * K  y == p * K  z == (p - 1) * K
    <3>6. s \in Nat /\ s <= p - 1 /\ p - 1 \in Nat /\ s <= N /\ q + 1 <= s
      BY <1>1, <2>1, <3>1, <3>2, <3>3, <3>4
    <3>7. x <= z /\ x \in Nat /\ z \in Nat
      <4> HIDE DEF s
      <4>1. QED
        BY <1>3, <3>6
    <3>8. z = y - K /\ y \in Int
      BY <1>1, <2>1
    <3>9. rank[q + 1] = x + (s - (q + 1)) /\ rank[p] = y + (p - p)
      BY <3>3, <3>5
    <3> HIDE DEF x, y, z, s, rank, S
    <3>10. rank[q + 1] < rank[p]
      BY <1>1, <2>1, <3>1, <3>6, <3>7, <3>8, <3>9
    <3>11. q + 1 <= N
      BY <1>1, <3>3
    <3>12. QED
      BY <2>2, <3>1, <3>10, <3>11 DEF q
  <2>3. CASE At(buf, p)[1] # "pointer"
    <3>1. ~IsStop(At(buf, p))
      <4>1. At(buf, p)[1] \in {"label", "field", "pointer"}
        BY <1>6, <2>1 DEF Backward
      <4>2. QED
        BY <2>3, <4>1 DEF IsStop
    <3>2. p + 1 \in 0..N /\ p + 1 <= N
      BY <1>1, <2>1
    <3>3. S(p) = S(p + 1)
      <4>1. S(p) \in p..N /\ S(p) # p
        BY <1>2, <1>6, <3>1
      <4>2. S(p) \in (p + 1)..N
        BY <1>1, <2>1, <4>1
      <4>3. S(p + 1) <= S(p)
        BY <1>2, <3>2, <4>2
      <4>4. S(p + 1) \in (p + 1)..N /\ S(p + 1) \in p..N
        BY <1>1, <1>2, <2>1, <3>2
      <4>5. S(p) <= S(p + 1)
        BY <1>2, <3>2, <4>4
      <4> HIDE DEF S
      <4>6. QED
        BY <1>1, <2>1, <4>2, <4>3, <4>4, <4>5
    <3> DEFINE x == S(p) * K
    <3>4. rank[p] = x + (S(p) - p) /\ rank[p + 1] = x + (S(p) - (p + 1))
      BY <3>2, <3>3
    <3>5. x \in Nat /\ S(p) \in Nat
      <4>1. S(p) \in Nat
        BY <1>1, <1>2, <2>1
      <4>2. QED
        BY <1>3, <4>1
    <3> HIDE DEF x, rank, S
    <3>6. rank[p + 1] < rank[p]
      BY <1>1, <2>1, <3>4, <3>5
    <3>7. QED
      BY <2>1, <2>3, <3>2, <3>6
  <2>4. QED
    BY <2>2, <2>3
<1> HIDE DEF rank, R
<1>7. \A p \in 0..N :
           \/ p = N \/ At(buf, p) = Root
           \/ \E q \in Nat : /\ q = IF At(buf, p)[1] = "pointer" THEN At(buf, p)[2] ELSE p
                             /\ q + 1 <= N /\ rank[q + 1] < rank[p]
  BY <1>6
<1>8. QED
  BY <1>4, <1>5, <1>7, RankedReader

----------------------------------------------------------------------------
(* The dictionary of suffixes. *)

\* Whoever reads at p finds the name n: its end, a suffix that is remembered
\* to be there, or a pointer to one.
Follows(out, p, n) ==
  \/ n = <<>> /\ p < Len(out.buf) /\ At(out.buf, p) = Root
  \/ \E c \in ToSet(out.comp) :
       /\ c.name = n
       /\ p = c.pos \/ (p < Len(out.buf) /\ At(out.buf, p) = <<"pointer", c.pos>>)

\* A suffix is where the dictionary has it.
Recorded(out, c) ==
  /\ c.pos \in Nat /\ IsList(c.name) /\ c.name # <<>>
  /\ c.pos + 1 < Len(out.buf)
  /\ At(out.buf, c.pos) = Label(c.name[1])
  /\ Follows(out, c.pos + 1, Suffix(c.name, 2))
  /\ \E t \in Nat : c.pos < t /\ t < Len(out.buf) /\ IsStop(At(out.buf, t))

Sound(out) == Backward(out.buf) /\ \A c \in ToSet(out.comp) : Recorded(out, c)

\* What every step of the encoder keeps, as long as the positions fit in a
\* pointer.
Faithful(out) ==
  /\ out = [buf |-> out.buf, comp |-> out.comp]
  /\ IsList(out.buf) /\ IsList(out.comp)
  /\ Len(out.buf) <= PointerLimit => Sound(out)

LEMMA FollowedBy ==
  ASSUME NEW out, IsList(out.buf), Sound(out), NEW f, Reader(out.buf, f),
         NEW p \in Nat, NEW n, Follows(out, p, n),
         \A c \in ToSet(out.comp) : c.name = n => f[c.pos] = n
  PROVE  p \in 0..Len(out.buf) /\ f[p] = n
<1> DEFINE N == Len(out.buf)
<1>1. N \in Nat
  BY ListFacts
<1>2. ASSUME p < N PROVE p \in 0..N /\ p # N /\ f[p] = Read(out.buf, f, p)
  BY <1>1, <1>2 DEF Reader
<1>3. CASE n = <<>> /\ p < N /\ At(out.buf, p) = Root
  BY <1>2, <1>3 DEF Read
<1>4. ASSUME NEW c \in ToSet(out.comp), c.name = n, p = c.pos
      PROVE  p \in 0..N /\ f[p] = n
  <2>1. c.pos \in Nat /\ c.pos + 1 < N
    BY DEF Sound, Recorded
  <2>2. QED
    BY <1>1, <1>4, <2>1
<1>5. ASSUME NEW c \in ToSet(out.comp), c.name = n, p < N, At(out.buf, p) = <<"pointer", c.pos>>
      PROVE  p \in 0..N /\ f[p] = n
  <2>1. c.pos \in Nat /\ c.pos + 1 < N /\ At(out.buf, c.pos) = Label(c.name[1])
    BY DEF Sound, Recorded
  <2>2. c.pos \in 0..N /\ c.pos # N /\ f[c.pos] = Read(out.buf, f, c.pos)
    BY <1>1, <2>1 DEF Reader
  <2>3. At(out.buf, c.pos)[1] = "label" /\ At(out.buf, c.pos) # Root
    BY <2>1, Cells
  <2>4. f[c.pos] = <<At(out.buf, c.pos)[2]>> \o f[c.pos + 1]
    BY <2>2, <2>3 DEF Read
  <2>5. At(out.buf, p)[1] = "pointer" /\ At(out.buf, p)[2] = c.pos
    BY <1>5
  <2>6. At(out.buf, p) # Root
    BY <2>5, Cells
  <2>7. f[p] = <<At(out.buf, c.pos)[2]>> \o f[c.pos + 1]
    BY <1>2, <1>5, <2>5, <2>6 DEF Read
  <2>8. QED
    BY <1>2, <1>5, <2>4, <2>7
<1>6. QED
  BY <1>3, <1>4, <1>5 DEF Follows

\* A suffix is read as it was remembered: by induction on its length.
LEMMA RecordedIsRead ==
  ASSUME NEW out, IsList(out.buf), Sound(out), NEW f, Reader(out.buf, f),
         NEW c \in ToSet(out.comp)
  PROVE  f[c.pos] = c.name
<1> DEFINE Shorter == {n \in Nat : \A e \in ToSet(out.comp) : Len(e.name) = n => f[e.pos] = e.name}
<1>1. \A e \in ToSet(out.comp) : Recorded(out, e)
  BY DEF Sound
<1>2. 0 \in Shorter
  <2>1. \A e \in ToSet(out.comp) : IsList(e.name) /\ e.name # <<>>
    BY <1>1 DEF Recorded
  <2>2. \A e \in ToSet(out.comp) : Len(e.name) >= 1
    BY <2>1, FirstAndRest
  <2>3. QED
    BY <2>2
<1>3. ASSUME NEW n \in Nat, n \in Shorter PROVE n + 1 \in Shorter
  <2>1. SUFFICES ASSUME NEW e \in ToSet(out.comp), Len(e.name) = n + 1 PROVE f[e.pos] = e.name
    OBVIOUS
  <2>2. /\ e.pos \in Nat /\ IsList(e.name) /\ e.name # <<>> /\ e.pos + 1 < Len(out.buf)
        /\ At(out.buf, e.pos) = Label(e.name[1])
        /\ Follows(out, e.pos + 1, Suffix(e.name, 2))
    BY <1>1 DEF Recorded
  <2>3. /\ e.name = <<e.name[1]>> \o Suffix(e.name, 2)
        /\ Len(Suffix(e.name, 2)) = Len(e.name) - 1
    BY <2>2, FirstAndRest
  <2>4. Len(Suffix(e.name, 2)) = n
    BY <2>1, <2>3
  <2> DEFINE rest == Suffix(e.name, 2)
  <2>5. \A d \in ToSet(out.comp) : d.name = rest => f[d.pos] = rest
    BY <1>3, <2>4
  <2>6. e.pos + 1 \in Nat
    BY <2>2
  <2>7. f[e.pos + 1] = rest
    BY <2>2, <2>5, <2>6, FollowedBy
  <2>8. e.pos \in 0..Len(out.buf) /\ e.pos # Len(out.buf)
    <3>1. Len(out.buf) \in Nat
      BY ListFacts
    <3>2. QED
      BY <2>2, <3>1
  <2>9. f[e.pos] = Read(out.buf, f, e.pos)
    BY <2>8 DEF Reader
  <2>10. At(out.buf, e.pos)[1] = "label" /\ At(out.buf, e.pos)[2] = e.name[1]
         /\ At(out.buf, e.pos) # Root
    BY <2>2, Cells
  <2>11. f[e.pos] = <<e.name[1]>> \o f[e.pos + 1]
    BY <2>8, <2>9, <2>10 DEF Read
  <2>12. QED
    BY <2>3, <2>7, <2>11
<1>4. IsList(c.name)
  BY <1>1 DEF Recorded
<1>5. Len(c.name) \in Nat
  BY <1>4, ListFacts
<1>6. Len(c.name) \in Shorter
  <2>1. \A m \in Nat : m < Len(c.name) /\ m \in Shorter => m + 1 \in Shorter
    BY <1>3
  <2>2. Len(c.name) \in 0..Len(c.name)
    BY <1>5
  <2> HIDE DEF Shorter
  <2>3. QED
    BY <1>2, <1>5, <2>1, <2>2, InductionUpTo
<1>7. QED
  BY <1>6

\* So a name is read as it was written.
LEMMA NameIsRead ==
  ASSUME NEW out, IsList(out.buf), Sound(out), NEW p \in Nat, NEW n, Follows(out, p, n)
  PROVE  UncompressName(out.buf, p) = n
<1>1. PICK f : Reader(out.buf, f)
  BY ReaderExists DEF Sound
<1>2. \A c \in ToSet(out.comp) : c.name = n => f[c.pos] = n
  BY <1>1, RecordedIsRead
<1>3. p \in 0..Len(out.buf) /\ f[p] = n
  BY <1>1, <1>2, FollowedBy
<1>4. QED
  BY <1>1, <1>3 DEF Reader

----------------------------------------------------------------------------
(* What a longer buffer keeps. *)

Extends(b1, b2) ==
  Len(b1) <= Len(b2) /\ \A i \in 0..(Len(b1) - 1) : At(b2, i) = At(b1, i)

\* The same, but that fields may have been filled in.
Keeps(b1, b2) ==
  /\ Len(b1) <= Len(b2)
  /\ \A i \in 0..(Len(b1) - 1) :
       At(b2, i) = At(b1, i) \/ (At(b1, i)[1] = "field" /\ At(b2, i)[1] = "field")

LEMMA ExtendsKeeps == \A b1, b2 : Extends(b1, b2) => Keeps(b1, b2)
BY DEF Extends, Keeps

LEMMA KeptCell ==
  ASSUME NEW b1, NEW b2, IsList(b1), IsList(b2), Keeps(b1, b2), NEW p \in Nat, p < Len(b1)
  PROVE  /\ p < Len(b2)
         /\ At(b1, p)[1] # "field" => At(b2, p) = At(b1, p)
         /\ At(b1, p)[1] = "field" => At(b2, p)[1] = "field"
<1>1. Len(b1) \in Nat /\ Len(b2) \in Nat
  BY ListFacts
<1>2. p \in 0..(Len(b1) - 1) /\ p < Len(b2)
  BY <1>1 DEF Keeps
<1>3. QED
  BY <1>2 DEF Keeps

LEMMA KeptFollows ==
  ASSUME NEW o1, NEW o2, IsList(o1.buf), IsList(o2.buf), Keeps(o1.buf, o2.buf),
         ToSet(o1.comp) \subseteq ToSet(o2.comp), NEW p \in Nat, NEW n, Follows(o1, p, n)
  PROVE  Follows(o2, p, n)
<1>1. CASE n = <<>> /\ p < Len(o1.buf) /\ At(o1.buf, p) = Root
  <2>1. At(o1.buf, p)[1] # "field"
    BY <1>1, Cells
  <2>2. QED
    BY <1>1, <2>1, KeptCell DEF Follows
<1>2. ASSUME NEW c \in ToSet(o1.comp), c.name = n, p = c.pos
      PROVE  Follows(o2, p, n)
  BY <1>2 DEF Follows
<1>3. ASSUME NEW c \in ToSet(o1.comp), c.name = n, p < Len(o1.buf),
             At(o1.buf, p) = <<"pointer", c.pos>>
      PROVE  Follows(o2, p, n)
  <2>1. At(o1.buf, p)[1] # "field"
    BY <1>3
  <2>2. p < Len(o2.buf) /\ At(o2.buf, p) = <<"pointer", c.pos>>
    BY <1>3, <2>1, KeptCell
  <2>3. c \in ToSet(o2.comp)
    OBVIOUS
  <2>4. QED
    BY <1>3, <2>2, <2>3 DEF Follows
<1>4. QED
  BY <1>1, <1>2, <1>3 DEF Follows

LEMMA KeptStop ==
  ASSUME NEW b1, NEW b2, IsList(b1), IsList(b2), Keeps(b1, b2), NEW p \in Nat, p < Len(b1)
  PROVE  p < Len(b2) /\ (IsStop(At(b2, p)) <=> IsStop(At(b1, p)))
<1>1. CASE At(b1, p)[1] # "field"
  BY <1>1, KeptCell
<1>2. CASE At(b1, p)[1] = "field"
  BY <1>2, KeptCell DEF IsStop
<1>3. QED
  BY <1>1, <1>2

LEMMA KeptRecorded ==
  ASSUME NEW o1, NEW o2, IsList(o1.buf), IsList(o2.buf), Keeps(o1.buf, o2.buf),
         ToSet(o1.comp) \subseteq ToSet(o2.comp), NEW c, Recorded(o1, c)
  PROVE  Recorded(o2, c)
<1>1. Len(o1.buf) \in Nat /\ Len(o2.buf) \in Nat /\ Len(o1.buf) <= Len(o2.buf)
  BY ListFacts DEF Keeps
<1>2. /\ c.pos \in Nat /\ IsList(c.name) /\ c.name # <<>> /\ c.pos + 1 < Len(o1.buf)
      /\ At(o1.buf, c.pos) = Label(c.name[1])
      /\ Follows(o1, c.pos + 1, Suffix(c.name, 2))
  BY DEF Recorded
<1>3. PICK t \in Nat : c.pos < t /\ t < Len(o1.buf) /\ IsStop(At(o1.buf, t))
  BY DEF Recorded
<1>4. c.pos + 1 < Len(o2.buf) /\ c.pos < Len(o1.buf) /\ c.pos + 1 \in Nat
  BY <1>1, <1>2
<1>5. At(o2.buf, c.pos) = Label(c.name[1])
  <2>1. At(o1.buf, c.pos)[1] # "field"
    BY <1>2, Cells
  <2>2. QED
    BY <1>2, <1>4, <2>1, KeptCell
<1>6. Follows(o2, c.pos + 1, Suffix(c.name, 2))
  BY <1>2, <1>4, KeptFollows
<1>7. t < Len(o2.buf) /\ IsStop(At(o2.buf, t))
  BY <1>3, KeptStop
<1>8. QED
  BY <1>2, <1>3, <1>4, <1>5, <1>6, <1>7 DEF Recorded

\* A cell whose pointer, if it is one, leads back.
BackAt(buf, p) ==
  /\ At(buf, p) = Root \/ At(buf, p)[1] \in {"label", "field", "pointer"}
  /\ At(buf, p)[1] = "pointer" =>
       /\ At(buf, p)[2] \in Nat
       /\ \E t \in Nat : At(buf, p)[2] < t /\ t < p /\ IsStop(At(buf, t))

LEMMA KeptBackAt ==
  ASSUME NEW b1, NEW b2, IsList(b1), IsList(b2), Keeps(b1, b2), NEW p \in Nat, p < Len(b1),
         BackAt(b1, p)
  PROVE  BackAt(b2, p)
<1>1. CASE At(b1, p)[1] = "field"
  <2>1. At(b2, p)[1] = "field"
    BY <1>1, KeptCell
  <2>2. QED
    BY <2>1 DEF BackAt
<1>2. CASE At(b1, p)[1] # "field"
  <2>1. At(b2, p) = At(b1, p)
    BY <1>2, KeptCell
  <2>2. ASSUME At(b1, p)[1] = "pointer"
        PROVE  /\ At(b1, p)[2] \in Nat
               /\ \E t \in Nat : At(b1, p)[2] < t /\ t < p /\ IsStop(At(b2, t))
    <3>1. PICK t \in Nat : At(b1, p)[2] < t /\ t < p /\ IsStop(At(b1, t))
      BY <2>2 DEF BackAt
    <3>2. t < Len(b1)
      <4>1. Len(b1) \in Nat
        BY ListFacts
      <4>2. QED
        BY <3>1, <4>1
    <3>3. IsStop(At(b2, t))
      BY <3>1, <3>2, KeptStop
    <3>4. QED
      BY <2>2, <3>1, <3>3 DEF BackAt
  <2>3. QED
    BY <2>1, <2>2 DEF BackAt
<1>3. QED
  BY <1>1, <1>2

\* A longer buffer is sound when its new cells and new suffixes are.
LEMMA KeptSound ==
  ASSUME NEW o1, NEW o2, IsList(o1.buf), IsList(o2.buf), Keeps(o1.buf, o2.buf),
         ToSet(o1.comp) \subseteq ToSet(o2.comp), Sound(o1),
         \A p \in Nat : Len(o1.buf) <= p /\ p < Len(o2.buf) => BackAt(o2.buf, p),
         \A c \in ToSet(o2.comp) \ ToSet(o1.comp) : Recorded(o2, c)
  PROVE  Sound(o2)
<1>1. Len(o1.buf) \in Nat /\ Len(o2.buf) \in Nat
  BY ListFacts
<1>2. ASSUME NEW p \in 0..(Len(o2.buf) - 1) PROVE BackAt(o2.buf, p)
  <2>1. p \in Nat /\ p < Len(o2.buf)
    BY <1>1, <1>2
  <2>2. CASE Len(o1.buf) <= p
    BY <2>1, <2>2
  <2>3. CASE ~(Len(o1.buf) <= p)
    <3>1. p < Len(o1.buf) /\ p \in 0..(Len(o1.buf) - 1)
      BY <1>1, <2>1, <2>3
    <3>2. BackAt(o1.buf, p)
      BY <3>1 DEF Sound, Backward, BackAt
    <3>3. QED
      BY <2>1, <3>1, <3>2, KeptBackAt
  <2>4. QED
    BY <2>2, <2>3
<1>3. ASSUME NEW c \in ToSet(o2.comp) PROVE Recorded(o2, c)
  <2>1. CASE c \in ToSet(o1.comp)
    <3>1. Recorded(o1, c)
      BY <2>1 DEF Sound
    <3>2. QED
      BY <3>1, KeptRecorded
  <2>2. CASE c \notin ToSet(o1.comp)
    BY <2>2
  <2>3. QED
    BY <2>1, <2>2
<1>4. Backward(o2.buf)
  BY <1>2 DEF Backward, BackAt
<1>5. QED
  BY <1>3, <1>4 DEF Sound

----------------------------------------------------------------------------
(* Writing. *)

\* What a name adds: labels, the cell that ends them, and their suffixes.
Named(out, n, o2, cut, end) ==
  /\ o2 = [buf |-> o2.buf, comp |-> o2.comp]
  /\ IsList(o2.buf) /\ Len(o2.buf) = Len(out.buf) + cut
  /\ \A i \in 0..(Len(out.buf) - 1) : At(o2.buf, i) = At(out.buf, i)
  /\ \A i \in 1..(cut - 1) : At(o2.buf, (Len(out.buf) - 1) + i) = Label(n[i])
  /\ At(o2.buf, (Len(out.buf) - 1) + cut) = end
  /\ IsList(o2.comp)
  /\ ToSet(o2.comp) = ToSet(out.comp) \cup
       {[name |-> Suffix(n, i), pos |-> (Len(out.buf) - 1) + i] : i \in 1..(cut - 1)}

\* A name is cut at its end, or at a suffix that is in the dictionary.
CutAt(out, n, cut, end) ==
  \/ cut = Len(n) + 1 /\ end = Root
  \/ cut <= Len(n) /\ \E c \in ToSet(out.comp) : c.name = Suffix(n, cut) /\ end = Pointer(c.pos)

LEMMA JoinedSet ==
  ASSUME NEW s, NEW t, IsList(s), IsList(t)
  PROVE  ToSet(s \o t) = ToSet(s) \cup ToSet(t)
<1>1. PICK S : s \in Seq(S) /\ t \in Seq(S)
  BY TwoLists
<1>2. QED
  BY <1>1, Concatenated

LEMMA NameCut ==
  ASSUME NEW out, NEW n, IsList(n)
  PROVE  \E cut \in 1..(Len(n) + 1) : \E end :
           /\ CutAt(out, n, cut, end)
           /\ EncodeName(out, n) =
                [buf  |-> out.buf \o [i \in 1..(cut - 1) |-> Label(n[i])] \o <<end>>,
                 comp |-> out.comp \o [i \in 1..(cut - 1) |->
                            [name |-> Suffix(n, i), pos |-> (Len(out.buf) - 1) + i]]]
<1> DEFINE known(i) == {c \in ToSet(out.comp) : c.name = Suffix(n, i)}
           Cuts == {i \in 1..Len(n) : known(i) # {}} \cup {Len(n) + 1}
           cut == Min(Cuts)
           end == IF cut > Len(n) THEN Root ELSE Pointer((CHOOSE c \in known(cut) : TRUE).pos)
<1>1. Len(n) \in Nat
  BY ListFacts
<1>2. Cuts \subseteq Nat /\ Cuts # {} /\ Cuts \subseteq 1..(Len(n) + 1)
  BY <1>1
<1>3. cut \in Cuts
  <2> HIDE DEF Cuts
  <2>1. QED
    BY <1>2, LeastMember
<1>4. cut \in 1..(Len(n) + 1)
  BY <1>2, <1>3
<1>5. EncodeName(out, n) =
                [buf  |-> out.buf \o [i \in 1..(cut - 1) |-> Label(n[i])] \o <<end>>,
                 comp |-> out.comp \o [i \in 1..(cut - 1) |->
                            [name |-> Suffix(n, i), pos |-> (Len(out.buf) - 1) + i]]]
  BY Zenon DEF EncodeName
<1>6. CutAt(out, n, cut, end)
  <2>1. CASE cut > Len(n)
    <3>1. cut = Len(n) + 1
      <4> HIDE DEF cut
      <4>1. QED
        BY <1>1, <1>4, <2>1
    <3> HIDE DEF cut
    <3>2. QED
      BY <2>1, <3>1 DEF CutAt
  <2>2. CASE ~(cut > Len(n))
    <3>1. cut <= Len(n) /\ cut # Len(n) + 1
      <4> HIDE DEF cut
      <4>1. QED
        BY <1>1, <1>4, <2>2
    <3> HIDE DEF cut
    <3>2. known(cut) # {}
      BY <1>3, <3>1
    <3> DEFINE d == CHOOSE c \in known(cut) : TRUE
    <3>3. d \in known(cut)
      BY <3>2
    <3>4. end = Pointer(d.pos)
      BY <2>2
    <3> HIDE DEF d, end
    <3>5. QED
      BY <3>1, <3>3, <3>4 DEF CutAt
  <2>3. QED
    BY <2>1, <2>2
<1> HIDE DEF cut, end
<1>7. QED
  BY <1>4, <1>5, <1>6, Zenon

LEMMA NameShape ==
  ASSUME NEW out, IsList(out.buf), IsList(out.comp), NEW n, IsList(n)
  PROVE  \E cut \in 1..(Len(n) + 1) : \E end :
           CutAt(out, n, cut, end) /\ Named(out, n, EncodeName(out, n), cut, end)
<1> DEFINE L == Len(out.buf)
<1>1. PICK cut \in 1..(Len(n) + 1) : \E end :
           /\ CutAt(out, n, cut, end)
           /\ EncodeName(out, n) =
                [buf  |-> out.buf \o [i \in 1..(cut - 1) |-> Label(n[i])] \o <<end>>,
                 comp |-> out.comp \o [i \in 1..(cut - 1) |->
                            [name |-> Suffix(n, i), pos |-> (Len(out.buf) - 1) + i]]]
  BY NameCut, Zenon
<1>2. PICK end :
           /\ CutAt(out, n, cut, end)
           /\ EncodeName(out, n) =
                [buf  |-> out.buf \o [i \in 1..(cut - 1) |-> Label(n[i])] \o <<end>>,
                 comp |-> out.comp \o [i \in 1..(cut - 1) |->
                            [name |-> Suffix(n, i), pos |-> (Len(out.buf) - 1) + i]]]
  BY <1>1, Zenon
<1> DEFINE w == [i \in 1..(cut - 1) |-> Label(n[i])]
           d == [i \in 1..(cut - 1) |-> [name |-> Suffix(n, i), pos |-> (Len(out.buf) - 1) + i]]
           o2 == EncodeName(out, n)
           k == cut - 1
<1>3. L \in Nat /\ Len(n) \in Nat /\ cut \in Nat /\ k \in Nat /\ cut = k + 1
  BY ListFacts
<1>4. o2.buf = (out.buf \o w) \o <<end>> /\ o2.comp = out.comp \o d
      /\ o2 = [buf |-> o2.buf, comp |-> o2.comp]
  <2>1. o2 = [buf |-> (out.buf \o w) \o <<end>>, comp |-> out.comp \o d]
    BY <1>2, Zenon
  <2> HIDE DEF w, d, o2
  <2>2. QED
    BY <2>1
<1>5. \A i \in 1..k : w[i] = Label(n[i])
  OBVIOUS
<1>6. \A i \in 1..k : d[i] = [name |-> Suffix(n, i), pos |-> (Len(out.buf) - 1) + i]
  OBVIOUS
<1>7. IsList(w) /\ Len(w) = k
  <2>1. w = [i \in 1..k |-> w[i]]
    OBVIOUS
  <2> HIDE DEF w, k
  <2>2. QED
    BY <1>3, <2>1, FunctionList
<1>8. IsList(d) /\ Len(d) = k
  <2>1. d = [i \in 1..k |-> d[i]]
    OBVIOUS
  <2> HIDE DEF d, k
  <2>2. QED
    BY <1>3, <2>1, FunctionList
<1> HIDE DEF w, d, o2, k
<1>9. /\ IsList(out.buf \o w) /\ Len(out.buf \o w) = L + k
      /\ \A i \in 1..L : (out.buf \o w)[i] = out.buf[i]
      /\ \A i \in 1..k : (out.buf \o w)[L + i] = w[i]
  BY <1>7, JoinLists
<1>10. /\ IsList(o2.buf) /\ Len(o2.buf) = (L + k) + 1
       /\ \A i \in 1..(L + k) : o2.buf[i] = (out.buf \o w)[i]
       /\ o2.buf[(L + k) + 1] = end
  <2> DEFINE e == <<end>>  b == out.buf \o w
  <2>1. IsList(e) /\ Len(e) = 1 /\ e[1] = end /\ 1 \in 1..1
    BY SingleList
  <2>2. o2.buf = b \o e /\ IsList(b) /\ Len(b) = L + k
    BY <1>4, <1>9
  <2> HIDE DEF e, b
  <2>3. /\ IsList(b \o e) /\ Len(b \o e) = Len(b) + Len(e)
        /\ \A i \in 1..Len(b) : (b \o e)[i] = b[i]
        /\ \A i \in 1..Len(e) : (b \o e)[Len(b) + i] = e[i]
    <3>1. IsList(b) /\ IsList(e)
      BY <2>1, <2>2
    <3>2. QED
      BY <3>1, JoinLists
  <2>4. /\ IsList(o2.buf) /\ Len(o2.buf) = (L + k) + 1
        /\ \A i \in 1..(L + k) : o2.buf[i] = b[i]
        /\ o2.buf[(L + k) + 1] = end
    BY <2>1, <2>2, <2>3
  <2>5. QED
    BY <2>4 DEF b
<1>11. \A i \in 1..L : o2.buf[i] = out.buf[i]
  <2>1. \A i \in 1..L : i \in 1..(L + k)
    BY <1>3
  <2>2. QED
    BY <1>9, <1>10, <2>1
<1>12. \A i \in 1..k : o2.buf[L + i] = Label(n[i])
  <2>1. \A i \in 1..k : L + i \in 1..(L + k)
    BY <1>3
  <2>2. QED
    BY <1>5, <1>9, <1>10, <2>1
<1>13. IsList(o2.comp) /\ ToSet(o2.comp) = ToSet(out.comp) \cup ToSet(d)
  BY <1>4, <1>8, JoinLists, JoinedSet
<1>14. ToSet(d) = {[name |-> Suffix(n, i), pos |-> (Len(out.buf) - 1) + i] : i \in 1..k}
  <2>1. DOMAIN d = 1..k
    BY <1>8, ListFacts
  <2>2. QED
    BY <1>6, <2>1 DEF ToSet
<1>15. \A i \in 0..(L - 1) : At(o2.buf, i) = At(out.buf, i)
  <2>1. \A i \in 0..(L - 1) : i + 1 \in 1..L
    BY <1>3
  <2>2. QED
    BY <1>11, <2>1 DEF At
<1>16. \A i \in 1..k : At(o2.buf, (L - 1) + i) = Label(n[i])
  <2>1. \A i \in 1..k : ((L - 1) + i) + 1 = L + i
    BY <1>3
  <2>2. QED
    BY <1>12, <2>1 DEF At
<1>17. At(o2.buf, (L - 1) + cut) = end
  <2>1. ((L - 1) + cut) + 1 = (L + k) + 1
    <3> HIDE DEF L
    <3>1. QED
      BY <1>3
  <2>2. QED
    BY <1>10, <2>1 DEF At
<1>18. Len(o2.buf) = L + cut
  <2> HIDE DEF L
  <2>1. QED
    BY <1>3, <1>10
<1>19. Named(out, n, o2, cut, end)
  BY <1>4, <1>10, <1>13, <1>14, <1>15, <1>16, <1>17, <1>18 DEF Named, k
<1>20. QED
  BY <1>2, <1>19, Zenon DEF o2

\* A name stands at a, and what follows it at e.
NameAt(out, a, n, e) ==
  /\ Follows(out, a, n) /\ a < e /\ e <= Len(out.buf)
  /\ IsStop(At(out.buf, e - 1))
  /\ \A i \in Nat : a <= i /\ i < e - 1 => ~IsStop(At(out.buf, i))

\* The positions of the cells that a name adds.
LaidOut(out, n, o2, cut, end) ==
  LET L == Len(out.buf)
  IN /\ L \in Nat /\ Len(o2.buf) = L + cut
     /\ Extends(out.buf, o2.buf)
     /\ \A p \in Nat : L <= p /\ p < (L + cut) - 1 => At(o2.buf, p) = Label(n[p - L + 1])
     /\ At(o2.buf, (L + cut) - 1) = end

LEMMA NamedCells ==
  ASSUME NEW out, IsList(out.buf), NEW n, NEW o2, NEW cut \in Nat \ {0}, NEW end,
         Named(out, n, o2, cut, end)
  PROVE  LaidOut(out, n, o2, cut, end)
<1> DEFINE L == Len(out.buf)
<1>1. L \in Nat /\ Len(o2.buf) = L + cut
  BY ListFacts DEF Named
<1>2. Extends(out.buf, o2.buf)
  BY <1>1 DEF Named, Extends
<1>3. ASSUME NEW p \in Nat, L <= p, p < (L + cut) - 1 PROVE At(o2.buf, p) = Label(n[p - L + 1])
  <2>1. p - L + 1 \in 1..(cut - 1) /\ (L - 1) + (p - L + 1) = p
    <3> HIDE DEF L
    <3>1. QED
      BY <1>1, <1>3
  <2>2. \A i \in 1..(cut - 1) : At(o2.buf, (L - 1) + i) = Label(n[i])
    BY DEF Named
  <2>3. At(o2.buf, (L - 1) + (p - L + 1)) = Label(n[p - L + 1])
    BY <2>1, <2>2, Zenon
  <2>4. QED
    BY <2>1, <2>3
<1>4. At(o2.buf, (L + cut) - 1) = end
  <2>1. (L - 1) + cut = (L + cut) - 1
    BY <1>1
  <2>2. At(o2.buf, (L - 1) + cut) = end
    BY DEF Named
  <2>3. QED
    BY <2>1, <2>2
<1>5. QED
  BY <1>1, <1>2, <1>3, <1>4 DEF LaidOut

\* A name goes into a faithful packet, which stays faithful.
LEMMA NameSound ==
  ASSUME NEW out, IsList(out.buf), IsList(out.comp), NEW n, IsList(n),
         NEW o2, NEW cut \in 1..(Len(n) + 1), NEW end,
         CutAt(out, n, cut, end), Named(out, n, o2, cut, end),
         Sound(out), Len(o2.buf) <= PointerLimit
  PROVE  Sound(o2) /\ NameAt(o2, Len(out.buf), n, Len(o2.buf))
<1> DEFINE L == Len(out.buf)  E == L + cut
<1>1. L \in Nat /\ cut \in Nat \ {0} /\ Len(n) \in Nat /\ E \in Nat /\ E - 1 \in Nat /\ L <= E - 1
      /\ PointerLimit \in Nat
  BY ListFacts, PointerLimitAssumption
<1>2. /\ Len(o2.buf) = E /\ Extends(out.buf, o2.buf)
      /\ \A p \in Nat : L <= p /\ p < E - 1 => At(o2.buf, p) = Label(n[p - L + 1])
      /\ At(o2.buf, E - 1) = end
  <2>1. cut \in Nat \ {0}
    BY <1>1
  <2>2. LaidOut(out, n, o2, cut, end)
    BY <2>1, NamedCells
  <2>3. QED
    BY <2>2 DEF LaidOut
<1> HIDE DEF E
<1>3. /\ IsList(o2.buf) /\ IsList(o2.comp)
      /\ ToSet(o2.comp) = ToSet(out.comp) \cup
           {[name |-> Suffix(n, i), pos |-> (L - 1) + i] : i \in 1..(cut - 1)}
  BY DEF Named
<1>4. Keeps(out.buf, o2.buf) /\ ToSet(out.comp) \subseteq ToSet(o2.comp)
  BY <1>2, <1>3, ExtendsKeeps
<1>5. \A c \in ToSet(out.comp) : Recorded(out, c)
  BY DEF Sound
\* The end: the root, or a pointer that leads back and is not cut off.
<1>6. /\ IsStop(end) /\ BackAt(o2.buf, E - 1) /\ Follows(o2, E - 1, Suffix(n, cut))
  <2>1. CASE cut = Len(n) + 1 /\ end = Root
    <3>1. Suffix(n, cut) = <<>>
      <4>1. IsList(Suffix(n, cut)) /\ Len(Suffix(n, cut)) = Len(n) + 1 - cut
        BY SuffixFacts
      <4>2. Len(Suffix(n, cut)) = 0
        BY <1>1, <2>1, <4>1
      <4>3. QED
        BY <4>1, <4>2, FirstAndRest
    <3>2. E - 1 < Len(o2.buf)
      BY <1>1, <1>2
    <3>3. Follows(o2, E - 1, Suffix(n, cut))
      BY <1>2, <2>1, <3>1, <3>2 DEF Follows
    <3>4. BackAt(o2.buf, E - 1)
      <4>1. At(o2.buf, E - 1) = Root /\ Root[1] = "root"
        BY <1>2, <2>1, Cells
      <4>2. QED
        BY <4>1 DEF BackAt
    <3>5. QED
      BY <2>1, <3>3, <3>4, Cells
  <2>2. ASSUME NEW c \in ToSet(out.comp), c.name = Suffix(n, cut), end = Pointer(c.pos)
        PROVE  IsStop(end) /\ BackAt(o2.buf, E - 1) /\ Follows(o2, E - 1, Suffix(n, cut))
    <3>1. c.pos \in Nat /\ c.pos + 1 < L
      BY <1>5 DEF Recorded
    <3>2. PICK t \in Nat : c.pos < t /\ t < L /\ IsStop(At(out.buf, t))
      BY <1>5 DEF Recorded
    <3>3. c.pos % PointerLimit = c.pos
      <4> DEFINE x == c.pos
      <4>1. c.pos < PointerLimit
        <5>1. E <= PointerLimit
          BY <1>2
        <5> HIDE DEF L
        <5>2. QED
          BY <1>1, <3>1, <5>1
      <4>2. PointerLimit \in Nat /\ x \in Nat /\ x < PointerLimit
        BY <1>1, <3>1, <4>1
      <4> HIDE DEF x
      <4>3. x % PointerLimit = x
        BY <4>2
      <4>4. QED
        BY <4>3 DEF x
    <3>4. end = <<"pointer", c.pos>>
      BY <2>2, <3>3 DEF Pointer
    <3>5. E - 1 < Len(o2.buf)
      BY <1>1, <1>2
    <3>6. c \in ToSet(o2.comp)
      BY <1>4
    <3>7. Follows(o2, E - 1, Suffix(n, cut))
      BY <1>2, <2>2, <3>4, <3>5, <3>6 DEF Follows
    <3>8. IsStop(At(o2.buf, t)) /\ t < E - 1
      <4>1. t < E - 1
        BY <1>1, <3>2
      <4>2. QED
        BY <1>3, <1>4, <3>2, <4>1, KeptStop
    <3>9. BackAt(o2.buf, E - 1)
      <4>1. At(o2.buf, E - 1)[1] = "pointer" /\ At(o2.buf, E - 1)[2] = c.pos
        BY <1>2, <3>4
      <4>2. QED
        BY <3>1, <3>2, <3>8, <4>1 DEF BackAt
    <3>10. IsStop(end)
      BY <2>2, Cells
    <3>11. QED
      BY <3>7, <3>9, <3>10
  <2>3. QED
    BY <2>1, <2>2 DEF CutAt
\* The labels, and the suffixes that begin with them.
<1>7. ASSUME NEW i \in 1..(cut - 1)
      PROVE  [name |-> Suffix(n, i), pos |-> (L - 1) + i] \in ToSet(o2.comp)
  BY <1>3, <1>7
<1>8. ASSUME NEW i \in 1..cut PROVE Follows(o2, (L - 1) + i, Suffix(n, i))
  <2>1. CASE i = cut
    <3>1. (L - 1) + i = E - 1
      BY <1>1, <2>1 DEF E
    <3>2. QED
      BY <1>6, <2>1, <3>1
  <2>2. CASE i # cut
    <3>1. i \in 1..(cut - 1)
      BY <1>1, <2>2
    <3> DEFINE c == [name |-> Suffix(n, i), pos |-> (L - 1) + i]
    <3>2. c \in ToSet(o2.comp) /\ c.name = Suffix(n, i) /\ c.pos = (L - 1) + i
      BY <1>7, <3>1
    <3> HIDE DEF c
    <3>3. QED
      BY <3>2 DEF Follows
  <2>3. QED
    BY <2>1, <2>2
<1>9. ASSUME NEW i \in 1..(cut - 1)
      PROVE  Recorded(o2, [name |-> Suffix(n, i), pos |-> (L - 1) + i])
  <2> DEFINE c == [name |-> Suffix(n, i), pos |-> (L - 1) + i]
  <2>1. c.name = Suffix(n, i) /\ c.pos = (L - 1) + i
    OBVIOUS
  <2> HIDE DEF c
  <2>2. i \in 1..Len(n) /\ i \in 1..(Len(n) + 1) /\ i + 1 \in 1..cut /\ i \in Nat
    BY <1>1, <1>9
  <2>3. c.pos \in Nat /\ L <= c.pos /\ c.pos < E - 1 /\ c.pos + 1 < E
        /\ c.pos - L + 1 = i /\ c.pos + 1 = (L - 1) + (i + 1)
    <3> HIDE DEF L
    <3>1. QED
      BY <1>1, <1>9, <2>1 DEF E
  <2>4. IsList(c.name) /\ c.name # <<>> /\ c.name[1] = n[i] /\ Suffix(c.name, 2) = Suffix(n, i + 1)
    BY <2>1, <2>2, NextSuffix, SuffixFacts
  <2>5. At(o2.buf, c.pos) = Label(c.name[1])
    <3>1. At(o2.buf, c.pos) = Label(n[c.pos - L + 1])
      BY <1>2, <2>3
    <3>2. QED
      BY <2>3, <2>4, <3>1
  <2>6. Follows(o2, c.pos + 1, Suffix(c.name, 2))
    BY <1>8, <2>2, <2>3, <2>4
  <2>7. E - 1 < Len(o2.buf) /\ IsStop(At(o2.buf, E - 1))
    BY <1>1, <1>2, <1>6
  <2>8. Recorded(o2, c)
    BY <1>1, <1>2, <2>3, <2>4, <2>5, <2>6, <2>7 DEF Recorded
  <2>9. QED
    BY <2>8 DEF c
<1>10. \A c \in ToSet(o2.comp) \ ToSet(out.comp) : Recorded(o2, c)
  BY <1>3, <1>9
<1>11. \A p \in Nat : L <= p /\ p < Len(o2.buf) => BackAt(o2.buf, p)
  <2>1. SUFFICES ASSUME NEW p \in Nat, L <= p, p < E, p # E - 1 PROVE BackAt(o2.buf, p)
    BY <1>2, <1>6
  <2>2. p < E - 1
    BY <1>1, <2>1
  <2>3. At(o2.buf, p) = Label(n[p - L + 1])
    BY <1>2, <2>1, <2>2
  <2>4. At(o2.buf, p)[1] = "label"
    BY <2>3, Cells
  <2>5. QED
    BY <2>4 DEF BackAt
<1>12. Sound(o2)
  BY <1>3, <1>4, <1>10, <1>11, KeptSound
<1>13. NameAt(o2, L, n, E)
  <2>1. Follows(o2, L, n)
    <3>1. 1 \in 1..cut /\ (L - 1) + 1 = L /\ Suffix(n, 1) = n
      BY <1>1, WholeSuffix
    <3>2. Follows(o2, (L - 1) + 1, Suffix(n, 1))
      BY <1>8, <3>1
    <3>3. QED
      BY <3>1, <3>2
  <2>2. \A i \in Nat : L <= i /\ i < E - 1 => ~IsStop(At(o2.buf, i))
    BY <1>2, Cells
  <2>3. L < E /\ E <= Len(o2.buf) /\ IsStop(At(o2.buf, E - 1))
    BY <1>1, <1>2, <1>6
  <2>4. QED
    BY <2>1, <2>2, <2>3 DEF NameAt
<1>14. QED
  BY <1>2, <1>12, <1>13

\* What is written goes behind what there is.
Grows(o1, o2) == Extends(o1.buf, o2.buf) /\ ToSet(o1.comp) \subseteq ToSet(o2.comp)

LEMMA EncodesName ==
  ASSUME NEW out, Faithful(out), NEW n, IsList(n), NEW o2, o2 = EncodeName(out, n)
  PROVE  /\ Faithful(o2) /\ Grows(out, o2) /\ Len(out.buf) < Len(o2.buf)
         /\ Len(o2.buf) <= PointerLimit => NameAt(o2, Len(out.buf), n, Len(o2.buf))
<1>1. IsList(out.buf) /\ IsList(out.comp) /\ (Len(out.buf) <= PointerLimit => Sound(out))
  BY DEF Faithful
<1>2. PICK cut \in 1..(Len(n) + 1) : \E end : CutAt(out, n, cut, end) /\ Named(out, n, o2, cut, end)
  BY <1>1, NameShape
<1>3. PICK end : CutAt(out, n, cut, end) /\ Named(out, n, o2, cut, end)
  BY <1>2
<1>4. cut \in Nat \ {0} /\ PointerLimit \in Nat
  BY ListFacts, PointerLimitAssumption
<1>5. /\ Len(out.buf) \in Nat /\ Len(o2.buf) = Len(out.buf) + cut
      /\ Extends(out.buf, o2.buf)
  BY <1>1, <1>3, <1>4, NamedCells DEF LaidOut
<1>6. Len(out.buf) < Len(o2.buf) /\ (Len(o2.buf) <= PointerLimit => Len(out.buf) <= PointerLimit)
  BY <1>4, <1>5
<1>7. /\ o2 = [buf |-> o2.buf, comp |-> o2.comp]
      /\ IsList(o2.buf) /\ IsList(o2.comp) /\ ToSet(out.comp) \subseteq ToSet(o2.comp)
  BY <1>3 DEF Named
<1>8. ASSUME Len(o2.buf) <= PointerLimit
      PROVE  Sound(o2) /\ NameAt(o2, Len(out.buf), n, Len(o2.buf))
  BY <1>1, <1>3, <1>6, <1>8, NameSound
<1>9. QED
  BY <1>5, <1>6, <1>7, <1>8 DEF Faithful, Grows

\* Fields, and labels that are no part of a name.
Plain(cells) ==
  IsList(cells) /\ \A i \in 1..Len(cells) : cells[i][1] \in {"label", "field"}

Behind(out, cells, o2) ==
  /\ Len(o2.buf) = Len(out.buf) + Len(cells)
  /\ \A i \in 1..Len(cells) : At(o2.buf, (Len(out.buf) - 1) + i) = cells[i]

LEMMA WritesPlain ==
  ASSUME NEW out, Faithful(out), NEW cells, Plain(cells), NEW o2, o2 = Write(out, cells)
  PROVE  Faithful(o2) /\ Grows(out, o2) /\ Behind(out, cells, o2)
<1> DEFINE L == Len(out.buf)  m == Len(cells)
<1>1. /\ out = [buf |-> out.buf, comp |-> out.comp] /\ IsList(out.buf) /\ IsList(out.comp)
      /\ Len(out.buf) <= PointerLimit => Sound(out)
  BY DEF Faithful
<1>2. o2.buf = out.buf \o cells /\ o2.comp = out.comp /\ o2 = [buf |-> o2.buf, comp |-> o2.comp]
  BY <1>1 DEF Write
<1>3. L \in Nat /\ m \in Nat /\ PointerLimit \in Nat
  BY <1>1, ListFacts, PointerLimitAssumption DEF Plain
<1>4. /\ IsList(o2.buf) /\ Len(o2.buf) = L + m
      /\ \A i \in 1..L : o2.buf[i] = out.buf[i]
      /\ \A i \in 1..m : o2.buf[L + i] = cells[i]
  BY <1>1, <1>2, JoinLists DEF Plain
<1>5. Extends(out.buf, o2.buf)
  <2>1. \A i \in 0..(L - 1) : i + 1 \in 1..L
    BY <1>3
  <2>2. \A i \in 0..(L - 1) : At(o2.buf, i) = At(out.buf, i)
    BY <1>4, <2>1 DEF At
  <2>3. L <= Len(o2.buf)
    BY <1>3, <1>4
  <2>4. QED
    BY <2>2, <2>3 DEF Extends
<1>6. \A i \in 1..m : At(o2.buf, (L - 1) + i) = cells[i]
  <2>1. \A i \in 1..m : ((L - 1) + i) + 1 = L + i
    BY <1>3
  <2>2. QED
    BY <1>4, <2>1 DEF At
<1>7. ASSUME NEW p \in Nat, L <= p, p < Len(o2.buf) PROVE BackAt(o2.buf, p)
  <2> DEFINE i == p - L + 1
  <2>1. i \in 1..m /\ (L - 1) + i = p
    <3> HIDE DEF L, m
    <3>1. QED
      BY <1>3, <1>4, <1>7
  <2> HIDE DEF i
  <2>2. At(o2.buf, p) = cells[i] /\ cells[i][1] \in {"label", "field"}
    BY <1>6, <2>1 DEF Plain
  <2>3. QED
    BY <2>2 DEF BackAt
<1>8. Len(o2.buf) <= PointerLimit => Sound(o2)
  <2>1. SUFFICES ASSUME Len(o2.buf) <= PointerLimit PROVE Sound(o2)
    OBVIOUS
  <2>2. L <= PointerLimit
    <3> HIDE DEF L, m
    <3>1. QED
      BY <1>3, <1>4, <2>1
  <2>3. Keeps(out.buf, o2.buf)
    BY <1>5, ExtendsKeeps
  <2>4. QED
    BY <1>1, <1>2, <1>4, <1>7, <2>2, <2>3, KeptSound
<1>9. QED
  BY <1>1, <1>2, <1>4, <1>5, <1>6, <1>8 DEF Faithful, Grows, Behind

\* A field that is filled in.
Filled(out, h, v) == [out EXCEPT !.buf[h] = Field(v)]

FilledIn(out, h, v, o2) ==
  /\ Keeps(out.buf, o2.buf) /\ o2.comp = out.comp
  /\ Len(o2.buf) = Len(out.buf) /\ At(o2.buf, h - 1) = Field(v)
  /\ \A i \in 0..(Len(out.buf) - 1) : i # h - 1 => At(o2.buf, i) = At(out.buf, i)

LEMMA FieldFilled ==
  ASSUME NEW out, Faithful(out), NEW h \in 1..Len(out.buf), out.buf[h][1] = "field", NEW v,
         NEW o2, o2 = Filled(out, h, v)
  PROVE  Faithful(o2) /\ FilledIn(out, h, v, o2)
<1> DEFINE L == Len(out.buf)  b == [out.buf EXCEPT ![h] = Field(v)]
<1>1. /\ out = [buf |-> out.buf, comp |-> out.comp] /\ IsList(out.buf) /\ IsList(out.comp)
      /\ Len(out.buf) <= PointerLimit => Sound(out)
  BY DEF Faithful
<1>2. o2.buf = b /\ o2.comp = out.comp /\ o2 = [buf |-> o2.buf, comp |-> o2.comp]
  <2>1. o2 = [out EXCEPT !.buf = b]
    BY DEF Filled
  <2> HIDE DEF b
  <2>2. QED
    BY <1>1, <2>1
<1>3. L \in Nat /\ DOMAIN out.buf = 1..L
  BY <1>1, ListFacts
<1>4. b = [i \in 1..L |-> b[i]] /\ b[h] = Field(v) /\ \A i \in 1..L : i # h => b[i] = out.buf[i]
  BY <1>3
<1> HIDE DEF b
<1>5. IsList(b) /\ Len(b) = L
  BY <1>3, <1>4, FunctionList
<1>6. At(b, h - 1) = Field(v)
  <2>1. (h - 1) + 1 = h
    BY <1>3
  <2>2. QED
    BY <1>4, <2>1 DEF At
<1>7. \A i \in 0..(L - 1) : i # h - 1 => At(b, i) = At(out.buf, i)
  <2>1. \A i \in 0..(L - 1) : i + 1 \in 1..L /\ (i # h - 1 => i + 1 # h)
    BY <1>3
  <2>2. QED
    BY <1>4, <2>1 DEF At
<1>8. Keeps(out.buf, b)
  <2>1. At(out.buf, h - 1)[1] = "field"
    <3>1. (h - 1) + 1 = h
      BY <1>3
    <3>2. QED
      BY <3>1 DEF At
  <2>2. At(b, h - 1)[1] = "field"
    BY <1>6, Cells
  <2>3. L <= Len(b)
    BY <1>3, <1>5
  <2>4. QED
    BY <1>7, <2>1, <2>2, <2>3 DEF Keeps
<1>9. Len(b) <= PointerLimit => Sound(o2)
  <2>1. ~ \E p \in Nat : L <= p /\ p < L
    BY <1>3
  <2>2. QED
    BY <1>1, <1>2, <1>5, <1>8, <2>1, KeptSound
<1>10. QED
  BY <1>1, <1>2, <1>5, <1>6, <1>7, <1>8, <1>9 DEF Faithful, FilledIn

LEMMA GrowsOn ==
  ASSUME NEW o1, NEW o2, NEW o3, Grows(o1, o2), Grows(o2, o3),
         IsList(o1.buf), IsList(o2.buf), IsList(o3.buf)
  PROVE  Grows(o1, o3) /\ Len(o1.buf) <= Len(o2.buf) /\ Len(o2.buf) <= Len(o3.buf)
<1>1. /\ Len(o1.buf) <= Len(o2.buf) /\ Len(o2.buf) <= Len(o3.buf)
      /\ Len(o1.buf) \in Nat /\ Len(o2.buf) \in Nat /\ Len(o3.buf) \in Nat
  BY ListFacts DEF Grows, Extends
<1>2. \A i \in 0..(Len(o1.buf) - 1) : At(o3.buf, i) = At(o1.buf, i)
  <2>1. \A i \in 0..(Len(o1.buf) - 1) : i \in 0..(Len(o2.buf) - 1)
    BY <1>1
  <2>2. QED
    BY <2>1 DEF Grows, Extends
<1>3. Len(o1.buf) <= Len(o3.buf)
  BY <1>1
<1>4. QED
  BY <1>1, <1>2, <1>3 DEF Grows, Extends

\* The data of a record, at d.
DataAt(out, d, r) ==
  /\ d < Len(out.buf)
  /\ r.type = "PTR" => Follows(out, d, r.data)
  /\ r.type \in {"A", "AAAA", "TXT"} => At(out.buf, d)[2] = r.data

LEMMA EncodesPlain ==
  ASSUME NEW out, Faithful(out), NEW c, c[1] \in {"label", "field"},
         NEW o2, o2 = Write(out, <<c>>)
  PROVE  /\ Faithful(o2) /\ Grows(out, o2) /\ Len(o2.buf) = Len(out.buf) + 1
         /\ At(o2.buf, Len(out.buf)) = c
<1> DEFINE w == <<c>>
<1>1. IsList(w) /\ Len(w) = 1 /\ w[1] = c /\ 1 \in 1..1
  BY SingleList
<1>2. o2 = Write(out, w)
  OBVIOUS
<1> HIDE DEF w
<1>3. Plain(w)
  BY <1>1 DEF Plain
<1>4. Faithful(o2) /\ Grows(out, o2) /\ Behind(out, w, o2)
  BY <1>2, <1>3, WritesPlain
<1>5. At(o2.buf, (Len(out.buf) - 1) + 1) = c
  BY <1>1, <1>4 DEF Behind
<1>6. (Len(out.buf) - 1) + 1 = Len(out.buf)
  <2>1. Len(out.buf) \in Nat
    BY ListFacts DEF Faithful
  <2>2. QED
    BY <2>1
<1>7. QED
  BY <1>1, <1>4, <1>5, <1>6 DEF Behind

LEMMA EncodesData ==
  ASSUME NEW out, Faithful(out), NEW r, WellFormed(r), NEW o2, o2 = EncodeData(out, r)
  PROVE  /\ Faithful(o2) /\ Grows(out, o2) /\ Len(out.buf) < Len(o2.buf)
         /\ Len(o2.buf) <= PointerLimit => DataAt(o2, Len(out.buf), r)
<1>1. IsList(out.buf) /\ Len(out.buf) \in Nat
  BY ListFacts DEF Faithful
<1>2. \A o : Faithful(o) => IsList(o.buf) /\ Len(o.buf) \in Nat
  BY ListFacts DEF Faithful
<1>3. CASE r.type = "PTR"
  <2>1. o2 = EncodeName(out, r.data) /\ IsList(r.data)
    BY <1>3 DEF EncodeData, WellFormed
  <2>2. /\ Faithful(o2) /\ Grows(out, o2) /\ Len(out.buf) < Len(o2.buf)
        /\ Len(o2.buf) <= PointerLimit => NameAt(o2, Len(out.buf), r.data, Len(o2.buf))
    BY <2>1, EncodesName
  <2>3. QED
    BY <1>3, <2>2 DEF DataAt, NameAt
<1>4. CASE r.type = "SRV"
  <2> DEFINE o1 == Write(out, <<Field("port")>>)
  <2>1. o2 = EncodeName(o1, r.data) /\ IsList(r.data)
    BY <1>4 DEF EncodeData, WellFormed
  <2>2. Field("port")[1] \in {"label", "field"}
    BY Cells
  <2>3. Faithful(o1) /\ Grows(out, o1) /\ Len(o1.buf) = Len(out.buf) + 1
    BY <2>2, EncodesPlain
  <2> HIDE DEF o1
  <2>4. Faithful(o2) /\ Grows(o1, o2) /\ Len(o1.buf) < Len(o2.buf)
    BY <2>1, <2>3, EncodesName
  <2>5. Grows(out, o2)
    BY <1>2, <2>3, <2>4, GrowsOn
  <2>6. Len(out.buf) < Len(o2.buf)
    BY <1>2, <2>3, <2>4
  <2>7. DataAt(o2, Len(out.buf), r)
    BY <1>4, <2>6 DEF DataAt
  <2>8. QED
    BY <2>4, <2>5, <2>6, <2>7
<1>5. CASE r.type = "NSEC"
  <2> DEFINE o1 == EncodeName(out, r.name)
  <2>1. o2 = Write(o1, <<Field(r.data)>>) /\ IsList(r.name)
    BY <1>5 DEF EncodeData, WellFormed
  <2>2. Faithful(o1) /\ Grows(out, o1) /\ Len(out.buf) < Len(o1.buf)
    BY <2>1, EncodesName
  <2> HIDE DEF o1
  <2>3. Field(r.data)[1] \in {"label", "field"}
    BY Cells
  <2>4. Faithful(o2) /\ Grows(o1, o2) /\ Len(o2.buf) = Len(o1.buf) + 1
    BY <2>1, <2>2, <2>3, EncodesPlain
  <2>5. Grows(out, o2)
    BY <1>2, <2>2, <2>4, GrowsOn
  <2>6. Len(out.buf) < Len(o2.buf)
    BY <1>2, <2>2, <2>4
  <2>7. DataAt(o2, Len(out.buf), r)
    BY <1>5, <2>6 DEF DataAt
  <2>8. QED
    BY <2>4, <2>5, <2>6, <2>7
<1>6. ASSUME NEW c, c[1] \in {"label", "field"}, c[2] = r.data, o2 = Write(out, <<c>>),
             r.type # "PTR"
      PROVE  /\ Faithful(o2) /\ Grows(out, o2) /\ Len(out.buf) < Len(o2.buf)
             /\ DataAt(o2, Len(out.buf), r)
  <2>1. /\ Faithful(o2) /\ Grows(out, o2) /\ Len(o2.buf) = Len(out.buf) + 1
        /\ At(o2.buf, Len(out.buf)) = c
    BY <1>6, EncodesPlain
  <2>2. Len(out.buf) < Len(o2.buf)
    BY <1>1, <2>1
  <2>3. QED
    BY <1>6, <2>1, <2>2 DEF DataAt
<1>7. CASE r.type = "TXT"
  <2>1. o2 = Write(out, <<Label(r.data)>>)
    BY <1>7 DEF EncodeData
  <2>2. Label(r.data)[1] \in {"label", "field"} /\ Label(r.data)[2] = r.data
    BY Cells
  <2>3. QED
    BY <1>6, <1>7, <2>1, <2>2
<1>8. CASE r.type \in {"A", "AAAA"}
  <2>1. o2 = Write(out, <<Field(r.data)>>)
    BY <1>8 DEF EncodeData
  <2>2. Field(r.data)[1] \in {"label", "field"} /\ Field(r.data)[2] = r.data
    BY Cells
  <2>3. QED
    BY <1>6, <1>8, <2>1, <2>2
<1>9. QED
  BY <1>3, <1>4, <1>5, <1>7, <1>8 DEF WellFormed

\* A record stands at a, and what follows it at e.
RecordFrom(out, a, r, ttl, e, p) ==
  /\ NameAt(out, a, r.name, p)
  /\ p + 3 < e /\ e <= Len(out.buf)
  /\ At(out.buf, p) = Field(r.type) /\ At(out.buf, p + 1) = Field(ttl)
  /\ At(out.buf, p + 2) = Field(e - (p + 3))
  /\ DataAt(out, p + 3, r)

Written(out, a, r, ttl, e) == \E p \in Nat : RecordFrom(out, a, r, ttl, e, p)

LEMMA KeptName ==
  ASSUME NEW o1, NEW o2, IsList(o1.buf), IsList(o2.buf), Keeps(o1.buf, o2.buf),
         ToSet(o1.comp) \subseteq ToSet(o2.comp),
         NEW a \in Nat, NEW n, NEW e \in Nat, NameAt(o1, a, n, e)
  PROVE  NameAt(o2, a, n, e)
<1>1. Len(o1.buf) \in Nat /\ Len(o2.buf) \in Nat /\ Len(o1.buf) <= Len(o2.buf)
  BY ListFacts DEF Keeps
<1>2. a < e /\ e <= Len(o1.buf) /\ e <= Len(o2.buf) /\ e - 1 \in Nat /\ e - 1 < Len(o1.buf)
  BY <1>1 DEF NameAt
<1>3. Follows(o2, a, n)
  BY KeptFollows DEF NameAt
<1>4. IsStop(At(o2.buf, e - 1))
  BY <1>2, KeptStop DEF NameAt
<1>5. \A i \in Nat : a <= i /\ i < e - 1 => ~IsStop(At(o2.buf, i))
  <2>1. SUFFICES ASSUME NEW i \in Nat, a <= i, i < e - 1 PROVE ~IsStop(At(o2.buf, i))
    OBVIOUS
  <2>2. i < Len(o1.buf) /\ ~IsStop(At(o1.buf, i))
    BY <1>1, <1>2, <2>1 DEF NameAt
  <2>3. QED
    BY <2>2, KeptStop
<1>6. QED
  BY <1>2, <1>3, <1>4, <1>5 DEF NameAt

LEMMA KeptWritten ==
  ASSUME NEW o1, NEW o2, IsList(o1.buf), IsList(o2.buf), Grows(o1, o2),
         NEW a \in Nat, NEW r, NEW ttl, NEW e \in Nat, Written(o1, a, r, ttl, e)
  PROVE  Written(o2, a, r, ttl, e)
<1>1. PICK p \in Nat : RecordFrom(o1, a, r, ttl, e, p)
  BY DEF Written
<1>2. Keeps(o1.buf, o2.buf) /\ ToSet(o1.comp) \subseteq ToSet(o2.comp)
  BY ExtendsKeeps DEF Grows
<1>3. Len(o1.buf) \in Nat /\ Len(o2.buf) \in Nat /\ Len(o1.buf) <= Len(o2.buf)
  BY <1>2, ListFacts DEF Keeps
<1>4. /\ p + 3 \in Nat /\ p + 3 < Len(o1.buf) /\ p + 3 < Len(o2.buf)
      /\ p + 3 < e /\ e <= Len(o1.buf)
  BY <1>1, <1>3 DEF RecordFrom, DataAt
<1>5. \A i \in 0..(Len(o1.buf) - 1) : At(o2.buf, i) = At(o1.buf, i)
  BY DEF Grows, Extends
<1>6. /\ At(o2.buf, p) = At(o1.buf, p) /\ At(o2.buf, p + 1) = At(o1.buf, p + 1)
      /\ At(o2.buf, p + 2) = At(o1.buf, p + 2) /\ At(o2.buf, p + 3) = At(o1.buf, p + 3)
  <2>1. /\ p \in 0..(Len(o1.buf) - 1) /\ p + 1 \in 0..(Len(o1.buf) - 1)
        /\ p + 2 \in 0..(Len(o1.buf) - 1) /\ p + 3 \in 0..(Len(o1.buf) - 1)
    BY <1>3, <1>4
  <2>2. QED
    BY <1>5, <2>1
<1>7. NameAt(o2, a, r.name, p)
  BY <1>1, <1>2, KeptName DEF RecordFrom
<1>8. DataAt(o2, p + 3, r)
  <2>1. r.type = "PTR" => Follows(o2, p + 3, r.data)
    BY <1>1, <1>2, <1>4, KeptFollows DEF RecordFrom, DataAt
  <2>2. QED
    BY <1>1, <1>4, <1>6, <2>1 DEF RecordFrom, DataAt
<1>9. e <= Len(o2.buf)
  BY <1>3, <1>4
<1>10. RecordFrom(o2, a, r, ttl, e, p)
  BY <1>1, <1>4, <1>6, <1>7, <1>8, <1>9 DEF RecordFrom
<1>11. QED
  BY <1>10 DEF Written

\* The header of a record: three fields behind its name.
LEMMA EncodesHead ==
  ASSUME NEW out, Faithful(out), NEW a, NEW b, NEW c,
         NEW o2, o2 = Write(out, <<Field(a), Field(b), Field(c)>>)
  PROVE  /\ Faithful(o2) /\ Grows(out, o2) /\ Len(o2.buf) = Len(out.buf) + 3
         /\ At(o2.buf, Len(out.buf)) = Field(a) /\ At(o2.buf, Len(out.buf) + 1) = Field(b)
         /\ At(o2.buf, Len(out.buf) + 2) = Field(c)
<1> DEFINE w == <<Field(a), Field(b), Field(c)>>
<1>1. /\ IsList(w) /\ Len(w) = 3 /\ w[1] = Field(a) /\ w[2] = Field(b) /\ w[3] = Field(c)
      /\ 1 \in 1..3 /\ 2 \in 1..3 /\ 3 \in 1..3 /\ 1..3 = {1, 2, 3}
  BY TripleList
<1>2. o2 = Write(out, w)
  OBVIOUS
<1> HIDE DEF w
<1>3. Plain(w)
  BY <1>1, Cells DEF Plain
<1>4. Faithful(o2) /\ Grows(out, o2) /\ Behind(out, w, o2)
  BY <1>2, <1>3, WritesPlain
<1>5. /\ Len(o2.buf) = Len(out.buf) + 3
      /\ \A i \in 1..3 : At(o2.buf, (Len(out.buf) - 1) + i) = w[i]
  BY <1>1, <1>4 DEF Behind
<1>6. Len(out.buf) \in Nat
  BY ListFacts DEF Faithful
<1>7. /\ (Len(out.buf) - 1) + 1 = Len(out.buf) /\ (Len(out.buf) - 1) + 2 = Len(out.buf) + 1
      /\ (Len(out.buf) - 1) + 3 = Len(out.buf) + 2
  BY <1>6
<1>8. /\ At(o2.buf, (Len(out.buf) - 1) + 1) = w[1] /\ At(o2.buf, (Len(out.buf) - 1) + 2) = w[2]
      /\ At(o2.buf, (Len(out.buf) - 1) + 3) = w[3]
  BY <1>1, <1>5
<1>9. QED
  BY <1>1, <1>4, <1>5, <1>7, <1>8

\* A record goes into a faithful packet, which stays faithful and has it
\* where the record before it ended.
LEMMA EncodesRR ==
  ASSUME NEW out, Faithful(out), NEW r, WellFormed(r), NEW ttl,
         NEW o2, o2 = EncodeRR(out, r, ttl)
  PROVE  /\ Faithful(o2) /\ Grows(out, o2) /\ Len(out.buf) < Len(o2.buf)
         /\ Len(o2.buf) <= PointerLimit => Written(o2, Len(out.buf), r, ttl, Len(o2.buf))
<1> DEFINE o1 == EncodeName(out, r.name)
           head == Write(o1, <<Field(r.type), Field(ttl), Field(0)>>)
           done == EncodeData(head, r)
           a == Len(out.buf)  p == Len(o1.buf)  h == Len(head.buf)  e == Len(done.buf)
<1>1. o2 = Filled(done, h, e - h)
  BY DEF EncodeRR, Filled
<1>2. IsList(r.name)
  BY DEF WellFormed
<1>3. /\ Faithful(o1) /\ Grows(out, o1) /\ Len(out.buf) < Len(o1.buf)
      /\ Len(o1.buf) <= PointerLimit => NameAt(o1, Len(out.buf), r.name, Len(o1.buf))
  BY <1>2, EncodesName
<1>4. /\ Faithful(head) /\ Grows(o1, head) /\ Len(head.buf) = Len(o1.buf) + 3
      /\ At(head.buf, Len(o1.buf)) = Field(r.type) /\ At(head.buf, Len(o1.buf) + 1) = Field(ttl)
      /\ At(head.buf, Len(o1.buf) + 2) = Field(0)
  <2> HIDE DEF o1
  <2>1. QED
    BY <1>3, EncodesHead
<1>5. /\ Faithful(done) /\ Grows(head, done) /\ Len(head.buf) < Len(done.buf)
      /\ Len(done.buf) <= PointerLimit => DataAt(done, Len(head.buf), r)
  <2> HIDE DEF head
  <2>1. QED
    BY <1>4, EncodesData
<1> HIDE DEF o1, head, done
<1>6. /\ IsList(out.buf) /\ IsList(o1.buf) /\ IsList(head.buf) /\ IsList(done.buf)
      /\ a \in Nat /\ p \in Nat /\ h \in Nat /\ e \in Nat
  BY <1>3, <1>4, <1>5, ListFacts DEF Faithful
<1>7. a < p /\ h = p + 3 /\ h < e /\ h - 1 = p + 2 /\ PointerLimit \in Nat
      /\ (e <= PointerLimit => p <= PointerLimit)
  <2>1. a < p /\ h = p + 3 /\ h < e
    BY <1>3, <1>4, <1>5
  <2>2. PointerLimit \in Nat
    BY PointerLimitAssumption
  <2> HIDE DEF a, p, h, e
  <2>3. QED
    BY <1>6, <2>1, <2>2
\* The field filled in is the third one of the head.
<1>8. h \in 1..e /\ done.buf[h][1] = "field"
  <2>1. h \in 1..e /\ p + 2 \in 0..(h - 1) /\ (p + 2) + 1 = h
    BY <1>6, <1>7
  <2>2. At(done.buf, p + 2) = Field(0)
    BY <1>4, <1>5, <2>1 DEF Grows, Extends
  <2>3. done.buf[h] = Field(0)
    BY <2>1, <2>2 DEF At
  <2>4. QED
    BY <2>1, <2>3, Cells
<1>9. /\ Faithful(o2) /\ Keeps(done.buf, o2.buf) /\ o2.comp = done.comp
      /\ Len(o2.buf) = e /\ At(o2.buf, h - 1) = Field(e - h)
      /\ \A i \in 0..(e - 1) : i # h - 1 => At(o2.buf, i) = At(done.buf, i)
  <2>1. Faithful(o2) /\ FilledIn(done, h, e - h, o2)
    BY <1>1, <1>5, <1>8, FieldFilled
  <2>2. QED
    BY <2>1 DEF FilledIn
<1>10. Grows(o1, done) /\ Grows(out, done)
  <2>1. Grows(o1, done)
    BY <1>4, <1>5, <1>6, GrowsOn
  <2>2. QED
    BY <1>3, <1>6, <2>1, GrowsOn
<1>11. Grows(out, o2)
  <2>1. ToSet(out.comp) \subseteq ToSet(o2.comp)
    BY <1>9, <1>10 DEF Grows
  <2>2. \A i \in 0..(a - 1) : At(o2.buf, i) = At(out.buf, i)
    <3>1. \A i \in 0..(a - 1) : i \in 0..(e - 1) /\ i # h - 1
      <4> HIDE DEF a, p, h, e
      <4>1. QED
        BY <1>6, <1>7
    <3>2. \A i \in 0..(a - 1) : At(done.buf, i) = At(out.buf, i)
      BY <1>10 DEF Grows, Extends
    <3>3. QED
      BY <1>9, <3>1, <3>2
  <2>3. a <= Len(o2.buf)
    BY <1>6, <1>7, <1>9
  <2>4. QED
    BY <2>1, <2>2, <2>3 DEF Grows, Extends
<1>12. ASSUME Len(o2.buf) <= PointerLimit PROVE Written(o2, a, r, ttl, Len(o2.buf))
  <2>1. e <= PointerLimit /\ p <= PointerLimit /\ IsList(o2.buf)
    BY <1>7, <1>9, <1>12 DEF Faithful
  <2>2. NameAt(o2, a, r.name, p)
    <3>1. NameAt(o1, a, r.name, p)
      BY <1>3, <2>1
    <3>2. Keeps(o1.buf, done.buf) /\ ToSet(o1.comp) \subseteq ToSet(done.comp)
      BY <1>10, ExtendsKeeps DEF Grows
    <3>3. NameAt(done, a, r.name, p)
      BY <1>6, <3>1, <3>2, KeptName
    <3>4. QED
      BY <1>6, <1>9, <2>1, <3>3, KeptName
  <2>3. At(o2.buf, p) = Field(r.type) /\ At(o2.buf, p + 1) = Field(ttl)
    <3>1. /\ p \in 0..(h - 1) /\ p + 1 \in 0..(h - 1) /\ p \in 0..(e - 1) /\ p + 1 \in 0..(e - 1)
          /\ p # h - 1 /\ p + 1 # h - 1
      <4> HIDE DEF a, p, h, e
      <4>1. QED
        BY <1>6, <1>7
    <3>2. At(done.buf, p) = Field(r.type) /\ At(done.buf, p + 1) = Field(ttl)
      BY <1>4, <1>5, <3>1 DEF Grows, Extends
    <3>3. QED
      BY <1>9, <3>1, <3>2
  <2>4. At(o2.buf, p + 2) = Field(e - (p + 3))
    BY <1>7, <1>9
  <2>5. DataAt(o2, p + 3, r)
    <3>1. DataAt(done, h, r)
      BY <1>5, <2>1
    <3>2. h \in Nat /\ h < Len(o2.buf) /\ h \in 0..(e - 1) /\ h # h - 1
      BY <1>6, <1>7, <1>9
    <3>3. At(o2.buf, h) = At(done.buf, h)
      BY <1>9, <3>2
    <3>4. r.type = "PTR" => Follows(o2, h, r.data)
      BY <1>6, <1>9, <2>1, <3>1, <3>2, KeptFollows DEF DataAt
    <3>5. DataAt(o2, h, r)
      BY <3>1, <3>2, <3>3, <3>4 DEF DataAt
    <3>6. QED
      BY <1>7, <3>5
  <2>6. p + 3 < e /\ e <= Len(o2.buf)
    BY <1>6, <1>7, <1>9
  <2>7. RecordFrom(o2, a, r, ttl, e, p)
    BY <2>2, <2>3, <2>4, <2>5, <2>6 DEF RecordFrom
  <2>8. QED
    BY <1>6, <1>9, <2>7 DEF Written
<1>13. QED
  BY <1>6, <1>7, <1>9, <1>11, <1>12

----------------------------------------------------------------------------
(* Reading a packet. *)

\* What a receiver makes of a record.
Shown(r, ttl) ==
  [name |-> r.name, type |-> r.type, ttl |-> ttl,
   data |-> IF r.type \in {"SRV", "NSEC"} THEN "skipped" ELSE r.data]

LEMMA NameLength ==
  ASSUME NEW out, IsList(out.buf), NEW a \in Nat, NEW n, NEW p \in Nat, NameAt(out, a, n, p)
  PROVE  a + LabelLen(out.buf, a) = p
<1> DEFINE S == {k \in 0..(Len(out.buf) - a - 1) :
                   At(out.buf, a + k)[1] \in {"root", "pointer"}}
<1>1. Len(out.buf) \in Nat /\ a < p /\ p <= Len(out.buf)
  BY ListFacts DEF NameAt
<1>2. (p - 1) - a \in 0..(Len(out.buf) - a - 1) /\ a + ((p - 1) - a) = p - 1
  BY <1>1
<1>3. (p - 1) - a \in S
  BY <1>2 DEF NameAt, IsStop
<1>4. S \subseteq Nat
  OBVIOUS
<1> DEFINE m == Min(S)
<1>5. m \in S /\ \A x \in S : m <= x
  <2> HIDE DEF S
  <2>1. QED
    BY <1>3, <1>4, LeastMember
<1>6. LabelLen(out.buf, a) = 1 + m
  BY DEF LabelLen
<1>7. m \in Nat /\ m <= (p - 1) - a /\ IsStop(At(out.buf, a + m))
  BY <1>3, <1>4, <1>5 DEF IsStop
<1> HIDE DEF m
<1>8. ~(a + m < p - 1)
  <2>1. a + m \in Nat /\ a <= a + m
    BY <1>7
  <2>2. QED
    BY <1>7, <2>1 DEF NameAt
<1>9. QED
  BY <1>1, <1>6, <1>7, <1>8

LEMMA ParsesRR ==
  ASSUME NEW out, IsList(out.buf), Sound(out), NEW r, WellFormed(r), NEW ttl,
         NEW a \in Nat, NEW e \in Nat, Written(out, a, r, ttl, e),
         NEW parsed, parsed.off = a
  PROVE  ParseRR(out.buf, parsed) = [rrs |-> Append(parsed.rrs, Shown(r, ttl)), off |-> e]
<1> DEFINE B == out.buf
<1>1. PICK p \in Nat : RecordFrom(out, a, r, ttl, e, p)
  BY DEF Written
<1>2. /\ NameAt(out, a, r.name, p) /\ p + 3 < e /\ e <= Len(B)
      /\ At(B, p) = Field(r.type) /\ At(B, p + 1) = Field(ttl)
      /\ At(B, p + 2) = Field(e - (p + 3)) /\ DataAt(out, p + 3, r)
  BY <1>1 DEF RecordFrom
<1>3. a + LabelLen(B, a) = p
  BY <1>2, NameLength
<1>4. UncompressName(B, a) = r.name
  <2>1. Follows(out, a, r.name)
    BY <1>2 DEF NameAt
  <2>2. QED
    BY <2>1, NameIsRead
<1>5. At(B, p)[2] = r.type /\ At(B, p + 1)[2] = ttl /\ At(B, p + 2)[2] = e - (p + 3)
  BY <1>2, Cells
<1>6. ParseData(B, r.type, p + 3) = IF r.type \in {"SRV", "NSEC"} THEN "skipped" ELSE r.data
  <2>1. CASE r.type = "PTR"
    <3>1. Follows(out, p + 3, r.data) /\ p + 3 \in Nat
      BY <1>2, <2>1 DEF DataAt
    <3>2. UncompressName(B, p + 3) = r.data
      BY <3>1, NameIsRead
    <3>3. QED
      BY <2>1, <3>2 DEF ParseData
  <2>2. CASE r.type \in {"A", "AAAA", "TXT"}
    BY <1>2, <2>2 DEF DataAt, ParseData
  <2>3. CASE r.type \in {"SRV", "NSEC"}
    BY <2>3 DEF ParseData
  <2>4. QED
    BY <2>1, <2>2, <2>3 DEF WellFormed
<1>7. p + 3 + (e - (p + 3)) = e
  OBVIOUS
<1> DEFINE rr == [name |-> UncompressName(B, a), type |-> At(B, p)[2],
                  ttl |-> At(B, p + 1)[2], data |-> ParseData(B, At(B, p)[2], p + 3)]
<1>8. ParseRR(B, parsed) = [rrs |-> Append(parsed.rrs, rr), off |-> p + 3 + At(B, p + 2)[2]]
  BY <1>3 DEF ParseRR
<1>9. rr = Shown(r, ttl)
  BY <1>4, <1>5, <1>6 DEF Shown
<1> HIDE DEF rr
<1>10. QED
  BY <1>5, <1>7, <1>8, <1>9

\* The functions by which a packet is written and read.
LEMMA PacketFunction ==
  ASSUME NEW rep, NEW ttl, IsList(rep.ans \o rep.add)
  PROVE  \E f : /\ f[0] = [buf |-> <<Field(rep.numAns), Field(rep.numAdd)>>, comp |-> <<>>]
                /\ \A i \in 1..Len(rep.ans \o rep.add) :
                     f[i] = EncodeRR(f[i - 1], (rep.ans \o rep.add)[i],
                                     ttl[(rep.ans \o rep.add)[i]])
                /\ EncodePkt(rep, ttl) = f[Len(rep.ans \o rep.add)].buf
<1> DEFINE rrs == rep.ans \o rep.add
           N == Len(rrs)
           base == [buf |-> <<Field(rep.numAns), Field(rep.numAdd)>>, comp |-> <<>>]
           More(i, q) == EncodeRR(q, rrs[i], ttl[rrs[i]])
           Body(f, n) == [i \in 0..n |-> IF i = 0 THEN base ELSE More(i, f[i - 1])]
           Fine == {n \in Nat : \E f : f = Body(f, n)}
<1>1. N \in Nat
  BY ListFacts
<1> HIDE DEF More, base
<1>2. 0 \in Fine
  <2> DEFINE f == [i \in 0..0 |-> base]
  <2>1. f = Body(f, 0)
    OBVIOUS
  <2>2. QED
    BY <2>1
<1>3. ASSUME NEW n \in Nat, n \in Fine PROVE n + 1 \in Fine
  <2>1. PICK g : g = Body(g, n)
    BY <1>3
  <2> DEFINE f == [i \in 0..(n + 1) |-> IF i = n + 1 THEN More(n + 1, g[n]) ELSE g[i]]
  <2>2. ASSUME NEW i \in 0..(n + 1)
        PROVE  f[i] = IF i = 0 THEN base ELSE More(i, f[i - 1])
    <3>1. CASE i = 0
      <4>1. f[i] = g[0] /\ 0 \in 0..n
        BY <3>1
      <4>2. g[0] = base
        BY <2>1, <4>1
      <4>3. QED
        BY <3>1, <4>1, <4>2
    <3>2. CASE i = n + 1
      <4>1. f[i] = More(i, g[n]) /\ f[i - 1] = g[n] /\ i # 0
        BY <3>2
      <4>2. QED
        BY <4>1
    <3>3. CASE i \in 1..n
      <4>1. f[i] = g[i] /\ f[i - 1] = g[i - 1] /\ i # 0 /\ i \in 0..n
        BY <3>3
      <4>2. g[i] = More(i, g[i - 1])
        BY <2>1, <4>1
      <4>3. QED
        BY <4>1, <4>2
    <3>4. QED
      BY <3>1, <3>2, <3>3
  <2>3. f = Body(f, n + 1)
    BY <2>2
  <2> HIDE DEF f
  <2>4. \E h : h = Body(h, n + 1)
    BY <2>3
  <2>5. n + 1 \in Nat
    OBVIOUS
  <2>6. QED
    BY <2>4, <2>5
<1>4. N \in Fine
  <2>1. \A m \in Nat : m < N /\ m \in Fine => m + 1 \in Fine
    BY <1>3
  <2> HIDE DEF Fine, N
  <2>2. \A m \in 0..N : m \in Fine
    BY <1>1, <1>2, <2>1, InductionUpTo
  <2>3. QED
    BY <1>1, <2>2
<1>5. \E f : f = Body(f, N)
  BY <1>4
<1> DEFINE k == CHOOSE f : f = Body(f, N)
<1>6. k = Body(k, N)
  BY <1>5
<1>7. EncodePkt(rep, ttl) = k[N].buf
  BY DEF EncodePkt, More, base
<1> HIDE DEF k
<1>8. 0 \in 0..N /\ \A i \in 1..N : i \in 0..N /\ i # 0
  <2> HIDE DEF N
  <2>1. QED
    BY <1>1
<1>9. k[0] = base /\ \A i \in 1..N : k[i] = More(i, k[i - 1])
  BY <1>6, <1>8
<1>10. QED
  BY <1>7, <1>9 DEF More, base

LEMMA ParseFunction ==
  ASSUME NEW buf, NEW n \in Nat
  PROVE  \E f : /\ f[0] = [rrs |-> <<>>, off |-> 2]
                /\ \A i \in 1..n : f[i] = ParseRR(buf, f[i - 1])
                /\ ParseRecords(buf, n) = f[n].rrs
<1> DEFINE base == [rrs |-> <<>>, off |-> 2]
           More(q) == ParseRR(buf, q)
           Body(f, m) == [i \in 0..m |-> IF i = 0 THEN base ELSE More(f[i - 1])]
           Fine == {m \in Nat : \E f : f = Body(f, m)}
<1> HIDE DEF More, base
<1>2. 0 \in Fine
  <2> DEFINE f == [i \in 0..0 |-> base]
  <2>1. f = Body(f, 0)
    OBVIOUS
  <2>2. QED
    BY <2>1
<1>3. ASSUME NEW m \in Nat, m \in Fine PROVE m + 1 \in Fine
  <2>1. PICK g : g = Body(g, m)
    BY <1>3
  <2> DEFINE f == [i \in 0..(m + 1) |-> IF i = m + 1 THEN More(g[m]) ELSE g[i]]
  <2>2. ASSUME NEW i \in 0..(m + 1)
        PROVE  f[i] = IF i = 0 THEN base ELSE More(f[i - 1])
    <3>1. CASE i = 0
      <4>1. f[i] = g[0] /\ 0 \in 0..m
        BY <3>1
      <4>2. g[0] = base
        BY <2>1, <4>1
      <4>3. QED
        BY <3>1, <4>1, <4>2
    <3>2. CASE i = m + 1
      <4>1. f[i] = More(g[m]) /\ f[i - 1] = g[m] /\ i # 0
        BY <3>2
      <4>2. QED
        BY <4>1
    <3>3. CASE i \in 1..m
      <4>1. f[i] = g[i] /\ f[i - 1] = g[i - 1] /\ i # 0 /\ i \in 0..m
        BY <3>3
      <4>2. g[i] = More(g[i - 1])
        BY <2>1, <4>1
      <4>3. QED
        BY <4>1, <4>2
    <3>4. QED
      BY <3>1, <3>2, <3>3
  <2>3. f = Body(f, m + 1)
    BY <2>2
  <2> HIDE DEF f
  <2>4. \E h : h = Body(h, m + 1)
    BY <2>3
  <2>5. m + 1 \in Nat
    OBVIOUS
  <2>6. QED
    BY <2>4, <2>5
<1>4. n \in Fine
  <2>1. \A m \in Nat : m < n /\ m \in Fine => m + 1 \in Fine
    BY <1>3
  <2> HIDE DEF Fine
  <2>2. \A m \in 0..n : m \in Fine
    BY <1>2, <2>1, InductionUpTo
  <2>3. QED
    BY <2>2
<1>5. \E f : f = Body(f, n)
  BY <1>4
<1> DEFINE k == CHOOSE f : f = Body(f, n)
<1>6. k = Body(k, n)
  BY <1>5
<1>7. ParseRecords(buf, n) = k[n].rrs
  BY DEF ParseRecords, More, base
<1> HIDE DEF k
<1>8. 0 \in 0..n /\ \A i \in 1..n : i \in 0..n /\ i # 0
  OBVIOUS
<1>9. k[0] = base /\ \A i \in 1..n : k[i] = More(k[i - 1])
  BY <1>6, <1>8
<1>10. QED
  BY <1>7, <1>9 DEF More, base

\* f is the packet while its records are written, behind a header of two
\* counts.
Packet(f, rrs, ttl, a, b) ==
  /\ IsList(rrs) /\ \A r \in ToSet(rrs) : WellFormed(r)
  /\ f[0] = [buf |-> <<Field(a), Field(b)>>, comp |-> <<>>]
  /\ \A i \in 1..Len(rrs) : f[i] = EncodeRR(f[i - 1], rrs[i], ttl[rrs[i]])

Growing(f, rrs, ttl, a, b) ==
  /\ \A i \in 0..Len(rrs) : /\ Faithful(f[i]) /\ Len(f[i].buf) \in Nat
                            /\ \A j \in 0..i : Grows(f[j], f[i])
  /\ \A i \in 1..Len(rrs) : Len(f[i].buf) <= PointerLimit =>
       Written(f[i], Len(f[i - 1].buf), rrs[i], ttl[rrs[i]], Len(f[i].buf))
  /\ Len(f[0].buf) = 2 /\ At(f[0].buf, 0) = Field(a) /\ At(f[0].buf, 1) = Field(b)

\* Each step is faithful, and what was written before stays where it is.
LEMMA PacketGrows ==
  ASSUME NEW rrs, NEW ttl, NEW a, NEW b, NEW f, Packet(f, rrs, ttl, a, b)
  PROVE  Growing(f, rrs, ttl, a, b)
<1> DEFINE N == Len(rrs)
           Fine == {i \in Nat : Faithful(f[i])
                              /\ \A j \in 0..i : IsList(f[j].buf) /\ Grows(f[j], f[i])}
<1>1. N \in Nat /\ DOMAIN rrs = 1..N
  BY ListFacts DEF Packet
<1>2. \A i \in 1..N : WellFormed(rrs[i])
  BY <1>1 DEF ToSet, Packet
<1>3. /\ Faithful(f[0]) /\ Len(f[0].buf) = 2
      /\ At(f[0].buf, 0) = Field(a) /\ At(f[0].buf, 1) = Field(b)
  <2> DEFINE h == <<Field(a), Field(b)>>
  <2>1. IsList(h) /\ Len(h) = 2 /\ h[1] = Field(a) /\ h[2] = Field(b)
    <3>1. h \in Seq({Field(a), Field(b)})
      OBVIOUS
    <3>2. QED
      BY <3>1, ListOf
  <2>2. f[0] = [buf |-> h, comp |-> <<>>]
    BY DEF Packet
  <2> HIDE DEF h
  <2>3. f[0].buf = h /\ f[0].comp = <<>> /\ f[0] = [buf |-> f[0].buf, comp |-> f[0].comp]
    BY <2>2
  <2>4. At(h, 0) = Field(a) /\ At(h, 1) = Field(b)
    BY <2>1 DEF At
  <2>5. Backward(h)
    <3>1. ASSUME NEW p \in 0..(Len(h) - 1) PROVE At(h, p)[1] = "field"
      <4>1. p \in {0, 1}
        BY <2>1
      <4>2. QED
        BY <2>4, <4>1, Cells
    <3>2. QED
      BY <3>1 DEF Backward
  <2>6. ToSet(<<>>) = {}
    BY DEF ToSet
  <2>7. QED
    BY <2>1, <2>3, <2>4, <2>5, <2>6, EmptyList DEF Faithful, Sound
<1>4. \A o : Faithful(o) => IsList(o.buf) /\ Len(o.buf) \in Nat /\ Grows(o, o)
  <2>1. SUFFICES ASSUME NEW o, Faithful(o) PROVE IsList(o.buf) /\ Len(o.buf) \in Nat /\ Grows(o, o)
    OBVIOUS
  <2>2. IsList(o.buf) /\ Len(o.buf) \in Nat
    BY <2>1, ListFacts DEF Faithful
  <2>3. QED
    BY <2>2 DEF Grows, Extends
<1>5. 0 \in Fine
  <2>1. 0..0 = {0}
    OBVIOUS
  <2>2. QED
    BY <1>3, <1>4, <2>1
<1>6. ASSUME NEW i \in 1..N, Faithful(f[i - 1])
      PROVE  /\ Faithful(f[i]) /\ Grows(f[i - 1], f[i])
             /\ Len(f[i].buf) <= PointerLimit =>
                  Written(f[i], Len(f[i - 1].buf), rrs[i], ttl[rrs[i]], Len(f[i].buf))
  <2>1. f[i] = EncodeRR(f[i - 1], rrs[i], ttl[rrs[i]]) /\ WellFormed(rrs[i])
    BY <1>2 DEF Packet
  <2>2. QED
    BY <1>6, <2>1, EncodesRR
<1>7. ASSUME NEW i \in Nat, i < N, i \in Fine PROVE i + 1 \in Fine
  <2>1. i + 1 \in 1..N /\ (i + 1) - 1 = i /\ i + 1 \in Nat
    BY <1>1, <1>7
  <2>2. Faithful(f[i]) /\ \A j \in 0..i : IsList(f[j].buf) /\ Grows(f[j], f[i])
    BY <1>7
  <2>3. Faithful(f[i + 1]) /\ Grows(f[i], f[i + 1])
    BY <1>6, <2>1, <2>2
  <2>4. ASSUME NEW j \in 0..(i + 1) PROVE IsList(f[j].buf) /\ Grows(f[j], f[i + 1])
    <3>1. CASE j = i + 1
      BY <1>4, <2>3, <3>1
    <3>2. CASE j # i + 1
      <4>1. j \in 0..i /\ i \in 0..i
        BY <3>2
      <4>2. Grows(f[j], f[i]) /\ IsList(f[j].buf) /\ IsList(f[i].buf) /\ IsList(f[i + 1].buf)
        BY <1>4, <2>2, <2>3, <4>1
      <4>3. QED
        BY <2>3, <4>2, GrowsOn
    <3>3. QED
      BY <3>1, <3>2
  <2>5. QED
    BY <2>1, <2>3, <2>4
<1>8. \A i \in 0..N : i \in Fine
  <2> HIDE DEF Fine
  <2>1. QED
    BY <1>1, <1>5, <1>7, InductionUpTo
<1>9. \A i \in 0..N : /\ Faithful(f[i]) /\ Len(f[i].buf) \in Nat
                      /\ \A j \in 0..i : Grows(f[j], f[i])
  BY <1>4, <1>8
<1>10. ASSUME NEW i \in 1..N, Len(f[i].buf) <= PointerLimit
       PROVE  Written(f[i], Len(f[i - 1].buf), rrs[i], ttl[rrs[i]], Len(f[i].buf))
  <2>1. i - 1 \in 0..N
    BY <1>1
  <2>2. Faithful(f[i - 1])
    BY <1>9, <2>1
  <2>3. QED
    BY <1>6, <1>10, <2>2
<1>11. QED
  BY <1>3, <1>9, <1>10 DEF Growing

\* Every record is found where it was written.
Packed(f, rrs, ttl, a, b, out) ==
  /\ IsList(out.buf) /\ Sound(out)
  /\ \A i \in 0..Len(rrs) : Len(f[i].buf) \in Nat
  /\ \A i \in 1..Len(rrs) : Written(out, Len(f[i - 1].buf), rrs[i], ttl[rrs[i]], Len(f[i].buf))
  /\ Len(f[0].buf) = 2 /\ At(out.buf, 0) = Field(a) /\ At(out.buf, 1) = Field(b)

LEMMA AllWritten ==
  ASSUME NEW rrs, NEW ttl, NEW a, NEW b, NEW f, Packet(f, rrs, ttl, a, b),
         NEW out, out = f[Len(rrs)], Len(out.buf) <= PointerLimit
  PROVE  Packed(f, rrs, ttl, a, b, out)
<1> DEFINE N == Len(rrs)
<1>1. N \in Nat /\ PointerLimit \in Nat
  BY ListFacts, PointerLimitAssumption DEF Packet
<1>2. /\ \A i \in 0..N : /\ Faithful(f[i]) /\ Len(f[i].buf) \in Nat
                         /\ \A j \in 0..i : Grows(f[j], f[i])
      /\ \A i \in 1..N : Len(f[i].buf) <= PointerLimit =>
           Written(f[i], Len(f[i - 1].buf), rrs[i], ttl[rrs[i]], Len(f[i].buf))
      /\ Len(f[0].buf) = 2 /\ At(f[0].buf, 0) = Field(a) /\ At(f[0].buf, 1) = Field(b)
  BY PacketGrows DEF Growing
<1> HIDE DEF N
<1>3. N \in 0..N /\ out = f[N] /\ Faithful(out)
  BY <1>1, <1>2 DEF N
<1>4. \A i \in 0..N : Grows(f[i], out)
  BY <1>1, <1>2, <1>3
<1>5. IsList(out.buf) /\ Sound(out) /\ Len(out.buf) \in Nat
  BY <1>3, ListFacts DEF Faithful
<1>6. ASSUME NEW i \in 1..N
      PROVE  Written(out, Len(f[i - 1].buf), rrs[i], ttl[rrs[i]], Len(f[i].buf))
  <2>1. i \in 0..N /\ i - 1 \in 0..N
    BY <1>1
  <2>2. /\ Grows(f[i], out) /\ IsList(f[i].buf)
        /\ Len(f[i].buf) \in Nat /\ Len(f[i - 1].buf) \in Nat
    BY <1>2, <1>4, <2>1 DEF Faithful
  <2>3. Len(f[i].buf) <= PointerLimit
    <3>1. Len(f[i].buf) <= Len(out.buf)
      BY <2>2 DEF Grows, Extends
    <3>2. QED
      BY <1>1, <1>5, <2>2, <3>1
  <2>4. Written(f[i], Len(f[i - 1].buf), rrs[i], ttl[rrs[i]], Len(f[i].buf))
    BY <1>2, <2>3
  <2>5. QED
    BY <1>5, <2>2, <2>4, KeptWritten
<1>7. At(out.buf, 0) = Field(a) /\ At(out.buf, 1) = Field(b)
  <2>1. 0 \in 0..N
    BY <1>1
  <2>2. Extends(f[0].buf, out.buf)
    BY <1>4, <2>1 DEF Grows
  <2>3. 0 \in 0..(2 - 1) /\ 1 \in 0..(2 - 1)
    OBVIOUS
  <2>4. QED
    BY <1>2, <2>2, <2>3 DEF Extends
<1>8. QED
  BY <1>2, <1>5, <1>6, <1>7 DEF N, Packed

\* A reply of records as the library makes them.
Packable(rep) ==
  IsList(rep.ans \o rep.add) /\ \A r \in ToSet(rep.ans \o rep.add) : WellFormed(r)

\* The header and the first n records, as the parser finds them.
ReadBack(rep, ttl, buf, n) ==
  LET rrs == rep.ans \o rep.add
  IN /\ At(buf, 0)[2] = rep.numAns /\ At(buf, 1)[2] = rep.numAdd
     /\ ParseRecords(buf, n) = [i \in 1..n |-> Shown(rrs[i], ttl[rrs[i]])]

\* And it is read again from there.
LEMMA PacketIsRead ==
  ASSUME NEW rep, NEW ttl, Packable(rep), NEW buf, buf = EncodePkt(rep, ttl),
         Len(buf) <= PointerLimit, NEW n, n \in 0..Len(rep.ans \o rep.add)
  PROVE  ReadBack(rep, ttl, buf, n)
<1> DEFINE rrs == rep.ans \o rep.add
           N == Len(rrs)
           x(i) == Shown(rrs[i], ttl[rrs[i]])
           xs(m) == [i \in 1..m |-> x(i)]
<1>1. N \in Nat /\ n \in Nat /\ n <= N
  <2>1. N \in Nat
    BY ListFacts DEF Packable
  <2> HIDE DEF N
  <2>2. n \in 0..N
    BY DEF N
  <2>3. QED
    BY <2>1, <2>2
<1>2. PICK f : /\ f[0] = [buf |-> <<Field(rep.numAns), Field(rep.numAdd)>>, comp |-> <<>>]
               /\ \A i \in 1..N : f[i] = EncodeRR(f[i - 1], rrs[i], ttl[rrs[i]])
               /\ EncodePkt(rep, ttl) = f[N].buf
  <2>1. IsList(rep.ans \o rep.add)
    BY DEF Packable
  <2>2. QED
    BY <2>1, PacketFunction
<1> DEFINE out == f[N]
<1>3. out.buf = buf /\ Len(out.buf) <= PointerLimit
  <2> HIDE DEF rrs, N
  <2>1. QED
    BY <1>2
<1>4. IsList(rrs) /\ \A r \in ToSet(rrs) : WellFormed(r)
  BY DEF Packable
<1> HIDE DEF rrs, N
<1>5. Packet(f, rrs, ttl, rep.numAns, rep.numAdd)
  <2>1. f[0] = [buf |-> <<Field(rep.numAns), Field(rep.numAdd)>>, comp |-> <<>>]
    BY <1>2
  <2>2. \A i \in 1..Len(rrs) : f[i] = EncodeRR(f[i - 1], rrs[i], ttl[rrs[i]])
    BY <1>2 DEF N
  <2>3. QED
    BY <1>4, <2>1, <2>2 DEF Packet
<1>6. Packed(f, rrs, ttl, rep.numAns, rep.numAdd, out)
  BY <1>3, <1>4, <1>5, AllWritten DEF N
<1>7. /\ IsList(out.buf) /\ Sound(out)
      /\ \A i \in 0..N : Len(f[i].buf) \in Nat
      /\ \A i \in 1..N : Written(out, Len(f[i - 1].buf), rrs[i], ttl[rrs[i]], Len(f[i].buf))
      /\ Len(f[0].buf) = 2
      /\ At(out.buf, 0) = Field(rep.numAns) /\ At(out.buf, 1) = Field(rep.numAdd)
  BY <1>6 DEF N, Packed
<1> HIDE DEF out
<1>8. At(buf, 0)[2] = rep.numAns /\ At(buf, 1)[2] = rep.numAdd
  BY <1>3, <1>7, Cells
<1>9. PICK g : /\ g[0] = [rrs |-> <<>>, off |-> 2]
               /\ \A i \in 1..n : g[i] = ParseRR(buf, g[i - 1])
               /\ ParseRecords(buf, n) = g[n].rrs
  BY <1>1, ParseFunction
<1> DEFINE Fine == {i \in Nat : g[i] = [rrs |-> xs(i), off |-> Len(f[i].buf)]}
<1> HIDE DEF x
<1>10. 0 \in Fine
  <2>1. xs(0) = <<>>
    OBVIOUS
  <2> HIDE DEF xs
  <2>2. QED
    BY <1>7, <1>9, <2>1
<1>11. ASSUME NEW i \in Nat, i < n, i \in Fine PROVE i + 1 \in Fine
  <2>1. /\ i + 1 \in 1..N /\ i + 1 \in 1..n /\ (i + 1) - 1 = i /\ i \in 0..N /\ i + 1 \in 0..N
        /\ i + 1 \in Nat
    BY <1>1, <1>11
  <2>2. Written(out, Len(f[i].buf), rrs[i + 1], ttl[rrs[i + 1]], Len(f[i + 1].buf))
    BY <1>7, <2>1
  <2>3. Len(f[i].buf) \in Nat /\ Len(f[i + 1].buf) \in Nat
    BY <1>7, <2>1
  <2>4. WellFormed(rrs[i + 1])
    <3>1. DOMAIN rrs = 1..N
      BY <1>4, ListFacts DEF N
    <3>2. QED
      BY <1>4, <2>1, <3>1 DEF ToSet
  <2> HIDE DEF xs
  <2>5. g[i].rrs = xs(i) /\ g[i].off = Len(f[i].buf)
    BY <1>11
  <2>6. ParseRR(out.buf, g[i])
          = [rrs |-> Append(g[i].rrs, Shown(rrs[i + 1], ttl[rrs[i + 1]])), off |-> Len(f[i + 1].buf)]
    <3> DEFINE r == rrs[i + 1]  t == ttl[r]  p == g[i]  s == Len(f[i].buf)  e == Len(f[i + 1].buf)
    <3>1. /\ IsList(out.buf) /\ Sound(out) /\ WellFormed(r) /\ s \in Nat /\ e \in Nat
          /\ Written(out, s, r, t, e) /\ p.off = s
      BY <1>7, <2>2, <2>3, <2>4, <2>5
    <3> HIDE DEF r, t, p, s, e
    <3>2. ParseRR(out.buf, p) = [rrs |-> Append(p.rrs, Shown(r, t)), off |-> e]
      BY <3>1, ParsesRR
    <3>3. QED
      BY <3>2 DEF r, t, p, e
  <2>7. g[i + 1] = ParseRR(buf, g[i])
    BY <1>9, <2>1
  <2>8. g[i + 1] = [rrs |-> Append(xs(i), x(i + 1)), off |-> Len(f[i + 1].buf)]
    BY <1>3, <2>5, <2>6, <2>7 DEF x
  <2>9. Append(xs(i), x(i + 1)) = xs(i + 1)
    <3> DEFINE T == {x(j) : j \in 1..(i + 1)}
    <3>1. \A j \in 1..(i + 1) : x(j) \in T
      OBVIOUS
    <3>2. xs(i) \in Seq(T) /\ Len(xs(i)) = i
      <4>1. xs(i) \in [1..i -> T]
        BY DEF xs
      <4> HIDE DEF T
      <4>2. QED
        BY <4>1
    <3>3. xs(i + 1) \in Seq(T) /\ Len(xs(i + 1)) = i + 1
      <4>1. xs(i + 1) \in [1..(i + 1) -> T]
        BY DEF xs
      <4> HIDE DEF T
      <4>2. QED
        BY <2>1, <4>1
    <3>4. \A j \in 1..i : xs(i)[j] = x(j)
      BY DEF xs
    <3>5. \A j \in 1..(i + 1) : xs(i + 1)[j] = x(j)
      BY DEF xs
    <3>6. x(i + 1) \in T
      OBVIOUS
    <3> DEFINE l == Append(xs(i), x(i + 1))
    <3> HIDE DEF T
    <3>7. /\ l \in Seq(T) /\ Len(l) = i + 1 /\ l[i + 1] = x(i + 1)
          /\ \A j \in 1..i : l[j] = xs(i)[j]
      BY <3>2, <3>6, AppendProperties
    <3> HIDE DEF l
    <3>8. \A j \in 1..(i + 1) : l[j] = xs(i + 1)[j]
      <4>1. SUFFICES ASSUME NEW j \in 1..(i + 1) PROVE l[j] = xs(i + 1)[j]
        OBVIOUS
      <4>2. CASE j = i + 1
        BY <3>5, <3>7, <4>2
      <4>3. CASE j # i + 1
        <5>1. j \in 1..i
          BY <4>3
        <5>2. QED
          BY <3>4, <3>5, <3>7, <5>1
      <4>4. QED
        BY <4>2, <4>3
    <3>9. l = xs(i + 1)
      BY <3>3, <3>7, <3>8, SeqEqual
    <3>10. QED
      BY <3>9 DEF l
  <2>10. QED
    BY <2>1, <2>8, <2>9
<1>12. n \in Fine
  <2>1. n \in 0..n
    BY <1>1
  <2> HIDE DEF Fine
  <2>2. QED
    BY <1>1, <1>10, <1>11, <2>1, InductionUpTo
<1>13. ParseRecords(buf, n) = xs(n)
  <2> HIDE DEF xs
  <2>1. QED
    BY <1>9, <1>12
<1>14. QED
  BY <1>8, <1>13 DEF ReadBack, x, rrs

----------------------------------------------------------------------------
(* The records of the responder, and the packets it sends. *)

\* A host was named by one of the calls made so far.
HostNamed == \E j \in DOMAIN program : j < next /\ program[j].op = "host"

\* The group holds records as the library makes them, and replies are made of
\* them.
WireInv ==
  /\ \A r \in Records : WellFormed(r)
  /\ HostNamed => IsList(hostname)
  /\ step # "call" => program[next].op # "host"
  /\ sent # None => sent \in Reply(Records)

LEMMA HostRecords ==
  ASSUME NEW h, IsList(h), NEW addr
  PROVE  WellFormed(AddressRecord(h, addr)) /\ WellFormed(NsecRecord(h))
BY DEF WellFormed, AddressRecord, NsecRecord, Record

LEMMA ServiceRecords ==
  ASSUME NEW s, IsList(s.type), NEW target, IsList(target)
  PROVE  /\ WellFormed(PtrRecord(s)) /\ WellFormed(BrowseRecord(s))
         /\ WellFormed(SrvRecord(s, target)) /\ WellFormed(TxtRecord(s))
<1>1. IsList(InstanceName(s))
  BY SingleList, JoinLists DEF InstanceName
<1>2. IsList(ServicesName)
  <2>1. ServicesName \in Seq({"_services", "_dns-sd", "_udp", "local"})
    BY DEF ServicesName
  <2>2. QED
    BY <2>1, ListOf
<1>3. QED
  BY <1>1, <1>2 DEF WellFormed, PtrRecord, BrowseRecord, SrvRecord, TxtRecord, Record

\* What a call of the program passes to the library.
LEMMA ProgramCalls ==
  ASSUME Calls
  PROVE  /\ program \in Programs /\ next \in Nat /\ DOMAIN program \subseteq Nat
         /\ step # "call" => next \in DOMAIN program
         /\ \A op : Calling(op) => next \in DOMAIN program /\ program[next].op = op
<1>1. program \in Seq(ToSet(program)) /\ next \in 1..(Len(program) + 1) /\ program \in Programs
      /\ (step # "call" => next <= Len(program))
  BY ProgramsAssumption DEF Calls
<1>2. Len(program) \in Nat /\ DOMAIN program = 1..Len(program)
  BY <1>1
<1>3. QED
  BY <1>1, <1>2 DEF Calling

\* A call that names no host leaves the one that was set.
LEMMA HostStays ==
  ASSUME Calls, WireInv, UNCHANGED <<program, hostname>>,
         next' = next \/ (next' = next + 1 /\ program[next].op # "host")
  PROVE  HostNamed' => IsList(hostname')
<1>1. next \in Nat /\ DOMAIN program \subseteq Nat
  BY ProgramCalls
<1>2. ASSUME NEW j \in DOMAIN program, j < next', program[j].op = "host"
      PROVE  j < next
  BY <1>1, <1>2
<1>3. HostNamed' => HostNamed
  BY <1>2 DEF HostNamed
<1>4. QED
  BY <1>3 DEF WireInv

\* Every call adds well-formed records only (rr_create and its relatives), the
\* host name it may put into them included.
LEMMA StepRecords ==
  ASSUME Lists, Calls, WireInv, [Next]_vars
  PROVE  /\ Records \subseteq Records' /\ \A r \in Records' : WellFormed(r)
         /\ HostNamed' => IsList(hostname')
         /\ step' # "call" => program'[next'].op # "host"
<1> DEFINE Goal == /\ Records \subseteq Records' /\ \A r \in Records' : WellFormed(r)
                   /\ HostNamed' => IsList(hostname')
                   /\ step' # "call" => program'[next'].op # "host"
<1>1. CASE SetHostname
  <2>1. Calling("host") /\ hostname' = program[next].host /\ step' = "call"
    BY <1>1 DEF SetHostname, Returned
  <2>2. IsList(program[next].host)
    BY <2>1, ProgramCalls, RecordsAssumption
  <2>3. Records \subseteq Records' /\ Records' \ Records \subseteq Made(program, next)
    BY <1>1, AddedRecords
  <2>4. Made(program, next) =
          {AddressRecord(program[next].host, program[next].addr), NsecRecord(program[next].host)}
    BY <2>1, ProgramCalls DEF Made
  <2>5. \A r \in Made(program, next) : WellFormed(r)
    BY <2>2, <2>4, HostRecords
  <2>6. QED
    BY <2>1, <2>2, <2>3, <2>5 DEF WireInv
<1>2. CASE AddRR
  <2>1. /\ Calling("rr") /\ UNCHANGED <<program, hostname>> /\ next' = next + 1
        /\ step' = "call"
    BY <1>2 DEF AddRR, Returned
  <2>2. program[next].op = "rr" /\ WellFormed(program[next].rr)
    BY <2>1, ProgramCalls, RecordsAssumption
  <2>3. Records \subseteq Records' /\ Records' \ Records \subseteq Made(program, next)
    BY <1>2, AddedRecords
  <2>4. Made(program, next) = {program[next].rr}
    BY <2>2 DEF Made
  <2>5. HostNamed' => IsList(hostname')
    BY <2>1, <2>2, HostStays
  <2>6. QED
    BY <2>1, <2>2, <2>3, <2>4, <2>5 DEF WireInv
<1>3. CASE RegisterSvc
  <2> DEFINE s == program[next].service
             target == IF s.host = None THEN hostname ELSE s.host
             own == {PtrRecord(s), BrowseRecord(s), SrvRecord(s, target)}
                      \cup (IF s.txt = None THEN {} ELSE {TxtRecord(s)})
  <2>1. Calling("register") /\ UNCHANGED <<program, next, hostname>>
    BY <1>3 DEF RegisterSvc
  <2>2. /\ IsList(s.type) /\ program[next].op = "register"
        /\ IF s.host = None THEN \E j \in DOMAIN program : j < next /\ program[j].op = "host"
                            ELSE IsList(s.host)
    BY <2>1, ProgramCalls, RecordsAssumption
  <2>3. IsList(target)
    BY <2>2 DEF WireInv, HostNamed
  <2>4. Records \subseteq Records' /\ Records' \ Records \subseteq own
    BY <1>3, Registered
  <2>5. HostNamed' => IsList(hostname')
    BY <2>1, HostStays
  <2> HIDE DEF target, s
  <2>6. \A r \in own : WellFormed(r)
    BY <2>2, <2>3, ServiceRecords
  <2> HIDE DEF own
  <2>7. QED
    BY <2>1, <2>2, <2>4, <2>5, <2>6 DEF WireInv
<1>4. ASSUME UNCHANGED <<program, hostname, group>>,
             next' = next \/ (next' = next + 1 /\ program[next].op # "host"),
             step' # "call" => program'[next'].op # "host"
      PROVE  Goal
  BY <1>4, HostStays DEF WireInv, Records
<1>5. CASE NotifyServer \/ FreeServer
  BY <1>4, <1>5 DEF NotifyServer, FreeServer, Returned, shared, WireInv
<1>6. CASE StopServer
  <2>1. program[next].op = "stop" /\ UNCHANGED <<program, next, hostname, group>>
    BY <1>6 DEF StopServer, Calling, shared
  <2>2. QED
    BY <1>4, <2>1
<1>7. CASE WakeServer
  BY <1>4, <1>7 DEF WakeServer, shared, WireInv
<1>8. CASE ThreadNext
  <2>1. UNCHANGED <<program, next, step, hostname, group>>
    BY <1>8 DEF ThreadNext, CheckStop, Woken, Receive, ReceiveError, Question,
         SuppressKnown, AddRelated, Send, TakeAnnouncement, AnnounceType,
         AnnounceBrowse, Goodbye, Farewell, ThreadOnly, programVars, shared
  <2>2. QED
    BY <1>4, <2>1 DEF WireInv
<1>9. ASSUME NEW q \in Queries, Arrive(q) PROVE Goal
  BY <1>4, <1>9 DEF Arrive, programVars, shared, WireInv
<1>10. CASE UNCHANGED vars
  BY <1>4, <1>10 DEF vars, programVars, shared, WireInv
<1>11. QED
  BY <1>1, <1>2, <1>3, <1>5, <1>6, <1>7, <1>8, <1>9, <1>10 DEF Next, ProgramNext

\* What is sent was a reply, made of records of the group.
LEMMA StepPacket ==
  ASSUME Lists, WireInv, Records \subseteq Records', [Next]_vars, sent' # None
  PROVE  sent' \in Reply(Records')
<1>1. sent' = sent \/ sent' = reply \/ sent' = None
  <2>1. CASE ThreadNext
    BY <2>1 DEF ThreadNext, CheckStop, Woken, Receive, ReceiveError, Question,
         SuppressKnown, AddRelated, Send, TakeAnnouncement, AnnounceType, AnnounceBrowse,
         Goodbye, Farewell, Transmit
  <2>2. CASE ProgramNext
    BY <2>2 DEF ProgramNext, SetHostname, AddRR, RegisterSvc, NotifyServer, StopServer,
         WakeServer, FreeServer
  <2>3. ASSUME NEW q \in Queries, Arrive(q) PROVE sent' = sent
    BY <2>3 DEF Arrive
  <2>4. CASE UNCHANGED vars
    BY <2>4 DEF vars
  <2>5. QED
    BY <2>1, <2>2, <2>3, <2>4 DEF Next
<1>2. sent' \in Reply(Records)
  BY <1>1 DEF Lists, WireInv
<1>3. QED
  BY <1>2, ReplyGrows

LEMMA StepWire ==
  ASSUME DirectoryInv, WireInv, [Next]_vars
  PROVE  WireInv'
<1>1. /\ Records \subseteq Records' /\ \A r \in Records' : WellFormed(r)
      /\ HostNamed' => IsList(hostname')
      /\ step' # "call" => program'[next'].op # "host"
  BY StepRecords DEF DirectoryInv
<1>2. sent' # None => sent' \in Reply(Records')
  BY <1>1, StepPacket DEF DirectoryInv
<1>3. QED
  BY <1>1, <1>2 DEF WireInv

\* The packet is not longer than the 14 bits of a compression pointer reach
\* (mdns_encode_pkt masks the position with 0xC000 and keeps 0x3FFF of it).
PacketFits ==
  sent # None =>
    Len(EncodePkt(sent, [r \in ToSet(sent.ans \o sent.add) |-> Ttl(r)])) <= PointerLimit

LEMMA PacketIsFaithful ==
  ASSUME WireInv, PacketFits
  PROVE  WireIsFaithful
<1>1. SUFFICES ASSUME sent # None PROVE WireIsFaithful
  BY DEF WireIsFaithful
<1>2. PICK R : R = Records
  OBVIOUS
<1>3. sent \in Reply(R) /\ \A r \in R : WellFormed(r)
  BY <1>1, <1>2 DEF WireInv
<1>4. PICK s : s = sent
  OBVIOUS
<1> DEFINE rrs == s.ans \o s.add
           ttl == [r \in ToSet(rrs) |-> Ttl(r)]
           buf == EncodePkt(s, ttl)
           x(i) == Shown(rrs[i], ttl[rrs[i]])
<1>5. /\ s.ans \in Seq(R) /\ s.add \in Seq(R) /\ s.numAns = Len(s.ans) /\ s.numAdd = Len(s.add)
      /\ s.numAns \in Nat /\ s.numAdd \in Nat
  BY <1>3, <1>4 DEF Reply
<1>6. rrs \in Seq(R) /\ ToSet(rrs) \subseteq R
  BY <1>5, Concatenated, OwnMembers
<1>7. IsList(s.ans) /\ IsList(s.add) /\ IsList(rrs)
  BY <1>5, <1>6, ListOf
<1>8. /\ Len(rrs) = s.numAns + s.numAdd /\ DOMAIN rrs = 1..Len(rrs)
      /\ DOMAIN s.ans = 1..s.numAns
      /\ \A i \in 1..s.numAns : rrs[i] = s.ans[i]
  <2>1. /\ Len(rrs) = Len(s.ans) + Len(s.add)
        /\ \A i \in 1..Len(s.ans) : rrs[i] = s.ans[i]
    BY <1>7, JoinLists
  <2>2. DOMAIN rrs = 1..Len(rrs) /\ DOMAIN s.ans = 1..Len(s.ans)
    BY <1>7, ListFacts
  <2> HIDE DEF rrs
  <2>3. QED
    BY <1>5, <2>1, <2>2
<1>9. \A i \in DOMAIN rrs : rrs[i] \in ToSet(rrs)
  BY DEF ToSet
<1>10. Len(buf) <= PointerLimit
  BY <1>1, <1>4 DEF PacketFits
<1>11. Packable(s)
  BY <1>3, <1>6, <1>7 DEF Packable
<1>12. ASSUME NEW n \in 0..Len(rrs)
       PROVE  /\ At(buf, 0)[2] = s.numAns /\ At(buf, 1)[2] = s.numAdd
              /\ ParseRecords(buf, n) = [i \in 1..n |-> x(i)]
  <2>1. ReadBack(s, ttl, buf, n)
    <3>1. n \in 0..Len(s.ans \o s.add)
      BY <1>12
    <3>2. buf = EncodePkt(s, ttl)
      OBVIOUS
    <3> HIDE DEF buf, ttl
    <3>3. QED
      BY <1>10, <1>11, <3>1, <3>2, PacketIsRead
  <2>2. QED
    BY <2>1 DEF ReadBack
<1>13. \A i \in DOMAIN rrs : x(i) = Readable(rrs, rrs[i])
  BY <1>9 DEF Shown, Readable
<1> HIDE DEF x, buf, ttl, rrs
<1>14. /\ s.numAns \in 0..Len(rrs) /\ Len(rrs) \in 0..Len(rrs)
       /\ 1..s.numAns \subseteq 1..Len(rrs)
  <2>1. PICK l, a, b : l = Len(rrs) /\ a = s.numAns /\ b = s.numAdd
    OBVIOUS
  <2>2. a \in Nat /\ b \in Nat /\ l = a + b
    BY <1>5, <1>8, <2>1
  <2>3. a \in 0..l /\ l \in 0..l /\ 1..a \subseteq 1..l
    BY <2>2
  <2>4. QED
    BY <2>1, <2>3
<1>15. ParsePkt(buf) = [i \in DOMAIN s.ans |-> Readable(s.ans, s.ans[i])]
  <2>1. ParsePkt(buf) = [i \in 1..s.numAns |-> x(i)]
    BY <1>12, <1>14 DEF ParsePkt
  <2>2. \A i \in 1..s.numAns : x(i) = Readable(s.ans, s.ans[i])
    BY <1>8, <1>13, <1>14 DEF Readable
  <2>3. QED
    BY <1>8, <2>1, <2>2
<1>16. ParseRecords(buf, At(buf, 0)[2] + At(buf, 1)[2])
         = [i \in DOMAIN rrs |-> Readable(rrs, rrs[i])]
  BY <1>8, <1>12, <1>13, <1>14
<1>17. QED
  BY <1>4, <1>15, <1>16 DEF WireIsFaithful, buf, ttl, rrs

\* Every packet that the compression pointers reach into can be read again:
\* the counts of the header, and of every record its name, type, lifetime and
\* data (mdns_encode_pkt against mdns_parse_pkt), whatever records the program
\* has put into the responder and in whatever order they are compressed.
THEOREM WireAlwaysFaithful == Spec => [](PacketFits => WireIsFaithful)
<1>1. Init => DirectoryInv /\ WireInv
  <2>1. Init => WireInv
    <3>1. Init => ~HostNamed
      <4>1. SUFFICES ASSUME Init, NEW j \in DOMAIN program, j < next PROVE FALSE
        BY DEF HostNamed
      <4>2. program \in Seq(ToSet(program)) /\ next = 1
        BY <4>1, ProgramsAssumption DEF Init
      <4>3. DOMAIN program = 1..Len(program) /\ Len(program) \in Nat
        BY <4>2
      <4>4. QED
        BY <4>1, <4>2, <4>3
    <3>2. QED
      BY <3>1 DEF Init, WireInv, Records, ToSet
  <2>2. QED
    BY <2>1, InitDirectory
<1>2. DirectoryInv /\ WireInv /\ [Next]_vars => DirectoryInv' /\ WireInv'
  BY StepDirectory, StepWire
<1>3. DirectoryInv /\ WireInv => (PacketFits => WireIsFaithful)
  BY PacketIsFaithful
<1>4. QED
  BY <1>1, <1>2, <1>3, PTL DEF Spec
=============================================================================
