-------------------------- MODULE HttpServerProofs --------------------------
(***************************************************************************)
(* For any clients and scripts and any number of descriptors: the variables *)
(* of HttpServer keep their types, the active connections are the open      *)
(* ones, a reply that was queued is written before its connection is        *)
(* closed, a connection that still waits for a reply is closed only for the *)
(* reasons the code has, and no client gets a reply that it did not ask for.*)
(***************************************************************************)
EXTENDS HttpServer, SequenceTheorems, FiniteSetTheorems, WellFoundedInduction, TLAPS

-----------------------------------------------------------------------------
(***************************************************************************)
(* Lists without repetitions.                                               *)
(***************************************************************************)
ListOf(q, S) == q \in Seq(S) /\ IsInjective(q)

LEMMA EmptyList ==
  ASSUME NEW S
  PROVE  ListOf(<<>>, S) /\ ToSet(<<>>) = {}
BY DEF ListOf, IsInjective, ToSet

LEMMA TailOfList ==
  ASSUME NEW S, NEW q, ListOf(q, S), q # <<>>
  PROVE  /\ ListOf(Tail(q), S) /\ Head(q) \in ToSet(q)
         /\ ToSet(Tail(q)) = ToSet(q) \ {Head(q)}
<1>1. /\ q \in Seq(S) /\ Len(q) \in Nat \ {0} /\ DOMAIN q = 1..Len(q)
      /\ Head(q) = q[1] /\ 1 \in DOMAIN q
  BY DEF ListOf
<1>2. /\ Tail(q) \in Seq(S) /\ DOMAIN Tail(q) = 1..(Len(q) - 1)
      /\ \A i \in 1..(Len(q) - 1) : Tail(q)[i] = q[i + 1]
  BY <1>1
<1>3. \A i, j \in DOMAIN q : q[i] = q[j] => i = j
  BY DEF ListOf, IsInjective
<1>4. IsInjective(Tail(q))
  <2> SUFFICES ASSUME NEW i \in 1..(Len(q) - 1), NEW j \in 1..(Len(q) - 1),
                      Tail(q)[i] = Tail(q)[j]
               PROVE  i = j
    BY <1>2 DEF IsInjective
  <2>1. i + 1 \in DOMAIN q /\ j + 1 \in DOMAIN q /\ q[i + 1] = q[j + 1]
    BY <1>1, <1>2
  <2>2. i + 1 = j + 1
    BY <1>3, <2>1
  <2>3. QED
    BY <2>2
<1>5. ASSUME NEW x \in ToSet(Tail(q)) PROVE x \in ToSet(q) \ {Head(q)}
  <2>1. PICK i \in 1..(Len(q) - 1) : x = q[i + 1]
    BY <1>2, <1>5 DEF ToSet
  <2>2. i + 1 \in DOMAIN q /\ i + 1 # 1
    BY <1>1
  <2>3. QED
    BY <1>1, <1>3, <2>1, <2>2 DEF ToSet
<1>6. ASSUME NEW x \in ToSet(q), x # Head(q) PROVE x \in ToSet(Tail(q))
  <2>1. PICK i \in DOMAIN q : x = q[i]
    BY <1>6 DEF ToSet
  <2>2. i - 1 \in 1..(Len(q) - 1) /\ Tail(q)[i - 1] = x
    BY <1>1, <1>2, <1>6, <2>1
  <2>3. QED
    BY <1>2, <2>2 DEF ToSet
<1>7. QED
  BY <1>1, <1>2, <1>4, <1>5, <1>6 DEF ListOf, ToSet

LEMMA AppendedList ==
  ASSUME NEW S, NEW q, ListOf(q, S), NEW e \in S, e \notin ToSet(q)
  PROVE  ListOf(Append(q, e), S) /\ ToSet(Append(q, e)) = ToSet(q) \cup {e}
<1> DEFINE a == Append(q, e)
<1>1. q \in Seq(S) /\ Len(q) \in Nat /\ DOMAIN q = 1..Len(q)
  BY DEF ListOf
<1>2. /\ a \in Seq(S) /\ DOMAIN a = 1..(Len(q) + 1)
      /\ \A i \in 1..(Len(q) + 1) : a[i] = IF i \in 1..Len(q) THEN q[i] ELSE e
  BY <1>1
<1> HIDE DEF a
<1>3. \A i \in 1..Len(q) : q[i] # e /\ \A j \in 1..Len(q) : q[i] = q[j] => i = j
  BY <1>1 DEF ListOf, IsInjective, ToSet
<1>4. ASSUME NEW i \in 1..(Len(q) + 1), NEW j \in 1..(Len(q) + 1), a[i] = a[j]
      PROVE  i = j
  <2>1. CASE i \in 1..Len(q) /\ j \in 1..Len(q)
    BY <1>2, <1>3, <1>4, <2>1
  <2>2. CASE i \notin 1..Len(q) /\ j \in 1..Len(q)
    BY <1>2, <1>3, <1>4, <2>2
  <2>3. CASE i \in 1..Len(q) /\ j \notin 1..Len(q)
    BY <1>2, <1>3, <1>4, <2>3
  <2>4. CASE i \notin 1..Len(q) /\ j \notin 1..Len(q)
    BY <1>1, <2>4
  <2>5. QED
    BY <2>1, <2>2, <2>3, <2>4
<1>5. ToSet(a) = ToSet(q) \cup {e}
  <2>1. ASSUME NEW x \in ToSet(a) PROVE x \in ToSet(q) \cup {e}
    BY <1>1, <1>2, <2>1 DEF ToSet
  <2>2. ASSUME NEW x \in ToSet(q) PROVE x \in ToSet(a)
    <3>1. PICK i \in 1..Len(q) : x = q[i]
      BY <1>1, <2>2 DEF ToSet
    <3>2. i \in 1..(Len(q) + 1) /\ a[i] = x
      BY <1>1, <1>2, <3>1
    <3>3. QED
      BY <1>2, <3>2 DEF ToSet
  <2>3. e \in ToSet(a)
    <3>1. Len(q) + 1 \in 1..(Len(q) + 1) /\ a[Len(q) + 1] = e
      BY <1>1, <1>2
    <3>2. QED
      BY <1>2, <3>1 DEF ToSet
  <2>4. QED
    BY <2>1, <2>2, <2>3
<1>6. QED
  BY <1>2, <1>4, <1>5 DEF ListOf, IsInjective, a

LEMMA PutInFront ==
  ASSUME NEW S, NEW q, ListOf(q, S), NEW e \in S, e \notin ToSet(q)
  PROVE  ListOf(<<e>> \o q, S) /\ ToSet(<<e>> \o q) = ToSet(q) \cup {e}
<1> DEFINE a == <<e>> \o q
<1>1. q \in Seq(S) /\ Len(q) \in Nat /\ DOMAIN q = 1..Len(q)
  BY DEF ListOf
<1>2. /\ a \in Seq(S) /\ Len(a) = Len(q) + 1 /\ DOMAIN a = 1..(Len(q) + 1)
      /\ \A i \in 1..(Len(q) + 1) : a[i] = IF i = 1 THEN e ELSE q[i - 1]
  <2>1. <<e>> \in Seq(S) /\ Len(<<e>>) = 1 /\ <<e>>[1] = e
    OBVIOUS
  <2>2. a \in Seq(S) /\ Len(a) = 1 + Len(q)
        /\ \A i \in 1..(1 + Len(q)) : a[i] = IF i <= 1 THEN <<e>>[i] ELSE q[i - 1]
    BY <1>1, <2>1, ConcatProperties
  <2> HIDE DEF a
  <2>3. QED
    BY <1>1, <2>1, <2>2
<1> HIDE DEF a
<1>3. \A i \in 1..Len(q) : q[i] # e /\ \A j \in 1..Len(q) : q[i] = q[j] => i = j
  BY <1>1 DEF ListOf, IsInjective, ToSet
<1>4. ASSUME NEW i \in 1..(Len(q) + 1), NEW j \in 1..(Len(q) + 1), a[i] = a[j]
      PROVE  i = j
  <2>1. CASE i = 1 /\ j = 1
    BY <2>1
  <2>2. CASE i = 1 /\ j # 1
    <3>1. j - 1 \in 1..Len(q)
      BY <1>1, <2>2
    <3>2. QED
      BY <1>2, <1>3, <1>4, <2>2, <3>1
  <2>3. CASE i # 1 /\ j = 1
    <3>1. i - 1 \in 1..Len(q)
      BY <1>1, <2>3
    <3>2. QED
      BY <1>2, <1>3, <1>4, <2>3, <3>1
  <2>4. CASE i # 1 /\ j # 1
    <3>1. i - 1 \in 1..Len(q) /\ j - 1 \in 1..Len(q) /\ q[i - 1] = q[j - 1]
      BY <1>1, <1>2, <1>4, <2>4
    <3>2. i - 1 = j - 1
      BY <1>3, <3>1
    <3>3. QED
      BY <3>2
  <2>5. QED
    BY <2>1, <2>2, <2>3, <2>4
<1>5. ToSet(a) = ToSet(q) \cup {e}
  <2>1. ASSUME NEW x \in ToSet(a) PROVE x \in ToSet(q) \cup {e}
    <3>1. PICK i \in 1..(Len(q) + 1) : x = a[i]
      BY <1>2, <2>1 DEF ToSet
    <3>2. CASE i = 1
      BY <1>2, <3>1, <3>2
    <3>3. CASE i # 1
      <4>1. i - 1 \in DOMAIN q /\ x = q[i - 1]
        BY <1>1, <1>2, <3>1, <3>3
      <4>2. QED
        BY <4>1 DEF ToSet
    <3>4. QED
      BY <3>2, <3>3
  <2>2. ASSUME NEW x \in ToSet(q) PROVE x \in ToSet(a)
    <3>1. PICK i \in 1..Len(q) : x = q[i]
      BY <1>1, <2>2 DEF ToSet
    <3>2. i + 1 \in 1..(Len(q) + 1) /\ a[i + 1] = x
      BY <1>1, <1>2, <3>1
    <3>3. QED
      BY <1>2, <3>2 DEF ToSet
  <2>3. e \in ToSet(a)
    <3>1. 1 \in 1..(Len(q) + 1) /\ a[1] = e
      BY <1>1, <1>2
    <3>2. QED
      BY <1>2, <3>1 DEF ToSet
  <2>4. QED
    BY <2>1, <2>2, <2>3
<1>6. QED
  BY <1>2, <1>4, <1>5 DEF ListOf, IsInjective, a

LEMMA TakenOut ==
  ASSUME NEW S, NEW q, ListOf(q, S), NEW i \in DOMAIN q
  PROVE  ListOf(RemoveAt(q, i), S) /\ ToSet(RemoveAt(q, i)) = ToSet(q) \ {q[i]}
<1> DEFINE a == RemoveAt(q, i)
           At(j) == IF j < i THEN j ELSE j + 1
<1>1. q \in Seq(S) /\ Len(q) \in Nat /\ DOMAIN q = 1..Len(q) /\ i \in 1..Len(q)
  BY DEF ListOf
<1>2. /\ a \in Seq(S) /\ DOMAIN a = 1..(Len(q) - 1)
      /\ \A j \in 1..(Len(q) - 1) : a[j] = q[At(j)]
  <2> DEFINE l == SubSeq(q, 1, i - 1)
             r == SubSeq(q, i + 1, Len(q))
  <2>1. l \in Seq(S) /\ Len(l) = i - 1 /\ \A j \in 1..(i - 1) : l[j] = q[j]
    BY <1>1
  <2>2. /\ r \in Seq(S) /\ Len(r) = Len(q) - i
        /\ \A j \in 1..(Len(q) - i) : r[j] = q[i + j]
    BY <1>1
  <2>3. a = l \o r
    BY DEF RemoveAt
  <2> HIDE DEF l, r, a
  <2>4. /\ a \in Seq(S) /\ Len(a) = Len(l) + Len(r)
        /\ \A j \in 1..(Len(l) + Len(r)) :
             a[j] = IF j <= Len(l) THEN l[j] ELSE r[j - Len(l)]
    BY <2>1, <2>2, <2>3, ConcatProperties
  <2>5. Len(a) = Len(q) - 1
    BY <1>1, <2>1, <2>2, <2>4
  <2>6. ASSUME NEW j \in 1..(Len(q) - 1) PROVE a[j] = q[At(j)]
    <3>1. CASE j < i
      BY <1>1, <2>1, <2>2, <2>4, <3>1
    <3>2. CASE j >= i
      <4>1. a[j] = r[j - (i - 1)] /\ j - (i - 1) \in 1..(Len(q) - i)
        BY <1>1, <2>1, <2>2, <2>4, <3>2
      <4>2. r[j - (i - 1)] = q[i + (j - (i - 1))] /\ i + (j - (i - 1)) = j + 1
        BY <1>1, <2>2, <4>1
      <4>3. QED
        BY <1>1, <3>2, <4>1, <4>2
    <3>3. QED
      BY <1>1, <3>1, <3>2
  <2>7. QED
    BY <2>4, <2>5, <2>6
<1>3. \A j \in 1..(Len(q) - 1) : At(j) \in 1..Len(q) /\ At(j) # i
  BY <1>1
<1>4. \A m \in 1..Len(q) : m # i => \E j \in 1..(Len(q) - 1) : At(j) = m
  <2> SUFFICES ASSUME NEW m \in 1..Len(q), m # i
               PROVE  \E j \in 1..(Len(q) - 1) : At(j) = m
    OBVIOUS
  <2>1. CASE m < i
    BY <1>1, <2>1
  <2>2. CASE m > i
    <3>1. m - 1 \in 1..(Len(q) - 1) /\ At(m - 1) = m
      BY <1>1, <2>2
    <3>2. QED
      BY <3>1
  <2>3. QED
    BY <1>1, <2>1, <2>2
<1>5. \A j, m \in 1..(Len(q) - 1) : At(j) = At(m) => j = m
  BY <1>1
<1> HIDE DEF a, At
<1>6. \A j, m \in 1..Len(q) : q[j] = q[m] => j = m
  BY <1>1 DEF ListOf, IsInjective
<1>7. IsInjective(a)
  BY <1>2, <1>3, <1>5, <1>6 DEF IsInjective
<1>8. ToSet(a) = ToSet(q) \ {q[i]}
  <2>1. ToSet(a) = {q[At(j)] : j \in 1..(Len(q) - 1)}
    BY <1>2 DEF ToSet
  <2>2. ToSet(q) = {q[m] : m \in 1..Len(q)}
    BY <1>1 DEF ToSet
  <2>3. QED
    BY <1>1, <1>3, <1>4, <1>6, <2>1, <2>2
<1>9. QED
  BY <1>2, <1>7, <1>8 DEF ListOf, a
-----------------------------------------------------------------------------
(***************************************************************************)
(* A connection's record.                                                   *)
(***************************************************************************)
Token == {"head", "end", "endb", "body", "junk"}
Code == {"200", "400"}

\* The record while a chunk is handled: the header may have turned out bad.
Busy ==
  [hdr : {"none", "end", "endb", "bad"}, recv : Seq(Token), got : Nat,
   ep : {"NONE", "USER"}, send : Seq(Code), flags : SUBSET {"CLOSE", "FINISHED"}]

Record == {r \in Busy : r.hdr # "bad"}

\* The least of some numbers is one of them.
LEMMA LeastIsOne ==
  ASSUME NEW S, S \subseteq Nat, S # {}
  PROVE  \E x \in S : \A y \in S : x <= y
<1> DEFINE R == {ss \in Nat \X Nat : ss[1] < ss[2]}
<1>1. OpToRel(<, Nat) = R
  BY Zenon DEF OpToRel
<1>2. IsWellFoundedOn(R, Nat)
  BY <1>1, NatLessThanWellFounded, Zenon
<1>3. PICK x \in S : \A y \in S : ~(<<y, x>> \in R)
  <2> HIDE DEF R
  <2>1. QED
    BY <1>2, WFMin
<1>4. ASSUME NEW y \in S PROVE x <= y
  <2>1. ~(y < x)
    BY <1>3
  <2>2. QED
    BY <2>1
<1>5. QED
  BY <1>4

\* Where the header ends there is one of the tokens that end a header.
LEMMA HeaderEnds ==
  ASSUME NEW buf \in Seq(Token)
  PROVE  /\ RequestLen(buf) \in {0, -1} \cup DOMAIN buf
         /\ RequestLen(buf) > 0 => buf[RequestLen(buf)] \in Enders
         /\ RequestLen(buf) = -1 => \E i \in DOMAIN buf : buf[i] = "junk"
<1> DEFINE stops == {i \in DOMAIN buf : buf[i] \in Enders \cup {"junk"}}
           first == CHOOSE i \in stops : \A j \in stops : i <= j
<1>1. DOMAIN buf = 1..Len(buf) /\ Len(buf) \in Nat
  OBVIOUS
<1>2. CASE stops = {}
  BY <1>2 DEF RequestLen
<1>3. CASE stops # {}
  <2>1. stops \subseteq Nat
    BY <1>1
  <2>2. first \in stops
    <3> HIDE DEF stops
    <3>1. \E i \in stops : \A j \in stops : i <= j
      BY <1>3, <2>1, LeastIsOne
    <3>2. QED
      BY <3>1
  <2>3. RequestLen(buf) = IF buf[first] = "junk" THEN -1 ELSE first
    BY <1>3 DEF RequestLen
  <2> HIDE DEF first
  <2>4. QED
    BY <1>1, <2>2, <2>3 DEF Enders
<1>4. QED
  BY <1>2, <1>3

\* A header that is complete is a request with or without a body, or bad.
LEMMA HeaderKind ==
  ASSUME NEW buf \in Seq(Token), RequestLen(buf) > 0
  PROVE  LET kind == parse_http_message(SubSeq(buf, 1, RequestLen(buf)))
         IN /\ kind \in {"end", "endb", "bad"}
            /\ kind \in Enders => RequestLen(buf) = 2 /\ buf[2] = kind
<1> DEFINE n == RequestLen(buf)
           header == SubSeq(buf, 1, n)
<1>1. n \in 1..Len(buf) /\ buf[n] \in Enders
  BY HeaderEnds
<1> HIDE DEF n
<1>2. Len(header) = n /\ \A i \in 1..n : header[i] = buf[i]
  BY <1>1
<1>3. CASE n = 2
  BY <1>1, <1>2, <1>3 DEF parse_http_message, Enders, n
<1>4. CASE n # 2
  <2>1. parse_http_message(header) = "bad"
    <3> HIDE DEF header
    <3>1. QED
      BY <1>2, <1>4 DEF parse_http_message
  <2>2. QED
    BY <2>1 DEF Enders, n
<1>5. QED
  BY <1>3, <1>4

LEMMA TryParseType ==
  ASSUME NEW r \in Busy, r.hdr # "bad"
  PROVE  TryParse(r) \in Busy /\ TryParse(r).send = r.send /\ TryParse(r).flags = r.flags
<1> DEFINE n == RequestLen(r.recv)
<1>1. r.recv \in Seq(Token)
  BY DEF Busy
<1>2. n \in {0, -1} \cup 1..Len(r.recv)
  BY <1>1, HeaderEnds
<1>3. CASE r.hdr # "none" \/ n = 0
  BY <1>3 DEF TryParse
<1>4. CASE r.hdr = "none" /\ n > 0
  <2> DEFINE hdr == parse_http_message(SubSeq(r.recv, 1, n))
             rest == SubSeq(r.recv, n + 1, Len(r.recv))
  <2>1. hdr \in {"end", "endb", "bad"}
    BY <1>1, <1>4, HeaderKind
  <2>2. rest \in Seq(Token)
    BY <1>1, <1>2, <1>4
  <2>3. TryParse(r) = [r EXCEPT !.hdr = hdr, !.recv = rest]
    BY <1>4 DEF TryParse
  <2> HIDE DEF hdr, rest
  <2>4. QED
    BY <2>1, <2>2, <2>3 DEF Busy
<1>5. CASE r.hdr = "none" /\ n = -1
  <2>1. TryParse(r) = [r EXCEPT !.hdr = "bad"]
    BY <1>5 DEF TryParse
  <2>2. QED
    BY <2>1 DEF Busy
<1>6. QED
  BY <1>2, <1>3, <1>4, <1>5

LEMMA ReceivedType ==
  ASSUME NEW r \in Record, NEW chunk \in Seq(Token)
  PROVE  /\ Received(r, chunk) \in Busy
         /\ Received(r, chunk).send = r.send /\ Received(r, chunk).flags = r.flags
<1> DEFINE r0 == [r EXCEPT !.recv = @ \o chunk, !.got = @ + Len(chunk)]
           r1 == TryParse(r0)
<1>1. r.recv \o chunk \in Seq(Token) /\ r.got + Len(chunk) \in Nat
  BY DEF Record, Busy
<1>2. r0 \in Busy /\ r0.hdr # "bad" /\ r0.send = r.send /\ r0.flags = r.flags
  BY <1>1 DEF Record, Busy
<1> HIDE DEF r0
<1>3. r1 \in Busy /\ r1.send = r.send /\ r1.flags = r.flags
  BY <1>2, TryParseType
<1>4. Received(r, chunk) \in {r1, open_local_endpoint(r1)}
  BY DEF Received, r0
<1> HIDE DEF r1
<1>5. QED
  BY <1>3, <1>4 DEF open_local_endpoint, Busy

LEMMA CloseLocalType ==
  ASSUME NEW r \in Busy, NEW ka \in BOOLEAN
  PROVE  /\ CloseLocal(r, ka) \in Record /\ CloseLocal(r, ka).send = r.send
         /\ "CLOSE" \in CloseLocal(r, ka).flags => r.send = <<>>
         /\ "FINISHED" \in CloseLocal(r, ka).flags => r.send # <<>>
<1> DEFINE r1 == [r EXCEPT !.hdr = "none", !.recv = <<>>, !.got = 0, !.ep = "NONE"]
           f == IF should_keep_alive(r, ka) THEN {}
                ELSE IF r.send = <<>> THEN {"CLOSE"} ELSE {"FINISHED"}
<1>1. r1 \in Record /\ r1.send = r.send
  <2> DEFINE e1 == [r EXCEPT !.hdr = "none"]
             e2 == [e1 EXCEPT !.recv = <<>>]
             e3 == [e2 EXCEPT !.got = 0]
  <2>1. e1 \in Record /\ e1.send = r.send
    BY DEF Record, Busy
  <2>2. r1 = [e3 EXCEPT !.ep = "NONE"]
    OBVIOUS
  <2> HIDE DEF e1
  <2>3. e2 \in Record /\ e2.send = r.send
    <3>1. <<>> \in Seq(Token)
      OBVIOUS
    <3>2. QED
      BY <2>1, <3>1 DEF Record, Busy
  <2> HIDE DEF e2
  <2>4. e3 \in Record /\ e3.send = r.send
    BY <2>3 DEF Record, Busy
  <2> HIDE DEF e3
  <2>5. QED
    BY <2>2, <2>4 DEF Record, Busy
<1>2. CloseLocal(r, ka) = [r1 EXCEPT !.flags = f]
  <2>1. CASE should_keep_alive(r, ka)
    BY <2>1 DEF CloseLocal
  <2>2. CASE ~should_keep_alive(r, ka)
    BY <2>2 DEF CloseLocal
  <2>3. QED
    BY <2>1, <2>2
<1>3. /\ f \subseteq {"CLOSE", "FINISHED"}
      /\ "CLOSE" \in f => r.send = <<>>
      /\ "FINISHED" \in f => r.send # <<>>
  OBVIOUS
<1> HIDE DEF r1, f
<1>4. QED
  BY <1>1, <1>2, <1>3 DEF Record, Busy

\* The reply is queued before the request is forgotten.
LEMMA AnswerType ==
  ASSUME NEW r \in Busy, NEW ka \in BOOLEAN,
         NEW a \in {send_http_error(r, ka), call_request_handler(r, ka)}
  PROVE  a \in Record /\ a.send # <<>> /\ "CLOSE" \notin a.flags
<1>1. PICK code \in Code : a = CloseLocal(ns_send(r, code), ka)
  BY DEF send_http_error, call_request_handler, Code
<1>2. r.send \in Seq(Code) /\ Append(r.send, code) \in Seq(Code) /\ Append(r.send, code) # <<>>
  BY AppendProperties DEF Busy
<1>3. ns_send(r, code) \in Busy /\ ns_send(r, code).send = Append(r.send, code)
  BY <1>2 DEF ns_send, Busy
<1>4. QED
  BY <1>1, <1>2, <1>3, CloseLocalType
-----------------------------------------------------------------------------
(***************************************************************************)
(* The inductive invariant.                                                 *)
(***************************************************************************)
Network ==
  /\ script \in Scripts
  /\ next \in [Conns -> Nat \ {0}] /\ inbox \in [Conns -> Seq(Seq(Token))]
  /\ fin \in [Conns -> BOOLEAN] /\ idle \in [Conns -> BOOLEAN]
  /\ replies \in [Conns -> Seq(Code)]

\* The active connections are the open ones; what a pass has still to visit
\* are some of them; those in the backlog are not open yet.
Lists ==
  /\ phase \in [Conns -> {"none", "syn", "open", "closed"}]
  /\ ListOf(order, Conns) /\ ToSet(order) = Open
  /\ ListOf(todo, Conns) /\ ToSet(todo) \subseteq Open
  /\ ListOf(backlog, Conns) /\ ToSet(backlog) = {c \in Conns : phase[c] = "syn"}

\* The last turn comes after SIGTERM, and the end after the last turn.
Control ==
  /\ pc \in {"start", "top", "poll", "io", "close", "destroy", "done"}
  /\ listening \in BOOLEAN /\ (listening => pc \notin {"start", "done"})
  /\ exitflag \in BOOLEAN /\ final \in BOOLEAN
  /\ pc = "destroy" => final
  /\ final => exitflag

Descriptors == leaks \in Nat /\ Cardinality(Open) + leaks <= MaxFds

Records == k \in [Conns -> Record]

\* An idle connection has nothing to send, one to be closed at once has been
\* closed by its client, and one that has finished has had a reply or still
\* has it.
CloseReasons ==
  \A c \in Open :
    /\ idle[c] => k[c].send = <<>>
    /\ "CLOSE" \in k[c].flags => fin[c]
    /\ "FINISHED" \in k[c].flags => k[c].send # <<>> \/ replies[c] # <<>>

Sound == Network /\ Lists /\ Control /\ Descriptors /\ Records
HttpInv == Sound /\ CloseReasons

LEMMA ScriptType ==
  ASSUME Network, NEW c \in Conns
  PROVE  script[c].chunks \in Seq(Seq(Token)) /\ script[c].keep \in BOOLEAN
BY ScriptsAssumption DEF Network, Token

LEMMA NewConnType == NewConn \in Record
<1>1. <<>> \in Seq(Token) /\ <<>> \in Seq(Code)
  OBVIOUS
<1>2. QED
  BY <1>1 DEF NewConn, Record, Busy

LEMMA OpenIsFinite ==
  ASSUME NEW S \in SUBSET Conns
  PROVE  IsFiniteSet(S) /\ Cardinality(S) \in Nat
BY ConnsAssumption, FS_Subset, FS_CardinalityType

LEMMA InitInv == Init => HttpInv
<1> SUFFICES ASSUME Init PROVE HttpInv
  OBVIOUS
<1>1. Open = {} /\ {c \in Conns : phase[c] = "syn"} = {}
  BY DEF Init, Open
<1>2. Network
  <2>1. <<>> \in Seq(Seq(Token)) /\ <<>> \in Seq(Code)
    OBVIOUS
  <2>2. QED
    BY <2>1 DEF Init, Network
<1>3. Lists
  <2>1. order = <<>> /\ todo = <<>> /\ backlog = <<>>
    BY DEF Init, ns_mgr_init
  <2>2. QED
    BY <1>1, <2>1, EmptyList DEF Lists, Init
<1>4. Control
  BY DEF Init, Control
<1>5. Descriptors
  BY <1>1, FdsAssumption, FS_EmptySet DEF Init, Descriptors
<1>6. Records
  BY NewConnType DEF Init, Records
<1>7. CloseReasons
  BY <1>1 DEF Init, CloseReasons
<1>8. QED
  BY <1>2, <1>3, <1>4, <1>5, <1>6, <1>7 DEF HttpInv, Sound

\* The connection that a pass visits is closed or not.
LEMMA VisitOne ==
  ASSUME Lists, todo # <<>>, NEW b \in BOOLEAN, CloseIf(Head(todo), b),
         todo' = Tail(todo), backlog' = backlog
  PROVE  /\ Lists' /\ Open' = IF b THEN Open \ {Head(todo)} ELSE Open
         /\ Head(todo) \in Open
<1> DEFINE c == Head(todo)
<1>1. c \in Open /\ ListOf(Tail(todo), Conns) /\ ToSet(Tail(todo)) = ToSet(todo) \ {c}
  BY TailOfList DEF Lists
<1>2. CASE ~b
  <2>1. phase' = phase /\ order' = order
    BY <1>2 DEF CloseIf
  <2>2. QED
    BY <1>1, <1>2, <2>1 DEF Lists, Open
<1>3. CASE b
  <2> DEFINE i == CHOOSE j \in DOMAIN order : order[j] = c
  <2>1. phase' = [phase EXCEPT ![c] = "closed"] /\ order' = RemoveAt(order, i)
    BY <1>3 DEF CloseIf, ns_close_conn, ns_remove_conn
  <2>2. i \in DOMAIN order /\ order[i] = c
    <3>1. \E j \in DOMAIN order : order[j] = c
      BY <1>1 DEF Lists, ToSet
    <3>2. QED
      BY <3>1
  <2> HIDE DEF i, c
  <2>3. ListOf(order', Conns) /\ ToSet(order') = Open \ {c}
    BY <2>1, <2>2, TakenOut DEF Lists
  <2>4. /\ phase' \in [Conns -> {"none", "syn", "open", "closed"}]
        /\ Open' = Open \ {c}
        /\ {d \in Conns : phase'[d] = "syn"} = {d \in Conns : phase[d] = "syn"}
    BY <1>1, <2>1 DEF Lists, Open
  <2>5. QED
    BY <1>1, <1>3, <2>3, <2>4 DEF Lists, c
<1>4. QED
  BY <1>2, <1>3

\* The lists, action by action.
LEMMA StepLists ==
  ASSUME Network, Lists, Control, [Next]_vars
  PROVE  Lists'
<1>1. CASE UNCHANGED <<phase, order, todo, backlog>>
  BY <1>1 DEF Lists, Open
<1>2. ASSUME NEW c \in Conns, Connect(c) PROVE Lists'
  <2>1. /\ phase[c] = "none" /\ phase' = [phase EXCEPT ![c] = "syn"]
        /\ backlog' = Append(backlog, c) /\ order' = order /\ todo' = todo
    BY <1>2 DEF Connect
  <2>2. Open' = Open /\ c \notin ToSet(backlog)
        /\ {d \in Conns : phase'[d] = "syn"} = {d \in Conns : phase[d] = "syn"} \cup {c}
    BY <2>1 DEF Lists, Open
  <2>3. ListOf(backlog', Conns) /\ ToSet(backlog') = ToSet(backlog) \cup {c}
    BY <2>1, <2>2, AppendedList DEF Lists
  <2>4. QED
    BY <2>1, <2>2, <2>3 DEF Lists
<1>3. CASE LoopTop \/ Select
  <2>1. UNCHANGED <<phase, order, backlog>> /\ todo' = order
    BY <1>3 DEF LoopTop, Select
  <2>2. QED
    BY <2>1 DEF Lists, Open
<1>4. CASE PollOne
  <2>1. PICK b \in BOOLEAN : CloseIf(Head(todo), b)
    BY <1>4 DEF PollOne
  <2>2. QED
    BY <1>4, <2>1, VisitOne DEF PollOne
<1>5. CASE CloseOne
  <2>1. PICK b \in BOOLEAN : CloseIf(Head(todo), b)
    BY <1>5 DEF CloseOne, Finished
  <2>2. QED
    BY <1>5, <2>1, VisitOne DEF CloseOne
<1>6. CASE DestroyOne
  <2>1. CloseIf(Head(todo), TRUE)
    BY <1>6 DEF DestroyOne, CloseIf
  <2>2. QED
    BY <1>6, <2>1, VisitOne DEF DestroyOne
<1>7. CASE WriteOne
  <2>1. UNCHANGED <<phase, order, backlog>> /\ todo' = Tail(todo) /\ todo # <<>>
    BY <1>7 DEF WriteOne
  <2>2. ListOf(Tail(todo), Conns) /\ ToSet(Tail(todo)) \subseteq ToSet(todo)
    BY <2>1, TailOfList DEF Lists
  <2>3. QED
    BY <2>1, <2>2 DEF Lists, Open
<1>8. CASE Accept
  <2>1. CASE backlog # <<>> /\ FdFree
    <3> DEFINE c == Head(backlog)
    <3>1. /\ backlog' = Tail(backlog) /\ phase' = [phase EXCEPT ![c] = "open"]
          /\ order' = <<c>> \o order /\ todo' = order'
      BY <1>8, <2>1 DEF Accept, accept_conn, ns_add_conn
    <3>2. /\ ListOf(Tail(backlog), Conns) /\ c \in ToSet(backlog)
          /\ ToSet(Tail(backlog)) = ToSet(backlog) \ {c}
      BY <2>1, TailOfList DEF Lists
    <3> HIDE DEF c
    <3>3. c \in Conns /\ phase[c] = "syn" /\ c \notin Open
      BY <3>2 DEF Lists, Open
    <3>4. ListOf(order', Conns) /\ ToSet(order') = Open \cup {c}
      BY <3>1, <3>3, PutInFront DEF Lists
    <3>5. /\ Open' = Open \cup {c}
          /\ {d \in Conns : phase'[d] = "syn"} = {d \in Conns : phase[d] = "syn"} \ {c}
          /\ phase' \in [Conns -> {"none", "syn", "open", "closed"}]
      BY <3>1, <3>3 DEF Lists, Open
    <3>6. QED
      BY <3>1, <3>2, <3>4, <3>5 DEF Lists
  <2>2. CASE ~(backlog # <<>> /\ FdFree)
    <3>1. UNCHANGED <<phase, order, backlog>> /\ todo' = order
      BY <1>8, <2>2 DEF Accept
    <3>2. QED
      BY <3>1 DEF Lists, Open
  <2>3. QED
    BY <2>1, <2>2
<1>9. ASSUME NEW c \in Conns, Send(c) \/ Shut(c) \/ IdleTimeout(c) PROVE Lists'
  BY <1>1, <1>9 DEF Send, Shut, IdleTimeout
<1>10. CASE Start \/ RecvChunk \/ TurnEnds \/ DestroyEnds
  BY <1>1, <1>10 DEF Start, RecvChunk, TurnEnds, DestroyEnds
<1>11. CASE Sigterm \/ Terminated \/ UNCHANGED vars
  BY <1>1, <1>11 DEF Sigterm, Terminated, vars
<1>12. QED
  BY <1>2, <1>3, <1>4, <1>5, <1>6, <1>7, <1>8, <1>9, <1>10, <1>11 DEF Next, Server

LEMMA StepControl ==
  ASSUME Control, [Next]_vars
  PROVE  Control'
<1>1. CASE Start
  BY <1>1 DEF Control, Start, mg_set_option, ns_bind, ns_open_listening_socket
<1>2. CASE UNCHANGED <<pc, listening, exitflag, final>>
  BY <1>2 DEF Control
<1>3. CASE LoopTop
  BY <1>3 DEF Control, LoopTop
<1>4. CASE Select \/ Accept \/ TurnEnds
  <2>1. UNCHANGED <<listening, exitflag, final>> /\ pc' \in {"io", "close", "top"}
        /\ pc \in {"poll", "io", "close"}
    BY <1>4 DEF Select, Accept, TurnEnds
  <2>2. QED
    BY <2>1 DEF Control
<1>5. CASE DestroyEnds
  BY <1>5 DEF Control, DestroyEnds
<1>6. CASE Sigterm
  BY <1>6 DEF Control, Sigterm
<1>7. CASE PollOne \/ RecvChunk \/ WriteOne \/ CloseOne \/ DestroyOne
  BY <1>2, <1>7 DEF PollOne, RecvChunk, WriteOne, CloseOne, DestroyOne
<1>8. ASSUME NEW c \in Conns, Connect(c) \/ Send(c) \/ Shut(c) \/ IdleTimeout(c)
      PROVE  Control'
  BY <1>2, <1>8 DEF Connect, Send, Shut, IdleTimeout
<1>9. CASE Terminated \/ UNCHANGED vars
  BY <1>2, <1>9 DEF Terminated, vars
<1>10. QED
  BY <1>1, <1>3, <1>4, <1>5, <1>6, <1>7, <1>8, <1>9 DEF Next, Server

LEMMA StepNetwork ==
  ASSUME Network, Lists, Records, [Next]_vars
  PROVE  Network'
<1>1. CASE UNCHANGED <<script, next, inbox, fin, idle, replies>>
  BY <1>1 DEF Network
<1>2. ASSUME NEW c \in Conns, Send(c) PROVE Network'
  <2>1. /\ inbox' = [inbox EXCEPT ![c] = Append(@, script[c].chunks[next[c]])]
        /\ next' = [next EXCEPT ![c] = @ + 1] /\ next[c] \in 1..Len(script[c].chunks)
        /\ UNCHANGED <<script, fin, idle, replies>>
    BY <1>2, ScriptType DEF Send, Network
  <2>2. script[c].chunks[next[c]] \in Seq(Token)
    BY <2>1, ScriptType
  <2>3. Append(inbox[c], script[c].chunks[next[c]]) \in Seq(Seq(Token))
    BY <2>2, AppendProperties DEF Network
  <2>4. QED
    BY <2>1, <2>3 DEF Network
<1>3. ASSUME NEW c \in Conns, Shut(c) \/ IdleTimeout(c) PROVE Network'
  BY <1>3 DEF Shut, IdleTimeout, Network, clientVars
<1>4. CASE RecvChunk
  <2> DEFINE c == Head(todo)
  <2>1. /\ inbox[c] # <<>> /\ inbox' = [inbox EXCEPT ![c] = Tail(@)]
        /\ idle' = [idle EXCEPT ![c] = FALSE]
        /\ UNCHANGED <<script, next, fin, replies>>
    BY <1>4 DEF RecvChunk, clientVars
  <2>2. c \in Conns
    BY <1>4, TailOfList DEF RecvChunk, Lists, Open
  <2> HIDE DEF c
  <2>3. Tail(inbox[c]) \in Seq(Seq(Token))
    BY <2>1, <2>2, HeadTailProperties DEF Network
  <2>4. QED
    BY <2>1, <2>3 DEF Network
<1>5. CASE WriteOne
  <2> DEFINE c == Head(todo)
  <2>1. /\ replies' = IF wr THEN [replies EXCEPT ![c] = @ \o k[c].send] ELSE replies
        /\ idle' = [idle EXCEPT ![c] = @ /\ ~fin[c] /\ ~wr]
        /\ UNCHANGED <<script, next, inbox, fin>>
    BY <1>5 DEF WriteOne, ns_write_to_socket, clientVars
  <2>2. c \in Conns
    BY <1>5, TailOfList DEF WriteOne, Lists, Open
  <2> HIDE DEF c
  <2>3. replies[c] \o k[c].send \in Seq(Code)
    BY <2>2, ConcatProperties DEF Network, Records, Record, Busy
  <2>4. QED
    BY <2>1, <2>3 DEF Network
<1>6. ASSUME NEW c \in Conns, Connect(c) PROVE Network'
  BY <1>1, <1>6 DEF Connect, clientVars
<1>7. CASE Start \/ LoopTop \/ PollOne \/ Select \/ Accept \/ CloseOne
  BY <1>1, <1>7 DEF Start, LoopTop, PollOne, Select, Accept, CloseOne, clientVars
<1>8. CASE TurnEnds \/ DestroyOne \/ DestroyEnds \/ Sigterm \/ Terminated \/ UNCHANGED vars
  BY <1>1, <1>8 DEF TurnEnds, DestroyOne, DestroyEnds, Sigterm, Terminated, vars, clientVars
<1>9. QED
  BY <1>2, <1>3, <1>4, <1>5, <1>6, <1>7, <1>8 DEF Next, Server

\* What each step makes of the record it visits, and why it closes it.
LEMMA PollRecord ==
  ASSUME Sound, PollOne
  PROVE  /\ Head(todo) \in Open /\ NsPoll(Head(todo)) \in Record
         /\ NsPoll(Head(todo)).send = k[Head(todo)].send
         /\ k' = [k EXCEPT ![Head(todo)] = NsPoll(Head(todo))]
         /\ "CLOSE" \in NsPoll(Head(todo)).flags =>
              IF done THEN k[Head(todo)].send = <<>>
              ELSE "CLOSE" \in k[Head(todo)].flags
         /\ "FINISHED" \in NsPoll(Head(todo)).flags =>
              k[Head(todo)].send # <<>> \/ "FINISHED" \in k[Head(todo)].flags
<1> DEFINE c == Head(todo)
<1>1. c \in Open
  BY TailOfList DEF PollOne, Sound, Lists
<1>2. k' = [k EXCEPT ![c] = NsPoll(c)]
  BY DEF PollOne
<1> HIDE DEF c
<1>3. c \in Conns /\ k[c] \in Record /\ k[c] \in Busy /\ script[c].keep \in BOOLEAN
  BY <1>1, ScriptType DEF Sound, Records, Open, Record
<1>4. CASE done
  BY <1>1, <1>2, <1>3, <1>4, CloseLocalType DEF NsPoll, c
<1>5. CASE ~done
  BY <1>1, <1>2, <1>3, <1>5 DEF NsPoll, c
<1>6. QED
  BY <1>4, <1>5

LEMMA RecvRecord ==
  ASSUME Sound, RecvChunk
  PROVE  /\ Head(todo) \in Open
         /\ \E r \in Record :
              /\ k' = [k EXCEPT ![Head(todo)] = r]
              /\ \/ r.send = k[Head(todo)].send /\ r.flags = k[Head(todo)].flags
                 \/ r.send # <<>> /\ "CLOSE" \notin r.flags
<1> DEFINE c == Head(todo)
           r == Received(k[c], Head(inbox[c]))
<1>1. c \in Open
  BY TailOfList DEF RecvChunk, Sound, Lists
<1>2. inbox[c] # <<>> /\ OnRecvData(c, r)
  BY DEF RecvChunk
<1> HIDE DEF c
<1>3. c \in Conns /\ k[c] \in Record /\ script[c].keep \in BOOLEAN
      /\ Head(inbox[c]) \in Seq(Token)
  BY <1>1, <1>2, ScriptType, HeadTailProperties DEF Sound, Records, Network, Open
<1>4. r \in Busy /\ r.send = k[c].send /\ r.flags = k[c].flags
  BY <1>3, ReceivedType
<1> HIDE DEF r
<1>5. CASE r.hdr = "bad" \/ (r.hdr \in Enders /\ Buffered(r))
  <2>1. PICK a \in {send_http_error(r, script[c].keep),
                    call_request_handler(r, script[c].keep)} : k' = [k EXCEPT ![c] = a]
    BY <1>2, <1>5 DEF OnRecvData
  <2>2. QED
    BY <1>1, <1>3, <1>4, <2>1, AnswerType DEF c
<1>6. CASE ~(r.hdr = "bad" \/ (r.hdr \in Enders /\ Buffered(r)))
  <2>1. k' = [k EXCEPT ![c] = r]
    BY <1>2, <1>6 DEF OnRecvData
  <2>2. r \in Record
    BY <1>4, <1>6 DEF Record
  <2>3. QED
    BY <1>1, <1>4, <2>1, <2>2 DEF c
<1>7. QED
  BY <1>5, <1>6

LEMMA WriteRecord ==
  ASSUME Sound, WriteOne
  PROVE  /\ Head(todo) \in Open
         /\ \E r \in Record :
              /\ k' = [k EXCEPT ![Head(todo)] = r]
              /\ r.flags = k[Head(todo)].flags \cup ReadEnds(Head(todo))
              /\ r.send = IF wr THEN <<>> ELSE k[Head(todo)].send
              /\ r.hdr = k[Head(todo)].hdr /\ r.recv = k[Head(todo)].recv
              /\ r.got = k[Head(todo)].got
<1> DEFINE c == Head(todo)
           r == [k[c] EXCEPT !.flags = @ \cup ReadEnds(c),
                             !.send = IF wr THEN <<>> ELSE @]
<1>1. c \in Open
  BY TailOfList DEF WriteOne, Sound, Lists
<1> HIDE DEF c
<1>2. c \in Conns /\ k[c] \in Record
  BY <1>1 DEF Sound, Records, Open
<1>3. k' = [k EXCEPT ![c] = r]
  BY <1>2 DEF WriteOne, c, Sound, Records
<1>4. ReadEnds(c) \subseteq {"CLOSE", "FINISHED"} /\ <<>> \in Seq(Code)
  BY DEF ReadEnds
<1>5. r \in Record /\ r.flags = k[c].flags \cup ReadEnds(c)
      /\ r.send = IF wr THEN <<>> ELSE k[c].send
  BY <1>2, <1>4 DEF Record, Busy
<1>6. r.hdr = k[c].hdr /\ r.recv = k[c].recv /\ r.got = k[c].got
  <2>1. \A a \in Busy : \A f, s :
          LET b == [a EXCEPT !.flags = f, !.send = s]
          IN b.hdr = a.hdr /\ b.recv = a.recv /\ b.got = a.got
    BY DEF Busy
  <2>2. r = [k[c] EXCEPT !.flags = k[c].flags \cup ReadEnds(c),
                         !.send = IF wr THEN <<>> ELSE k[c].send]
    BY <1>2 DEF Record, Busy
  <2> HIDE DEF r
  <2>3. QED
    BY <1>2, <2>1, <2>2 DEF Record
<1> HIDE DEF r
<1>7. QED
  BY <1>1, <1>3, <1>5, <1>6 DEF c

LEMMA StepRecords ==
  ASSUME Sound, [Next]_vars
  PROVE  Records'
<1>1. CASE k' = k
  BY <1>1 DEF Sound, Records
<1>2. CASE PollOne
  BY <1>2, PollRecord DEF Sound, Records
<1>3. CASE RecvChunk
  BY <1>3, RecvRecord DEF Sound, Records
<1>4. CASE WriteOne
  BY <1>4, WriteRecord DEF Sound, Records
<1>5. CASE Accept
  BY <1>5, NewConnType DEF Accept, accept_conn, on_accept, Sound, Records
<1>6. ASSUME NEW c \in Conns, Connect(c) \/ Send(c) \/ Shut(c) \/ IdleTimeout(c)
      PROVE  Records'
  BY <1>1, <1>6 DEF Connect, Send, Shut, IdleTimeout
<1>7. CASE Start \/ LoopTop \/ Select \/ CloseOne \/ TurnEnds
  BY <1>1, <1>7 DEF Start, LoopTop, Select, CloseOne, TurnEnds
<1>8. CASE DestroyOne \/ DestroyEnds \/ Sigterm \/ Terminated \/ UNCHANGED vars
  BY <1>1, <1>8 DEF DestroyOne, DestroyEnds, Sigterm, Terminated, vars
<1>9. QED
  BY <1>2, <1>3, <1>4, <1>5, <1>6, <1>7, <1>8 DEF Next, Server

LEMMA StepDescriptors ==
  ASSUME Sound, [Next]_vars
  PROVE  Descriptors'
<1>1. CASE UNCHANGED <<phase, leaks>>
  BY <1>1 DEF Sound, Descriptors, Open
<1>2. ASSUME leaks' = leaks, Open' \subseteq Open PROVE Descriptors'
  <2>1. Open \subseteq Conns /\ IsFiniteSet(Open) /\ Cardinality(Open) \in Nat
    BY OpenIsFinite DEF Open
  <2>2. Cardinality(Open') <= Cardinality(Open) /\ Cardinality(Open') \in Nat
    BY <1>2, <2>1, FS_Subset, FS_CardinalityType
  <2>3. QED
    BY <1>2, <2>1, <2>2, FdsAssumption DEF Sound, Descriptors
<1>3. CASE PollOne \/ CloseOne \/ DestroyOne
  <2>1. PICK b \in BOOLEAN : CloseIf(Head(todo), b)
    BY <1>3 DEF PollOne, CloseOne, DestroyOne, CloseIf, Finished
  <2>2. todo # <<>> /\ todo' = Tail(todo) /\ backlog' = backlog /\ leaks' = leaks
    BY <1>3 DEF PollOne, CloseOne, DestroyOne
  <2>3. Open' \subseteq Open
    BY <2>1, <2>2, VisitOne DEF Sound
  <2>4. QED
    BY <1>2, <2>2, <2>3
<1>4. CASE Accept
  <2>1. CASE backlog # <<>> /\ FdFree
    <3> DEFINE c == Head(backlog)
    <3>1. phase' = [phase EXCEPT ![c] = "open"] /\ leaks' = leaks
      BY <1>4, <2>1 DEF Accept, accept_conn
    <3>2. c \in Conns /\ c \notin Open
      BY <2>1, TailOfList DEF Sound, Lists, Open
    <3> HIDE DEF c
    <3>3. Open' = Open \cup {c}
      BY <3>1, <3>2 DEF Sound, Lists, Open
    <3>4. IsFiniteSet(Open) /\ Cardinality(Open) \in Nat
      BY OpenIsFinite DEF Open
    <3>5. Cardinality(Open') = Cardinality(Open) + 1
      BY <3>2, <3>3, <3>4, FS_AddElement
    <3>6. QED
      BY <2>1, <3>1, <3>4, <3>5, FdsAssumption DEF Sound, Descriptors, FdFree
  <2>2. CASE ~(backlog # <<>> /\ FdFree)
    BY <1>1, <1>4, <2>2 DEF Accept
  <2>3. QED
    BY <2>1, <2>2
<1>5. CASE RecvChunk
  <2>1. PICK n \in {0, 1} : /\ phase' = phase /\ leaks' = leaks + n
                            /\ n = 1 => FdFree
    <3>1. phase' = phase /\ \E r : OnRecvData(Head(todo), r)
      BY <1>5 DEF RecvChunk
    <3>2. leaks \in Nat
      BY DEF Sound, Descriptors
    <3>3. leaks' = leaks \/ (leaks' = leaks + 1 /\ FdFree)
      BY <3>1, <3>2 DEF OnRecvData, request_handler
    <3>4. QED
      BY <3>1, <3>2, <3>3
  <2>2. Cardinality(Open) \in Nat /\ Open' = Open
    BY <2>1, OpenIsFinite DEF Open
  <2>3. QED
    BY <2>1, <2>2, FdsAssumption DEF Sound, Descriptors, FdFree
<1>6. ASSUME NEW c \in Conns, Connect(c) PROVE Descriptors'
  <2>1. Open' = Open /\ leaks' = leaks
    BY <1>6 DEF Connect, Open, Sound, Lists
  <2>2. QED
    BY <1>2, <2>1
<1>7. ASSUME NEW c \in Conns, Send(c) \/ Shut(c) \/ IdleTimeout(c) PROVE Descriptors'
  BY <1>1, <1>7 DEF Send, Shut, IdleTimeout
<1>8. CASE Start \/ LoopTop \/ Select \/ WriteOne \/ TurnEnds \/ DestroyEnds
  BY <1>1, <1>8 DEF Start, LoopTop, Select, WriteOne, TurnEnds, DestroyEnds
<1>9. CASE Sigterm \/ Terminated \/ UNCHANGED vars
  BY <1>1, <1>9 DEF Sigterm, Terminated, vars
<1>10. QED
  BY <1>3, <1>4, <1>5, <1>6, <1>7, <1>8, <1>9 DEF Next, Server

LEMMA StepSound == Sound /\ [Next]_vars => Sound'
BY StepControl, StepNetwork, StepLists, StepRecords, StepDescriptors DEF Sound

\* Every variable keeps its type: the active connections are exactly the open
\* ones, each once, and connections and pins never use more descriptors than
\* there are, for any clients and scripts (ns_add_conn, ns_remove_conn,
\* accept_conn).
THEOREM TypeCorrect == Spec => []TypeOK
<1>1. Sound => TypeOK
  <2> SUFFICES ASSUME Sound PROVE TypeOK
    OBVIOUS
  <2>1. next \in [Conns -> Nat]
    BY DEF Sound, Network
  <2>2. ASSUME NEW c \in Conns
        PROVE  /\ k[c].hdr \in {"none", "end", "endb"} /\ k[c].ep \in {"NONE", "USER"}
               /\ k[c].flags \subseteq {"CLOSE", "FINISHED"}
               /\ ToSet(k[c].send) \subseteq {"200", "400"}
    <3>1. k[c] \in Record
      BY DEF Sound, Records
    <3>2. k[c].send \in Seq(Code)
      BY <3>1 DEF Record, Busy
    <3>3. ToSet(k[c].send) \subseteq Code
      BY <3>2 DEF ToSet
    <3>4. QED
      BY <3>1, <3>3 DEF Record, Busy, Code
  <2>3. QED
    BY <2>1, <2>2 DEF TypeOK, Sound, Lists, ListOf, Control, Descriptors
<1>2. Init => Sound
  BY InitInv DEF HttpInv
<1>3. QED
  BY <1>1, <1>2, StepSound, PTL DEF Spec
-----------------------------------------------------------------------------
(***************************************************************************)
(* Why connections are closed.                                              *)
(***************************************************************************)
\* A connection that no step closes, has its record changed or is accepted.
LEMMA SameReasons ==
  ASSUME CloseReasons, NEW c \in Open, k'[c] = k[c],
         idle'[c] => idle[c] \/ k[c].send = <<>>, fin[c] => fin'[c],
         replies'[c] = replies[c]
  PROVE  /\ idle'[c] => k'[c].send = <<>>
         /\ "CLOSE" \in k'[c].flags => fin'[c]
         /\ "FINISHED" \in k'[c].flags => k'[c].send # <<>> \/ replies'[c] # <<>>
BY DEF CloseReasons

LEMMA StepReasons == HttpInv /\ [Next]_vars => CloseReasons'
<1> SUFFICES ASSUME Sound, CloseReasons, [Next]_vars PROVE CloseReasons'
  BY DEF HttpInv
<1>1. CASE UNCHANGED <<k, idle, fin, replies>> /\ Open' \subseteq Open
  BY <1>1 DEF CloseReasons
<1>2. ASSUME NEW c \in Conns, Connect(c) PROVE CloseReasons'
  <2>1. Open' = Open
    BY <1>2 DEF Connect, Open, Sound, Lists
  <2>2. QED
    BY <1>1, <1>2, <2>1 DEF Connect, CloseReasons
<1>3. ASSUME NEW c \in Conns, Send(c) \/ Shut(c) \/ IdleTimeout(c) PROVE CloseReasons'
  <2>1. Open' = Open /\ pc' = pc /\ final' = final /\ k' = k /\ replies' = replies
    BY <1>3 DEF Send, Shut, IdleTimeout, Open
  <2>2. \A d \in Open : (idle'[d] => idle[d] \/ k[d].send = <<>>) /\ (fin[d] => fin'[d])
    BY <1>3 DEF Send, Shut, IdleTimeout, Open, Sound, Network
  <2>3. QED
    BY <2>1, <2>2 DEF CloseReasons
<1>4. CASE Start \/ LoopTop \/ Select \/ TurnEnds \/ DestroyEnds \/ Sigterm
           \/ Terminated \/ UNCHANGED vars
  <2>1. UNCHANGED <<k, idle, fin, replies>> /\ Open' = Open
    BY <1>4 DEF Start, LoopTop, Select, TurnEnds, DestroyEnds, Sigterm, Terminated,
       vars, Open
  <2>2. QED
    BY <1>1, <2>1
<1>5. CASE CloseOne \/ DestroyOne
  <2>1. PICK b \in BOOLEAN : CloseIf(Head(todo), b)
    BY <1>5 DEF CloseOne, DestroyOne, CloseIf, Finished
  <2>2. Open' \subseteq Open
    BY <1>5, <2>1, VisitOne DEF CloseOne, DestroyOne, Sound
  <2>3. QED
    BY <1>1, <1>5, <2>2 DEF CloseOne, DestroyOne, CloseReasons
<1>6. CASE PollOne
  <2> DEFINE c == Head(todo)
             r == NsPoll(c)
             cl == idle[c] \/ "CLOSE" \in r.flags
  <2>1. CloseIf(c, cl) /\ cl \in BOOLEAN
        /\ UNCHANGED <<idle, fin, replies, pc, final>>
        /\ todo # <<>> /\ todo' = Tail(todo) /\ backlog' = backlog
    BY <1>6 DEF PollOne
  <2>2. c \in Open /\ r.send = k[c].send /\ k' = [k EXCEPT ![c] = r]
        /\ ("FINISHED" \in r.flags => k[c].send # <<>> \/ "FINISHED" \in k[c].flags)
    BY <1>6, PollRecord
  <2> HIDE DEF c, r
  <2>3. Open' = IF cl THEN Open \ {c} ELSE Open
    <3> HIDE DEF cl
    <3>1. QED
      BY <2>1, VisitOne DEF Sound, c
  <2>4. ASSUME NEW d \in Open'
        PROVE  /\ idle'[d] => k'[d].send = <<>>
               /\ "CLOSE" \in k'[d].flags => fin'[d]
               /\ "FINISHED" \in k'[d].flags => k'[d].send # <<>> \/ replies'[d] # <<>>
    <3>1. CASE d # c
      <4>1. k'[d] = k[d] /\ d \in Open
        BY <2>2, <2>3, <3>1 DEF Sound, Records
      <4>2. QED
        BY <2>1, <4>1, SameReasons
    <3>2. CASE d = c
      <4>1. ~cl /\ k'[c] = r
        BY <2>2, <2>3, <3>2 DEF Sound, Records, Open
      <4>2. QED
        BY <2>1, <2>2, <3>2, <4>1 DEF CloseReasons
    <3>3. QED
      BY <3>1, <3>2
  <2>5. QED
    BY <2>1, <2>4 DEF CloseReasons
<1>7. CASE RecvChunk
  <2> DEFINE c == Head(todo)
  <2>1. idle' = [idle EXCEPT ![c] = FALSE] /\ Open' = Open
        /\ UNCHANGED <<fin, replies, pc, final>>
    BY <1>7 DEF RecvChunk, Open
  <2>2. PICK r \in Record :
          /\ c \in Open /\ k' = [k EXCEPT ![c] = r]
          /\ \/ r.send = k[c].send /\ r.flags = k[c].flags
             \/ r.send # <<>> /\ "CLOSE" \notin r.flags
    BY <1>7, RecvRecord
  <2> HIDE DEF c
  <2>3. c \in Conns /\ k'[c] = r /\ ~idle'[c]
    BY <2>1, <2>2 DEF Open, Sound, Records, Network
  <2>4. ASSUME NEW d \in Open, d # c
        PROVE  k'[d] = k[d] /\ idle'[d] = idle[d]
    BY <2>1, <2>2, <2>4 DEF Open, Sound, Records, Network
  <2>5. QED
    BY <2>1, <2>2, <2>3, <2>4 DEF CloseReasons
<1>8. CASE WriteOne
  <2> DEFINE c == Head(todo)
  <2>1. /\ idle' = [idle EXCEPT ![c] = @ /\ ~fin[c] /\ ~wr] /\ Open' = Open
        /\ replies' = IF wr THEN [replies EXCEPT ![c] = @ \o k[c].send] ELSE replies
        /\ UNCHANGED <<fin, pc, final>>
    BY <1>8 DEF WriteOne, ns_write_to_socket, Open
  <2>2. PICK r \in Record :
          /\ c \in Open /\ k' = [k EXCEPT ![c] = r]
          /\ r.flags = k[c].flags \cup ReadEnds(c)
          /\ r.send = IF wr THEN <<>> ELSE k[c].send
    BY <1>8, WriteRecord
  <2> HIDE DEF c
  <2>3. c \in Conns /\ k'[c] = r /\ (idle'[c] => idle[c])
    BY <2>1, <2>2 DEF Open, Sound, Records, Network
  <2>4. k[c].send # <<>> \/ replies[c] # <<>> => r.send # <<>> \/ replies'[c] # <<>>
    <3>1. CASE wr
      <4>1. replies'[c] = replies[c] \o k[c].send
        BY <2>1, <2>3, <3>1 DEF Sound, Network
      <4>2. replies[c] \in Seq(Code) /\ k[c].send \in Seq(Code)
        BY <2>3 DEF Sound, Network, Records, Record, Busy
      <4>3. QED
        BY <4>1, <4>2, ConcatEqualIffEmpty
    <3>2. CASE ~wr
      BY <2>1, <2>2, <3>2
    <3>3. QED
      BY <3>1, <3>2
  <2>5. "CLOSE" \in r.flags => fin[c]
    BY <2>2 DEF CloseReasons, ReadEnds
  <2>6. "FINISHED" \in r.flags => "FINISHED" \in k[c].flags
    BY <2>2 DEF ReadEnds
  <2>7. idle'[c] => r.send = <<>>
    BY <2>2, <2>3 DEF CloseReasons
  <2>8. ASSUME NEW d \in Open, d # c
        PROVE  k'[d] = k[d] /\ idle'[d] = idle[d] /\ replies'[d] = replies[d]
    BY <2>1, <2>2, <2>8 DEF Open, Sound, Records, Network
  <2>9. QED
    BY <2>1, <2>2, <2>3, <2>4, <2>5, <2>6, <2>7, <2>8 DEF CloseReasons
<1>9. CASE Accept
  <2>1. CASE backlog # <<>> /\ FdFree
    <3> DEFINE c == Head(backlog)
    <3>1. /\ phase' = [phase EXCEPT ![c] = "open"] /\ k' = [k EXCEPT ![c] = NewConn]
          /\ UNCHANGED <<idle, fin, replies, final>> /\ pc' = "close"
      BY <1>9, <2>1 DEF Accept, accept_conn, on_accept
    <3> HIDE DEF c
    <3>2. \A d \in Open' : (d = c /\ k'[d] = NewConn) \/ (d \in Open /\ k'[d] = k[d])
      BY <3>1 DEF Open, Sound, Lists, Records
    <3>3. QED
      BY <3>1, <3>2 DEF CloseReasons, NewConn
  <2>2. CASE ~(backlog # <<>> /\ FdFree)
    BY <1>1, <1>9, <2>2 DEF Accept, Open
  <2>3. QED
    BY <2>1, <2>2
<1>10. QED
  BY <1>2, <1>3, <1>4, <1>5, <1>6, <1>7, <1>8, <1>9 DEF Next, Server

LEMMA StepInv == HttpInv /\ [Next]_vars => HttpInv'
BY StepSound, StepReasons DEF HttpInv

\* Only the three passes close a connection, each for its own reason.
LEMMA WhyClosed ==
  ASSUME HttpInv, Next, NEW c \in Conns, phase[c] = "open", phase'[c] = "closed"
  PROVE  \/ fin[c] \/ final
         \/ idle[c] /\ k[c].send = <<>>
         \/ done /\ ~done' /\ k[c].send = <<>>
         \/ k[c].send = <<>> /\ replies[c] # <<>>
<1>1. c \in Open /\ Sound /\ CloseReasons
  BY DEF Open, HttpInv
<1>2. CASE PollOne
  <2> DEFINE h == Head(todo)
             r == NsPoll(h)
             cl == idle[h] \/ "CLOSE" \in r.flags
  <2>1. CloseIf(h, cl) /\ ~done'
    BY <1>2 DEF PollOne
  <2>2. h \in Open /\ ("CLOSE" \in r.flags => IF done THEN k[h].send = <<>>
                                              ELSE "CLOSE" \in k[h].flags)
    BY <1>1, <1>2, PollRecord
  <2> HIDE DEF h, r
  <2>3. c = h /\ cl
    BY <1>1, <2>1 DEF CloseIf, ns_close_conn, Sound, Lists
  <2>4. QED
    BY <1>1, <2>1, <2>2, <2>3 DEF CloseReasons
<1>3. CASE CloseOne
  <2>1. c = Head(todo) /\ Finished(c)
    BY <1>1, <1>3 DEF CloseOne, CloseIf, ns_close_conn, Sound, Lists
  <2>2. QED
    BY <1>1, <2>1 DEF Finished, CloseReasons
<1>4. CASE DestroyOne
  BY <1>1, <1>4 DEF DestroyOne, Sound, Control
<1>5. CASE Accept
  BY <1>1, <1>5 DEF Accept, accept_conn, Sound, Lists
<1>6. ASSUME NEW d \in Conns, Connect(d) PROVE FALSE
  BY <1>1, <1>6 DEF Connect, Sound, Lists
<1>7. ASSUME NEW d \in Conns, Send(d) \/ Shut(d) \/ IdleTimeout(d) PROVE FALSE
  BY <1>7 DEF Send, Shut, IdleTimeout
<1>8. CASE Start \/ LoopTop \/ Select \/ RecvChunk \/ WriteOne \/ TurnEnds
           \/ DestroyEnds \/ Sigterm \/ Terminated
  BY <1>8 DEF Start, LoopTop, Select, RecvChunk, WriteOne, TurnEnds, DestroyEnds,
     Sigterm, Terminated, vars
<1>9. QED
  BY <1>2, <1>3, <1>4, <1>5, <1>6, <1>7, <1>8 DEF Next, Server

\* A reply that was queued is written before its connection is closed, unless
\* the client closed its side or the server is terminating, for any number of
\* clients and whatever pieces their requests come in (ns_mgr_poll,
\* close_local_endpoint).
THEOREM AlwaysReplyBeforeClose == Spec => ReplyBeforeClose
<1>1. HttpInv /\ [Next]_vars =>
        [\A c \in Conns : phase[c] = "open" /\ phase'[c] = "closed" /\ k[c].send # <<>>
           => fin[c] \/ final]_vars
  BY WhyClosed
<1>2. QED
  BY InitInv, StepInv, <1>1, PTL DEF Spec, ReplyBeforeClose

\* A connection that waits for its first reply is closed by its client, the
\* idle timeout, the end of the server, or as the one connection that uses up
\* DoneFlag (event_handler, MG_POLL).
THEOREM AlwaysCutUsesTheFlag == Spec => CutUsesTheFlag
<1>1. HttpInv /\ [Next]_vars =>
        [\A c \in Conns :
          (/\ phase[c] = "open" /\ phase'[c] = "closed"
           /\ replies[c] = <<>> /\ k[c].send = <<>>
           /\ inbox[c] # <<>> \/ k[c].recv # <<>> \/ k[c].hdr # "none")
            => fin[c] \/ idle[c] \/ final \/ (done /\ ~done')]_vars
  BY WhyClosed
<1>2. QED
  BY InitInv, StepInv, <1>1, PTL DEF Spec, CutUsesTheFlag

-----------------------------------------------------------------------------
(***************************************************************************)
(* Counting in sequences, and sequences of chunks as one stream.            *)
(***************************************************************************)
LEMMA InductionUpTo ==
  ASSUME NEW n \in Nat, NEW S, 0 \in S,
         \A m \in Nat : m < n /\ m \in S => m + 1 \in S
  PROVE  \A m \in 0..n : m \in S
<1> DEFINE Bad == {m \in Nat : m <= n /\ m \notin S}
<1>1. SUFFICES ASSUME Bad # {} PROVE FALSE
  OBVIOUS
<1>2. PICK m \in Bad : \A y \in Bad : m <= y
  <2>1. Bad \subseteq Nat
    OBVIOUS
  <2> HIDE DEF Bad
  <2>2. QED
    BY <1>1, <2>1, LeastIsOne
<1>3. m # 0 /\ m - 1 \in Nat /\ m - 1 < n /\ (m - 1) + 1 = m /\ m - 1 \notin Bad
  BY <1>2
<1>4. QED
  BY <1>3

LEMMA ConcatAssociates ==
  \A p, q, r \in Seq(Token) : (p \o q) \o r = p \o (q \o r)
<1> SUFFICES ASSUME NEW p \in Seq(Token), NEW q \in Seq(Token), NEW r \in Seq(Token)
             PROVE  (p \o q) \o r = p \o (q \o r)
  OBVIOUS
<1>1. QED
  BY ConcatAssociative

LEMMA CountIsFinite ==
  ASSUME NEW T, NEW q \in Seq(T), NEW S
  PROVE  /\ IsFiniteSet({i \in DOMAIN q : q[i] \in S}) /\ Count(q, S) \in Nat
         /\ (\E i \in DOMAIN q : q[i] \in S) => Count(q, S) >= 1
         /\ (\A i \in DOMAIN q : q[i] \notin S) => Count(q, S) = 0
<1> DEFINE A == {i \in DOMAIN q : q[i] \in S}
<1>1. DOMAIN q = 1..Len(q) /\ Len(q) \in Nat
  OBVIOUS
<1>2. IsFiniteSet(1..Len(q)) /\ A \in SUBSET (1..Len(q))
  BY <1>1, FS_Interval
<1> HIDE DEF A
<1>3. IsFiniteSet(A)
  BY <1>2, FS_Subset
<1>4. Cardinality(A) \in Nat /\ (Cardinality(A) = 0 <=> A = {})
  BY <1>3, FS_CardinalityType, FS_EmptySet
<1>5. QED
  BY <1>3, <1>4 DEF Count, A

LEMMA CountJoined ==
  ASSUME NEW T, NEW q \in Seq(T), NEW r \in Seq(T), NEW S
  PROVE  Count(q \o r, S) = Count(q, S) + Count(r, S)
<1> DEFINE s == q \o r
           m == Len(q)
           A == {i \in DOMAIN q : q[i] \in S}
           B == {i \in DOMAIN r : r[i] \in S}
           C == {i \in (m + 1)..(m + Len(r)) : r[i - m] \in S}
           f == [i \in B |-> i + m]
<1>1. /\ DOMAIN q = 1..m /\ m \in Nat /\ DOMAIN r = 1..Len(r) /\ Len(r) \in Nat
      /\ DOMAIN s = 1..(m + Len(r))
      /\ \A i \in 1..(m + Len(r)) : s[i] = IF i \in 1..m THEN q[i] ELSE r[i - m]
  OBVIOUS
<1>2. {i \in DOMAIN s : s[i] \in S} = A \cup C
  <2> HIDE DEF s
  <2>1. ASSUME NEW i \in 1..m PROVE i \in 1..(m + Len(r)) /\ s[i] = q[i]
    BY <1>1
  <2>2. ASSUME NEW i \in (m + 1)..(m + Len(r))
        PROVE  i \in 1..(m + Len(r)) /\ s[i] = r[i - m]
    BY <1>1
  <2>3. \A i \in 1..(m + Len(r)) : i \in 1..m \/ i \in (m + 1)..(m + Len(r))
    BY <1>1
  <2>4. QED
    BY <1>1, <2>1, <2>2, <2>3
<1>3. IsFiniteSet(A) /\ IsFiniteSet(B)
  BY CountIsFinite
<1>4. f \in Bijection(B, C)
  <2>1. \A i \in B : i + m \in C
    BY <1>1
  <2>2. \A j \in C : j - m \in B /\ (j - m) + m = j
    BY <1>1
  <2>3. \A i, j \in B : i + m = j + m => i = j
    BY <1>1
  <2>4. /\ \A i \in B : f[i] = i + m /\ f[i] \in C
        /\ \A i, j \in B : f[i] = f[j] => i = j
        /\ \A j \in C : \E i \in B : f[i] = j
    <3>1. \A i \in B : f[i] = i + m
      OBVIOUS
    <3> HIDE DEF f, B, C
    <3>2. QED
      BY <2>1, <2>2, <2>3, <3>1
  <2>5. f \in [B -> C]
    <3> HIDE DEF B, C
    <3>1. f = [i \in B |-> f[i]]
      OBVIOUS
    <3> HIDE DEF f
    <3>2. QED
      BY <2>4, <3>1
  <2> HIDE DEF B, C, f
  <2>6. QED
    BY <2>4, <2>5 DEF Bijection, Injection, Surjection, IsInjective
<1> HIDE DEF f
<1>5. IsFiniteSet(C) /\ Cardinality(C) = Cardinality(B)
  <2> HIDE DEF B, C
  <2>1. f \in Surjection(B, C) /\ f \in Injection(B, C)
    BY <1>4 DEF Bijection
  <2>2. QED
    BY <1>3, <2>1, FS_Surjection
<1>6. A \cap C = {}
  BY <1>1
<1>7. Cardinality(A \cup C) = Cardinality(A) + Cardinality(C)
  <2> HIDE DEF A, C
  <2>1. Cardinality(A \cap C) = 0
    BY <1>6, FS_EmptySet
  <2>2. Cardinality(A) \in Nat /\ Cardinality(C) \in Nat
    BY <1>3, <1>5, FS_CardinalityType
  <2>3. Cardinality(A \cup C) = Cardinality(A) + Cardinality(C) - Cardinality(A \cap C)
    BY <1>3, <1>5, FS_Union
  <2>4. QED
    BY <2>1, <2>2, <2>3
<1>8. QED
  BY <1>2, <1>5, <1>7 DEF Count

LEMMA CountAppended ==
  ASSUME NEW T, NEW q \in Seq(T), NEW e \in T, NEW S
  PROVE  Count(Append(q, e), S) = Count(q, S) + IF e \in S THEN 1 ELSE 0
<1> DEFINE s == <<e>>
<1>1. s \in Seq(T) /\ DOMAIN s = {1} /\ s[1] = e /\ Append(q, e) = q \o s
  OBVIOUS
<1> HIDE DEF s
<1>2. Count(s, S) = IF e \in S THEN 1 ELSE 0
  <2>1. {i \in DOMAIN s : s[i] \in S} = IF e \in S THEN {1} ELSE {}
    BY <1>1
  <2>2. Cardinality({1}) = 1 /\ Cardinality({}) = 0
    BY FS_EmptySet, FS_Singleton
  <2>3. QED
    BY <2>1, <2>2 DEF Count
<1>3. QED
  BY <1>1, <1>2, CountJoined

\* What FlattenSeq is defined by: the stream up to each chunk.
Flattens(f, s) ==
  \A i \in 1..Len(s) : f[i] = IF i = 1 THEN s[i] ELSE f[i - 1] \o s[i]

LEMMA FlattenFunction ==
  ASSUME NEW T, NEW s \in Seq(T)
  PROVE  \E f : Flattens(f, s) /\ (Len(s) > 0 => FlattenSeq(s) = f[Len(s)])
<1> DEFINE N == Len(s)
           Body(f, n) == [i \in 1..n |-> IF i = 1 THEN s[i] ELSE f[i - 1] \o s[i]]
           Good == {n \in Nat : \E f : f = Body(f, n)}
<1>1. N \in Nat
  OBVIOUS
<1>2. 0 \in Good
  <2> DEFINE f == [i \in 1..0 |-> s[i]]
  <2>1. f = Body(f, 0)
    OBVIOUS
  <2>2. QED
    BY <2>1
<1>3. ASSUME NEW n \in Nat, n \in Good PROVE n + 1 \in Good
  <2>1. PICK g : g = Body(g, n)
    BY <1>3
  <2> DEFINE last == IF n = 0 THEN s[n + 1] ELSE g[n] \o s[n + 1]
             f == [i \in 1..(n + 1) |-> IF i = n + 1 THEN last ELSE g[i]]
  <2>2. ASSUME NEW i \in 1..(n + 1)
        PROVE  f[i] = IF i = 1 THEN s[i] ELSE f[i - 1] \o s[i]
    <3>1. CASE i = n + 1 /\ n = 0
      BY <3>1
    <3>2. CASE i = n + 1 /\ n # 0
      <4>1. last = g[n] \o s[i]
        BY <3>2
      <4>2. i - 1 = n /\ n \in 1..(n + 1) /\ n # n + 1 /\ i # 1
        BY <3>2
      <4> HIDE DEF last
      <4>3. f[i] = last /\ f[i - 1] = g[n]
        BY <3>2, <4>2
      <4>4. QED
        BY <4>1, <4>2, <4>3
    <3>3. CASE i \in 1..n
      <4>1. f[i] = g[i] /\ (i # 1 => f[i - 1] = g[i - 1])
        BY <3>3
      <4>2. g[i] = IF i = 1 THEN s[i] ELSE g[i - 1] \o s[i]
        BY <2>1, <3>3
      <4>3. QED
        BY <4>1, <4>2
    <3>4. QED
      BY <3>1, <3>2, <3>3
  <2>3. f = Body(f, n + 1)
    BY <2>2
  <2> HIDE DEF f
  <2>4. \E h : h = Body(h, n + 1)
    BY <2>3
  <2>5. n + 1 \in Nat
    OBVIOUS
  <2>6. QED
    BY <2>4, <2>5
<1>4. N \in Good
  <2>1. \A m \in Nat : m < N /\ m \in Good => m + 1 \in Good
    BY <1>3
  <2> HIDE DEF Good, N
  <2>2. \A m \in 0..N : m \in Good
    BY <1>1, <1>2, <2>1, InductionUpTo
  <2>3. QED
    BY <1>1, <2>2
<1> DEFINE k1 == CHOOSE f : f = Body(f, N)
<1>5. k1 = Body(k1, N)
  BY <1>4
<1>6. N > 0 => FlattenSeq(s) = k1[N]
  BY DEF FlattenSeq
<1> HIDE DEF k1
<1>7. \A i \in 1..N : k1[i] = IF i = 1 THEN s[i] ELSE k1[i - 1] \o s[i]
  BY <1>5
<1>8. QED
  BY <1>6, <1>7 DEF Flattens

\* A chunk more is so much more of the stream.
LEMMA FlattenAppended ==
  ASSUME NEW T, NEW s \in Seq(Seq(T)), NEW x \in Seq(T)
  PROVE  /\ FlattenSeq(s) \in Seq(T) => FlattenSeq(Append(s, x)) \in Seq(T)
         /\ FlattenSeq(Append(s, x)) = FlattenSeq(s) \o x
<1> DEFINE t == Append(s, x)
           N == Len(s)
<1>1. /\ N \in Nat /\ Len(t) = N + 1 /\ t \in Seq(Seq(T)) /\ t[N + 1] = x
      /\ \A i \in 1..N : t[i] = s[i] /\ s[i] \in Seq(T)
  OBVIOUS
<1> HIDE DEF t
<1>2. PICK f : Flattens(f, s) /\ (N > 0 => FlattenSeq(s) = f[N])
  BY FlattenFunction
<1>3. PICK g : Flattens(g, t) /\ FlattenSeq(t) = g[N + 1]
  <2>1. \E g : Flattens(g, t) /\ (Len(t) > 0 => FlattenSeq(t) = g[Len(t)])
    BY <1>1, FlattenFunction
  <2>2. QED
    BY <1>1, <2>1
<1>4. CASE N = 0
  <2>1. s = <<>> /\ FlattenSeq(s) = <<>>
    BY <1>4 DEF FlattenSeq
  <2>2. g[1] = x
    BY <1>1, <1>3, <1>4 DEF Flattens
  <2>3. <<>> \o x = x
    OBVIOUS
  <2>4. QED
    BY <1>3, <1>4, <2>1, <2>2, <2>3 DEF t
<1>5. CASE N > 0
  <2> DEFINE Good == {m \in Nat : m \in 1..N => f[m] = g[m]}
  <2>1. 0 \in Good
    OBVIOUS
  <2>2. ASSUME NEW m \in Nat, m < N, m \in Good PROVE m + 1 \in Good
    <3>1. /\ f[m + 1] = IF m = 0 THEN s[m + 1] ELSE f[m] \o s[m + 1]
          /\ g[m + 1] = IF m = 0 THEN t[m + 1] ELSE g[m] \o t[m + 1]
      <4>1. m + 1 \in 1..Len(s) /\ m + 1 \in 1..Len(t) /\ (m + 1) - 1 = m
            /\ (m + 1 = 1 <=> m = 0)
        BY <1>1, <2>2
      <4>2. /\ f[m + 1] = IF m + 1 = 1 THEN s[m + 1] ELSE f[(m + 1) - 1] \o s[m + 1]
            /\ g[m + 1] = IF m + 1 = 1 THEN t[m + 1] ELSE g[(m + 1) - 1] \o t[m + 1]
        BY <1>2, <1>3, <4>1 DEF Flattens
      <4>3. QED
        BY <4>1, <4>2
    <3>2. t[m + 1] = s[m + 1] /\ (m # 0 => f[m] = g[m])
      <4>1. m + 1 \in 1..N /\ (m # 0 => m \in 1..N)
        BY <1>1, <2>2
      <4>2. QED
        BY <1>1, <2>2, <4>1
    <3>3. QED
      BY <3>1, <3>2
  <2>3. \A m \in 0..N : m \in Good
    <3> HIDE DEF Good, N
    <3>1. QED
      BY <1>1, <2>1, <2>2, InductionUpTo
  <2>4. f[N] = g[N]
    BY <1>1, <1>5, <2>3
  <2>5. g[N + 1] = g[N] \o x
    <3>1. N + 1 \in 1..Len(t) /\ N + 1 # 1 /\ (N + 1) - 1 = N
      BY <1>1, <1>5
    <3>2. QED
      BY <1>1, <1>3, <3>1 DEF Flattens
  <2>6. FlattenSeq(t) = FlattenSeq(s) \o x
    BY <1>2, <1>3, <1>5, <2>4, <2>5
  <2>7. QED
    BY <2>6 DEF t
<1>6. QED
  BY <1>1, <1>4, <1>5

-----------------------------------------------------------------------------
(***************************************************************************)
(* Accounts: what a connection's replies are for.                           *)
(***************************************************************************)
Marks == Enders \cup {"junk"}
Bodies == {"end", "body"}

BodyFollows(S) == \A i \in 1..(Len(S) - 1) : S[i] = "endb" => S[i + 1] = "body"

\* Of the stream S that the server has taken from a connection, the receive
\* buffer is the end; what is in front of it pays for all replies so far, and
\* for the request that has been parsed.
Account(all, r, S, P) ==
  /\ S = P \o r.recv
  /\ Count(all, Code) + (IF r.hdr = "none" THEN 0 ELSE 1) <= Count(P, Marks)
  /\ Count(all, {"200"}) + (IF r.hdr = "end" THEN 1 ELSE 0) <= Count(P, Bodies)
  /\ r.hdr = "none" => r.got = Len(r.recv)
  /\ r.hdr = "endb" => r.got = 2 + Len(r.recv) /\ P # <<>> /\ P[Len(P)] = "endb"

Accounted(all, r, S) == \E P \in Seq(Token) : Account(all, r, S, P)

Covered(all, S, n) ==
  Count(all, Code) + n <= Count(S, Marks) /\ Count(all, {"200"}) + n <= Count(S, Bodies)

LEMMA AccountCovers ==
  ASSUME NEW all \in Seq(Code), NEW r \in Record, NEW S, Accounted(all, r, S)
  PROVE  Covered(all, S, 0) /\ S \in Seq(Token)
<1>1. PICK P \in Seq(Token) : Account(all, r, S, P)
  BY DEF Accounted
<1>2. r.recv \in Seq(Token) /\ S = P \o r.recv /\ S \in Seq(Token)
  BY <1>1, ConcatProperties DEF Account, Record, Busy
<1>3. /\ Count(S, Marks) = Count(P, Marks) + Count(r.recv, Marks)
      /\ Count(S, Bodies) = Count(P, Bodies) + Count(r.recv, Bodies)
  BY <1>2, CountJoined
<1>4. /\ Count(P, Marks) \in Nat /\ Count(P, Bodies) \in Nat
      /\ Count(r.recv, Marks) \in Nat /\ Count(r.recv, Bodies) \in Nat
      /\ Count(all, Code) \in Nat /\ Count(all, {"200"}) \in Nat
  BY <1>2, CountIsFinite
<1>5. QED
  BY <1>1, <1>2, <1>3, <1>4 DEF Account, Covered

\* A request that is answered pays for its reply: it ended, or it has a body
\* of which something has arrived.
LEMMA RequestPays ==
  ASSUME NEW all \in Seq(Code), NEW r \in Record, NEW S, Accounted(all, r, S),
         BodyFollows(S), r.hdr \in Enders, Buffered(r)
  PROVE  Covered(all, S, 1)
<1>1. PICK P \in Seq(Token) : Account(all, r, S, P)
  BY DEF Accounted
<1>2. r.recv \in Seq(Token) /\ S = P \o r.recv /\ S \in Seq(Token)
  BY <1>1, ConcatProperties DEF Account, Record, Busy
<1>3. /\ Count(S, Marks) = Count(P, Marks) + Count(r.recv, Marks)
      /\ Count(S, Bodies) = Count(P, Bodies) + Count(r.recv, Bodies)
  BY <1>2, CountJoined
<1>4. /\ Count(P, Marks) \in Nat /\ Count(P, Bodies) \in Nat
      /\ Count(r.recv, Marks) \in Nat /\ Count(r.recv, Bodies) \in Nat
      /\ Count(all, Code) \in Nat /\ Count(all, {"200"}) \in Nat
  BY <1>2, CountIsFinite
<1>5. CASE r.hdr = "end"
  BY <1>1, <1>3, <1>4, <1>5 DEF Account, Covered
<1>6. CASE r.hdr = "endb"
  <2>1. Len(r.recv) >= 1 /\ Len(P) >= 1 /\ Len(P) \in Nat /\ Len(r.recv) \in Nat
        /\ P[Len(P)] = "endb" /\ DOMAIN r.recv = 1..Len(r.recv)
    <3>1. r.got >= 3 /\ r.got = 2 + Len(r.recv) /\ P # <<>> /\ P[Len(P)] = "endb"
      BY <1>1, <1>6 DEF Account, Buffered
    <3>2. QED
      BY <1>2, <3>1
  <2>2. S[Len(P)] = "endb" /\ S[Len(P) + 1] = r.recv[1] /\ Len(S) = Len(P) + Len(r.recv)
    BY <1>2, <2>1, ConcatProperties
  <2>3. r.recv[1] = "body"
    BY <2>1, <2>2 DEF BodyFollows
  <2>4. Count(r.recv, Bodies) >= 1
    <3>1. 1 \in DOMAIN r.recv /\ r.recv[1] \in Bodies
      BY <2>1, <2>3 DEF Bodies
    <3>2. \E i \in DOMAIN r.recv : r.recv[i] \in Bodies
      BY <3>1
    <3>3. QED
      BY <1>2, <3>2, CountIsFinite
  <2>5. QED
    BY <1>1, <1>3, <1>4, <1>6, <2>4 DEF Account, Covered
<1>7. QED
  BY <1>5, <1>6 DEF Enders

\* After a reply, or a close without one, nothing is left of the request.
LEMMA CloseLocalResets ==
  ASSUME NEW r \in Busy, NEW ka
  PROVE  LET a == CloseLocal(r, ka)
         IN a.hdr = "none" /\ a.recv = <<>> /\ a.got = 0 /\ a.send = r.send
BY DEF CloseLocal, Busy

LEMMA Settles ==
  ASSUME NEW all \in Seq(Code), NEW S \in Seq(Token), Covered(all, S, 0),
         NEW r, r.hdr = "none", r.recv = <<>>, r.got = 0
  PROVE  Accounted(all, r, S)
<1>1. S \o <<>> = S /\ Len(<<>>) = 0
  OBVIOUS
<1>2. Count(all, Code) \in Nat /\ Count(all, {"200"}) \in Nat
  BY CountIsFinite
<1>3. Account(all, r, S, S)
  BY <1>1, <1>2 DEF Account, Covered
<1>4. QED
  BY <1>3 DEF Accounted

\* What has become of a record r that took a chunk, and has Q in its buffer now.
TookChunk(r, r1, Q, chunk) ==
  LET n == RequestLen(Q)
  IN /\ r1.got = r.got + Len(chunk)
     /\ r.hdr # "none" \/ n = 0 => r1.hdr = r.hdr /\ r1.recv = Q
     /\ r.hdr = "none" /\ n > 0 =>
          /\ r1.hdr = parse_http_message(SubSeq(Q, 1, n))
          /\ r1.recv = SubSeq(Q, n + 1, Len(Q))
     /\ r.hdr = "none" /\ n < 0 => r1.hdr = "bad" /\ r1.recv = Q

LEMMA ReceivedFields ==
  ASSUME NEW r \in Record, NEW chunk \in Seq(Token), NEW Q, Q = r.recv \o chunk
  PROVE  TookChunk(r, Received(r, chunk), Q, chunk)
<1> DEFINE got == r.got + Len(chunk)
           r0 == [r EXCEPT !.recv = @ \o chunk, !.got = @ + Len(chunk)]
           t == TryParse(r0)
           r1 == Received(r, chunk)
           n == RequestLen(Q)
           kind == parse_http_message(SubSeq(Q, 1, n))
           rest == SubSeq(Q, n + 1, Len(Q))
<1>1. r0 \in Busy /\ r0.hdr = r.hdr /\ r0.recv = Q /\ r0.got = got /\ r.hdr # "bad"
  <2>1. Q \in Seq(Token) /\ got \in Nat
    BY ConcatProperties DEF Record, Busy
  <2>2. r0 = [r EXCEPT !.recv = Q, !.got = got]
    OBVIOUS
  <2> HIDE DEF got, r0
  <2>3. QED
    BY <2>1, <2>2 DEF Record, Busy
<1>2. r1 = t \/ r1 = open_local_endpoint(t)
  BY DEF Received
<1> HIDE DEF r0, r1
<1>3. t = r0 \/ t = [r0 EXCEPT !.hdr = kind, !.recv = rest] \/ t = [r0 EXCEPT !.hdr = "bad"]
  BY <1>1 DEF TryParse
<1>4. /\ r.hdr # "none" \/ n = 0 => t = r0
      /\ r.hdr = "none" /\ n > 0 => t = [r0 EXCEPT !.hdr = kind, !.recv = rest]
      /\ r.hdr = "none" /\ n < 0 => t = [r0 EXCEPT !.hdr = "bad"]
  <2>1. n \in Int
    <3>1. Q \in Seq(Token)
      BY <1>1 DEF Busy
    <3>2. DOMAIN Q = 1..Len(Q) /\ Len(Q) \in Nat
      BY <3>1
    <3>3. n \in {0, -1} \cup DOMAIN Q
      BY <3>1, HeaderEnds
    <3> HIDE DEF n
    <3>4. QED
      BY <3>2, <3>3
  <2> HIDE DEF kind, rest
  <2>2. t = IF r.hdr # "none" \/ n = 0 THEN r0
            ELSE IF n > 0 THEN [r0 EXCEPT !.hdr = kind, !.recv = rest]
            ELSE [r0 EXCEPT !.hdr = "bad"]
    BY <1>1 DEF TryParse, kind, rest
  <2> HIDE DEF t, n
  <2>3. QED
    BY <2>1, <2>2
<1>5. t \in Busy
  BY <1>1, TryParseType
<1> HIDE DEF t
<1>6. r1.hdr = t.hdr /\ r1.recv = t.recv /\ r1.got = t.got
  BY <1>2, <1>5 DEF open_local_endpoint, Busy
<1> HIDE DEF n, kind, rest
<1>7. /\ t.got = r0.got
      /\ r.hdr # "none" \/ n = 0 => t.hdr = r0.hdr /\ t.recv = r0.recv
      /\ r.hdr = "none" /\ n > 0 => t.hdr = kind /\ t.recv = rest
      /\ r.hdr = "none" /\ n < 0 => t.hdr = "bad" /\ t.recv = r0.recv
  BY <1>1, <1>3, <1>4 DEF Busy
<1>8. QED
  BY <1>1, <1>6, <1>7 DEF TookChunk, n, kind, rest, r1, got

\* A header that has been taken out moves what pays from the buffer to what is
\* in front of it.
LEMMA HeaderTaken ==
  ASSUME NEW P \in Seq(Token), NEW Q \in Seq(Token), NEW n \in 1..Len(Q),
         Q[n] \in Enders
  PROVE  LET h    == SubSeq(Q, 1, n)
             rest == SubSeq(Q, n + 1, Len(Q))
         IN /\ P \o h \in Seq(Token) /\ rest \in Seq(Token)
            /\ P \o Q = (P \o h) \o rest
            /\ P \o h # <<>> /\ (P \o h)[Len(P \o h)] = Q[n]
            /\ Len(rest) = Len(Q) - n
            /\ Count(P \o h, Marks) >= Count(P, Marks) + 1
            /\ Count(P \o h, Bodies) >= Count(P, Bodies)
            /\ Q[n] = "end" => Count(P \o h, Bodies) >= Count(P, Bodies) + 1
<1> DEFINE h == SubSeq(Q, 1, n)
           rest == SubSeq(Q, n + 1, Len(Q))
<1>1. Len(Q) \in Nat /\ n \in Nat /\ n >= 1 /\ n <= Len(Q)
  OBVIOUS
<1>2. h \in Seq(Token) /\ Len(h) = n /\ h[n] = Q[n] /\ DOMAIN h = 1..n
  BY <1>1
<1>3. rest \in Seq(Token) /\ Len(rest) = Len(Q) - n
  BY <1>1
<1>4. Q = h \o rest
  BY <1>1
<1> HIDE DEF h, rest
<1>5. P \o h \in Seq(Token) /\ P \o Q = (P \o h) \o rest
  <2>1. P \o (h \o rest) = (P \o h) \o rest
    BY <1>2, <1>3, ConcatAssociates
  <2>2. QED
    BY <1>2, <1>4, <2>1, ConcatProperties
<1>6. P \o h # <<>> /\ (P \o h)[Len(P \o h)] = Q[n]
  <2>1. /\ Len(P \o h) = Len(P) + n /\ Len(P) \in Nat
        /\ (P \o h)[Len(P) + n] = h[n]
    BY <1>1, <1>2
  <2>2. Len(P \o h) # 0
    BY <1>1, <2>1
  <2>3. QED
    BY <1>2, <2>1, <2>2
<1>7. /\ Count(P \o h, Marks) = Count(P, Marks) + Count(h, Marks)
      /\ Count(P \o h, Bodies) = Count(P, Bodies) + Count(h, Bodies)
  BY <1>2, CountJoined
<1>8. /\ Count(P, Marks) \in Nat /\ Count(P, Bodies) \in Nat
      /\ Count(h, Marks) \in Nat /\ Count(h, Bodies) \in Nat
  BY <1>2, CountIsFinite
<1>9. Count(h, Marks) >= 1
  <2>1. \E i \in DOMAIN h : h[i] \in Marks
    BY <1>1, <1>2 DEF Marks
  <2>2. QED
    BY <1>2, <2>1, CountIsFinite
<1>10. Q[n] = "end" => Count(h, Bodies) >= 1
  <2>1. SUFFICES ASSUME Q[n] = "end" PROVE Count(h, Bodies) >= 1
    OBVIOUS
  <2>2. \E i \in DOMAIN h : h[i] \in Bodies
    BY <1>1, <1>2, <2>1 DEF Bodies
  <2>3. QED
    BY <1>2, <2>2, CountIsFinite
<1>11. /\ Count(P \o h, Marks) >= Count(P, Marks) + 1
       /\ Count(P \o h, Bodies) >= Count(P, Bodies)
       /\ Q[n] = "end" => Count(P \o h, Bodies) >= Count(P, Bodies) + 1
  BY <1>7, <1>8, <1>9, <1>10
<1>12. QED
  BY <1>3, <1>5, <1>6, <1>11, Zenon DEF h, rest

\* A chunk is taken and parsed.
LEMMA ReceivedAccount ==
  ASSUME NEW all \in Seq(Code), NEW r \in Record, NEW S, Accounted(all, r, S),
         NEW chunk \in Seq(Token)
  PROVE  LET r1 == Received(r, chunk)
         IN /\ r1.hdr # "bad" => Accounted(all, r1, S \o chunk)
            /\ r1.hdr = "bad" =>
                 /\ Count(all, Code) + 1 <= Count(S \o chunk, Marks)
                 /\ Count(all, {"200"}) <= Count(S \o chunk, Bodies)
<1> DEFINE r1 == Received(r, chunk)
<1>1. PICK P \in Seq(Token) : Account(all, r, S, P)
  BY DEF Accounted
<1>2. PICK Q : Q = r.recv \o chunk
  OBVIOUS
<1>3. /\ r.recv \in Seq(Token) /\ Q \in Seq(Token) /\ Len(Q) = Len(r.recv) + Len(chunk)
      /\ Len(r.recv) \in Nat /\ Len(chunk) \in Nat /\ r.got \in Nat /\ r.hdr # "bad"
      /\ r.hdr \in {"none", "end", "endb"}
  BY <1>2, ConcatProperties DEF Record, Busy
<1>4. S \o chunk = P \o Q
  <2>1. S = P \o r.recv
    BY <1>1 DEF Account
  <2>2. (P \o r.recv) \o chunk = P \o (r.recv \o chunk)
    BY <1>3, ConcatAssociates
  <2>3. QED
    BY <1>2, <2>1, <2>2
<1> DEFINE n == RequestLen(Q)
<1>6. n \in {0, -1} \cup (1..Len(Q)) /\ Len(Q) \in Nat
  <2>1. DOMAIN Q = 1..Len(Q) /\ Len(Q) \in Nat
    BY <1>3
  <2>2. QED
    BY <1>3, <2>1, HeaderEnds
<1>7. /\ r1.got = r.got + Len(chunk)
      /\ r.hdr # "none" \/ n = 0 => r1.hdr = r.hdr /\ r1.recv = Q
      /\ r.hdr = "none" /\ n > 0 =>
           /\ r1.hdr = parse_http_message(SubSeq(Q, 1, n))
           /\ r1.recv = SubSeq(Q, n + 1, Len(Q))
      /\ r.hdr = "none" /\ n < 0 => r1.hdr = "bad" /\ r1.recv = Q
  <2>1. TookChunk(r, r1, Q, chunk)
    BY <1>2, ReceivedFields
  <2> HIDE DEF r1
  <2>2. QED
    BY <2>1 DEF TookChunk
<1> HIDE DEF r1, n
<1>8. /\ Count(P, Marks) \in Nat /\ Count(P, Bodies) \in Nat
      /\ Count(Q, Marks) \in Nat /\ Count(Q, Bodies) \in Nat
      /\ Count(all, Code) \in Nat /\ Count(all, {"200"}) \in Nat
  BY <1>3, CountIsFinite
<1>9. /\ Count(P \o Q, Marks) = Count(P, Marks) + Count(Q, Marks)
      /\ Count(P \o Q, Bodies) = Count(P, Bodies) + Count(Q, Bodies)
  BY <1>3, CountJoined
<1>10. CASE r.hdr # "none" \/ n = 0
  <2>1. r1.hdr = r.hdr /\ r1.recv = Q
    BY <1>7, <1>10
  <2>2. Account(all, r1, S \o chunk, P)
    <3>1. r.hdr = "none" => r.got = Len(r.recv)
      BY <1>1 DEF Account
    <3>2. r.hdr = "endb" => P # <<>> /\ P[Len(P)] = "endb"
      BY <1>1 DEF Account
    <3>3. r1.hdr = "none" => r1.got = Len(r1.recv)
      BY <1>3, <1>7, <2>1, <3>1
    <3>4. r1.hdr = "endb" => r1.got = 2 + Len(r1.recv)
      <4>1. r.hdr = "endb" => r.got = 2 + Len(r.recv)
        BY <1>1 DEF Account
      <4>2. QED
        BY <1>3, <1>7, <2>1, <4>1
    <3>5. QED
      BY <1>1, <1>4, <2>1, <3>2, <3>3, <3>4, Zenon DEF Account
  <2>3. QED
    BY <1>3, <2>1, <2>2 DEF Accounted, r1
<1>11. CASE r.hdr = "none" /\ n > 0
  <2> DEFINE h == SubSeq(Q, 1, n)
             rest == SubSeq(Q, n + 1, Len(Q))
             kind == parse_http_message(h)
  <2>3. n \in 1..Len(Q) /\ Q[n] \in Enders /\ kind \in {"end", "endb", "bad"}
        /\ (kind \in Enders => n = 2 /\ Q[2] = kind)
    BY <1>3, <1>6, <1>11, HeaderEnds, HeaderKind DEF n
  <2> HIDE DEF kind
  <2>4. /\ P \o h \in Seq(Token) /\ rest \in Seq(Token)
        /\ P \o Q = (P \o h) \o rest
        /\ P \o h # <<>> /\ (P \o h)[Len(P \o h)] = Q[n]
        /\ Len(rest) = Len(Q) - n
        /\ Count(P \o h, Marks) >= Count(P, Marks) + 1
        /\ Count(P \o h, Bodies) >= Count(P, Bodies)
        /\ Q[n] = "end" => Count(P \o h, Bodies) >= Count(P, Bodies) + 1
    BY <1>3, <2>3, HeaderTaken
  <2>5. r1.hdr = kind /\ r1.recv = rest /\ r1.got = r.got + Len(chunk)
    BY <1>7, <1>11 DEF kind
  <2> HIDE DEF h, rest
  <2>6. /\ Count(all, Code) <= Count(P, Marks) /\ Count(all, {"200"}) <= Count(P, Bodies)
        /\ r.got = Len(r.recv)
    BY <1>1, <1>8, <1>11 DEF Account
  <2>7. /\ Count(P \o h, Marks) \in Nat /\ Count(P \o h, Bodies) \in Nat
        /\ Count(P \o h, Marks) >= Count(P, Marks) + 1
        /\ Count(P \o h, Bodies) >= Count(P, Bodies)
        /\ Q[n] = "end" => Count(P \o h, Bodies) >= Count(P, Bodies) + 1
    BY <2>4, CountIsFinite
  <2>8. CASE kind = "bad"
    <3>1. Count(Q, Marks) >= 1
      <4>1. \E i \in DOMAIN Q : Q[i] \in Marks
        BY <1>3, <2>3 DEF Marks
      <4>2. QED
        BY <1>3, <4>1, CountIsFinite
    <3>2. QED
      BY <1>4, <1>8, <1>9, <2>5, <2>6, <2>8, <3>1 DEF r1
  <2>9. CASE kind = "end"
    <3>1. Q[n] = "end"
      BY <2>3, <2>9 DEF Enders
    <3>2. /\ Count(all, Code) + 1 <= Count(P \o h, Marks)
          /\ Count(all, {"200"}) + 1 <= Count(P \o h, Bodies)
      BY <1>8, <2>6, <2>7, <3>1
    <3>3. S \o chunk = (P \o h) \o r1.recv
      BY <1>4, <2>4, <2>5
    <3>4. r1.hdr = "end"
      BY <2>5, <2>9
    <3>5. Account(all, r1, S \o chunk, P \o h)
      BY <3>2, <3>3, <3>4 DEF Account
    <3>6. QED
      BY <2>4, <3>4, <3>5 DEF Accounted, r1
  <2>10. CASE kind = "endb"
    <3>1. n = 2 /\ Q[n] = "endb"
      BY <2>3, <2>10 DEF Enders
    <3>2. r1.got = 2 + Len(rest)
      BY <1>3, <2>4, <2>5, <2>6, <3>1
    <3>3. /\ Count(all, Code) + 1 <= Count(P \o h, Marks)
          /\ Count(all, {"200"}) + 0 <= Count(P \o h, Bodies)
      BY <1>8, <2>6, <2>7
    <3>4. S \o chunk = (P \o h) \o r1.recv
      BY <1>4, <2>4, <2>5
    <3>5. r1.hdr = "endb" /\ r1.got = 2 + Len(r1.recv)
      BY <2>5, <2>10, <3>2
    <3>6. P \o h # <<>> /\ (P \o h)[Len(P \o h)] = "endb"
      BY <2>4, <3>1
    <3>7. Account(all, r1, S \o chunk, P \o h)
      BY <3>3, <3>4, <3>5, <3>6 DEF Account
    <3>8. QED
      BY <2>4, <3>5, <3>7 DEF Accounted, r1
  <2>11. QED
    BY <2>3, <2>8, <2>9, <2>10
<1>12. CASE r.hdr = "none" /\ n = -1
  <2>1. r1.hdr = "bad"
    BY <1>7, <1>12
  <2>2. Count(Q, Marks) >= 1
    <3>1. \E i \in DOMAIN Q : Q[i] \in Marks
      BY <1>3, <1>12, HeaderEnds DEF Marks, n
    <3>2. QED
      BY <1>3, <3>1, CountIsFinite
  <2>3. /\ Count(all, Code) <= Count(P, Marks) /\ Count(all, {"200"}) <= Count(P, Bodies)
    BY <1>1, <1>8, <1>12 DEF Account
  <2>4. QED
    BY <1>4, <1>8, <1>9, <2>1, <2>2, <2>3 DEF r1
<1>13. QED
  BY <1>3, <1>6, <1>10, <1>11, <1>12

-----------------------------------------------------------------------------
(***************************************************************************)
(* What a client has sent is what the server has taken, followed by what    *)
(* waits in its socket.                                                     *)
(***************************************************************************)
Stream(chunks, n) == FlattenSeq(SubSeq(chunks, 1, n))

\* Of the n chunks that were sent, those in box are the last.
Queue(chunks, n, box) ==
  /\ n \in 0..Len(chunks) /\ Len(box) <= n
  /\ \A i \in 1..Len(box) : box[i] = chunks[(n - Len(box)) + i]

LEMMA QueueSend ==
  ASSUME NEW T, NEW chunks \in Seq(T), NEW box \in Seq(T), NEW n, Queue(chunks, n, box),
         n < Len(chunks)
  PROVE  LET b == Append(box, chunks[n + 1])
         IN Queue(chunks, n + 1, b) /\ (n + 1) - Len(b) = n - Len(box)
<1> DEFINE b == Append(box, chunks[n + 1])
<1>1. n \in Nat /\ Len(box) \in Nat /\ Len(chunks) \in Nat /\ Len(box) <= n
  BY DEF Queue
<1>2. Len(b) = Len(box) + 1
      /\ \A i \in 1..(Len(box) + 1) : b[i] = IF i = Len(box) + 1 THEN chunks[n + 1] ELSE box[i]
  BY <1>1
<1> HIDE DEF b
<1>3. (n + 1) - Len(b) = n - Len(box)
  BY <1>1, <1>2
<1>4. ASSUME NEW i \in 1..Len(b) PROVE b[i] = chunks[((n + 1) - Len(b)) + i]
  <2>1. CASE i = Len(box) + 1
    <3>1. (n - Len(box)) + i = n + 1
      BY <1>1, <2>1
    <3>2. QED
      BY <1>2, <1>3, <2>1, <3>1
  <2>2. CASE i # Len(box) + 1
    <3>1. i \in 1..Len(box)
      BY <1>1, <1>2, <2>2
    <3>2. QED
      BY <1>2, <1>3, <2>2, <3>1 DEF Queue
  <2>3. QED
    BY <2>1, <2>2
<1>5. QED
  BY <1>1, <1>2, <1>3, <1>4 DEF Queue, b

LEMMA QueueTake ==
  ASSUME NEW T, NEW chunks \in Seq(T), NEW box \in Seq(T), NEW n, Queue(chunks, n, box),
         box # <<>>
  PROVE  LET m == n - Len(box)
         IN /\ Queue(chunks, n, Tail(box)) /\ n - Len(Tail(box)) = m + 1
            /\ m \in Nat /\ m < Len(chunks) /\ Head(box) = chunks[m + 1]
<1> DEFINE b == Tail(box)
<1>1. /\ n \in Nat /\ Len(box) \in Nat /\ Len(chunks) \in Nat /\ Len(box) <= n
      /\ n <= Len(chunks) /\ Len(box) # 0
  BY DEF Queue
<1>2. Len(b) = Len(box) - 1 /\ \A i \in 1..(Len(box) - 1) : b[i] = box[i + 1]
  BY <1>1
<1> HIDE DEF b
<1>3. Head(box) = box[1] /\ box[1] = chunks[(n - Len(box)) + 1]
  BY <1>1 DEF Queue
<1>4. ASSUME NEW i \in 1..Len(b) PROVE b[i] = chunks[(n - Len(b)) + i]
  <2>1. i + 1 \in 1..Len(box) /\ (n - Len(box)) + (i + 1) = (n - Len(b)) + i
    BY <1>1, <1>2
  <2>2. box[i + 1] = chunks[(n - Len(box)) + (i + 1)]
    BY <2>1 DEF Queue
  <2>3. QED
    BY <1>2, <2>1, <2>2
<1>5. Queue(chunks, n, b) /\ n - Len(b) = (n - Len(box)) + 1
  BY <1>1, <1>2, <1>4 DEF Queue
<1>6. QED
  BY <1>1, <1>3, <1>5 DEF b

LEMMA StreamStarts ==
  ASSUME NEW T, NEW chunks \in Seq(Seq(T))
  PROVE  Stream(chunks, 0) = <<>>
<1>1. SubSeq(chunks, 1, 0) = <<>>
  OBVIOUS
<1>2. FlattenSeq(<<>>) = <<>>
  BY DEF FlattenSeq
<1>3. QED
  BY <1>1, <1>2 DEF Stream

LEMMA StreamStep ==
  ASSUME NEW T, NEW chunks \in Seq(Seq(T)), NEW n \in Nat, n < Len(chunks)
  PROVE  /\ Stream(chunks, n + 1) = Stream(chunks, n) \o chunks[n + 1]
         /\ Stream(chunks, n) \in Seq(T) => Stream(chunks, n + 1) \in Seq(T)
         /\ chunks[n + 1] \in Seq(T)
<1> DEFINE s == SubSeq(chunks, 1, n)
           x == chunks[n + 1]
<1>1. s \in Seq(Seq(T)) /\ x \in Seq(T)
  OBVIOUS
<1>2. SubSeq(chunks, 1, n + 1) = Append(s, x)
  OBVIOUS
<1> HIDE DEF s, x
<1>3. /\ FlattenSeq(s) \in Seq(T) => FlattenSeq(Append(s, x)) \in Seq(T)
      /\ FlattenSeq(Append(s, x)) = FlattenSeq(s) \o x
  BY <1>1, FlattenAppended
<1>4. QED
  BY <1>1, <1>2, <1>3 DEF Stream, s, x

LEMMA StreamGrows ==
  ASSUME NEW T, NEW chunks \in Seq(Seq(T)), NEW n \in 0..Len(chunks)
  PROVE  /\ Stream(chunks, n) \in Seq(T)
         /\ \A m \in 0..n : \A S : Count(Stream(chunks, m), S) <= Count(Stream(chunks, n), S)
<1> DEFINE N == Len(chunks)
           Good == {i \in Nat : Stream(chunks, i) \in Seq(T)}
<1>1. N \in Nat /\ Stream(chunks, 0) \in Seq(T)
  <2>1. <<>> \in Seq(T)
    OBVIOUS
  <2>2. Stream(chunks, 0) = <<>>
    BY StreamStarts
  <2>3. Stream(chunks, 0) \in Seq(T)
    BY <2>1, <2>2, Zenon
  <2>4. N \in Nat
    OBVIOUS
  <2>5. QED
    BY <2>3, <2>4
<1>2. \A i \in 0..N : i \in Good
  <2>1. 0 \in Good
    BY <1>1
  <2>2. \A i \in Nat : i < N /\ i \in Good => i + 1 \in Good
    BY StreamStep
  <2> HIDE DEF Good, N
  <2>3. QED
    BY <1>1, <2>1, <2>2, InductionUpTo
<1>3. ASSUME NEW m \in 0..n, NEW S
      PROVE  Count(Stream(chunks, m), S) <= Count(Stream(chunks, n), S)
  <2> DEFINE More == {i \in Nat : i <= n =>
                        i < m \/ Count(Stream(chunks, m), S) <= Count(Stream(chunks, i), S)}
  <2>1. 0 \in More
    <3>1. CASE m = 0
      <4>1. Count(Stream(chunks, 0), S) \in Nat
        BY <1>1, CountIsFinite
      <4>2. QED
        BY <3>1, <4>1
    <3>2. CASE m > 0
      BY <3>2
    <3>3. QED
      BY <3>1, <3>2
  <2>2. ASSUME NEW i \in Nat, i < n, i \in More PROVE i + 1 \in More
    <3>1. i \in 0..N /\ i + 1 \in 0..N /\ i < N
      BY <1>1, <2>2
    <3>2. Stream(chunks, i) \in Seq(T) /\ Stream(chunks, i + 1) \in Seq(T)
      BY <1>2, <3>1
    <3>3. Count(Stream(chunks, i + 1), S) = Count(Stream(chunks, i), S) + Count(chunks[i + 1], S)
      <4>1. /\ Stream(chunks, i + 1) = Stream(chunks, i) \o chunks[i + 1]
            /\ chunks[i + 1] \in Seq(T)
        BY <3>1, StreamStep
      <4>2. Count(Stream(chunks, i) \o chunks[i + 1], S)
              = Count(Stream(chunks, i), S) + Count(chunks[i + 1], S)
        BY <3>2, <4>1, CountJoined
      <4>3. QED
        BY <4>1, <4>2
    <3>4. Count(Stream(chunks, i), S) \in Nat /\ Count(Stream(chunks, i + 1), S) \in Nat
          /\ Count(chunks[i + 1], S) \in Nat
      BY <3>1, <3>2, StreamStep, CountIsFinite
    <3>5. m \in 0..N /\ Stream(chunks, m) \in Seq(T)
      BY <1>1, <1>2
    <3>6. Count(Stream(chunks, m), S) \in Nat
      BY <3>5, CountIsFinite
    <3>7. CASE i + 1 = m
      BY <3>4, <3>7
    <3>8. CASE i + 1 < m
      BY <3>8
    <3>9. CASE i >= m
      <4>1. Count(Stream(chunks, m), S) <= Count(Stream(chunks, i), S)
        BY <2>2, <3>9
      <4>2. QED
        BY <3>3, <3>4, <3>6, <4>1
    <3>10. QED
      BY <3>7, <3>8, <3>9
  <2>3. \A i \in 0..n : i \in More
    <3> HIDE DEF More
    <3>1. n \in Nat
      OBVIOUS
    <3>2. QED
      BY <2>1, <2>2, <3>1, InductionUpTo
  <2>4. QED
    BY <2>3
<1>4. QED
  BY <1>2, <1>3

-----------------------------------------------------------------------------
(***************************************************************************)
(* No reply without a request.                                              *)
(***************************************************************************)
\* A connection's account is right for what the server has taken of it; one
\* that was never accepted has nothing on it.
Credit(c) ==
  /\ Queue(script[c].chunks, next[c] - 1, inbox[c])
  /\ Accounted(replies[c] \o k[c].send, k[c],
               Stream(script[c].chunks, (next[c] - 1) - Len(inbox[c])))
  /\ phase[c] \in {"none", "syn"} => k[c] = NewConn

PaidInv == Sound /\ \A c \in Conns : Credit(c)

\* Only what has been parsed and buffered is on an account.
LEMMA SameAccount ==
  ASSUME NEW all, NEW r, NEW S, Accounted(all, r, S), NEW r2,
         r2.hdr = r.hdr, r2.recv = r.recv, r2.got = r.got
  PROVE  Accounted(all, r2, S)
BY DEF Accounted, Account

LEMMA NewAccount == Accounted(<<>> \o NewConn.send, NewConn, <<>>)
<1>1. <<>> \in Seq(Code) /\ <<>> \in Seq(Token) /\ <<>> \o <<>> = <<>> /\ Len(<<>>) = 0
  OBVIOUS
<1>2. \A S : Count(<<>>, S) = 0
  BY <1>1, FS_EmptySet DEF Count
<1>3. Covered(<<>>, <<>>, 0)
  BY <1>2 DEF Covered
<1>4. NewConn.hdr = "none" /\ NewConn.recv = <<>> /\ NewConn.got = 0 /\ NewConn.send = <<>>
  BY DEF NewConn
<1>5. QED
  BY <1>1, <1>3, <1>4, Settles

LEMMA InitPaid == Init => PaidInv
<1> SUFFICES ASSUME Init PROVE PaidInv
  OBVIOUS
<1>1. Sound
  BY InitInv DEF HttpInv
<1>2. ASSUME NEW c \in Conns PROVE Credit(c)
  <2>1. /\ next[c] = 1 /\ inbox[c] = <<>> /\ replies[c] = <<>> /\ k[c] = NewConn
    BY DEF Init
  <2>2. script[c].chunks \in Seq(Seq(Token))
    BY <1>1, ScriptType DEF Sound
  <2>3. /\ Len(script[c].chunks) \in Nat /\ next[c] - 1 = 0 /\ Len(inbox[c]) = 0
        /\ (next[c] - 1) - Len(inbox[c]) = 0
    <3>1. Len(inbox[c]) = 0
      BY <2>1
    <3>2. Len(script[c].chunks) \in Nat
      BY <2>2
    <3>3. next[c] = 1
      BY <2>1
    <3>4. QED
      BY <3>1, <3>2, <3>3
  <2>4. Queue(script[c].chunks, next[c] - 1, inbox[c])
    BY <2>1, <2>3 DEF Queue
  <2>5. Stream(script[c].chunks, (next[c] - 1) - Len(inbox[c])) = <<>>
    BY <2>2, <2>3, StreamStarts
  <2>6. QED
    BY <2>1, <2>4, <2>5, NewAccount DEF Credit
<1>3. QED
  BY <1>1, <1>2 DEF PaidInv

\* A connection that a step leaves alone.
LEMMA SameCredit ==
  ASSUME NEW c \in Conns, Credit(c), script' = script,
         next'[c] = next[c], inbox'[c] = inbox[c], replies'[c] = replies[c], k'[c] = k[c],
         phase'[c] \in {"none", "syn"} => phase[c] \in {"none", "syn"}
  PROVE  Credit(c)'
BY DEF Credit

\* A chunk is sent.
LEMMA SendCredit ==
  ASSUME PaidInv, NEW c \in Conns, Send(c), NEW d \in Conns
  PROVE  Credit(d)'
<1>1. /\ inbox' = [inbox EXCEPT ![c] = Append(@, script[c].chunks[next[c]])]
      /\ next' = [next EXCEPT ![c] = @ + 1] /\ next[c] <= Len(script[c].chunks)
      /\ UNCHANGED <<script, replies, k, phase>>
  BY DEF Send
<1>2. next \in [Conns -> Nat \ {0}] /\ inbox \in [Conns -> Seq(Seq(Token))]
  BY DEF PaidInv, Sound, Network
<1>3. script[c].chunks \in Seq(Seq(Token)) /\ Credit(c) /\ Credit(d)
  BY ScriptType DEF PaidInv, Sound
<1>4. CASE d # c
  <2>1. next'[d] = next[d] /\ inbox'[d] = inbox[d]
    BY <1>1, <1>2, <1>4
  <2>2. QED
    BY <1>1, <1>3, <2>1, SameCredit
<1>5. CASE d = c
  <2> DEFINE n == next[c] - 1
             box == inbox[c]
  <2>1. /\ n \in Nat /\ n + 1 = next[c] /\ next'[c] - 1 = n + 1
        /\ n < Len(script[c].chunks)
        /\ inbox'[c] = Append(box, script[c].chunks[n + 1])
    <3>1. next[c] \in Nat \ {0} /\ next'[c] = next[c] + 1
      BY <1>1, <1>2
    <3>2. /\ n \in Nat /\ n + 1 = next[c] /\ next'[c] - 1 = n + 1
      BY <3>1
    <3>3. Len(script[c].chunks) \in Nat
      BY <1>3
    <3>4. inbox'[c] = Append(box, script[c].chunks[n + 1])
      <4>1. inbox'[c] = Append(box, script[c].chunks[next[c]])
        BY <1>1, <1>2
      <4>2. QED
        BY <3>2, <4>1
    <3> HIDE DEF box
    <3>5. QED
      BY <1>1, <3>2, <3>3, <3>4
  <2>2. box \in Seq(Seq(Token)) /\ Queue(script[c].chunks, n, box)
    BY <1>2, <1>3 DEF Credit
  <2>3. Accounted(replies[c] \o k[c].send, k[c], Stream(script[c].chunks, n - Len(box)))
        /\ (phase[c] \in {"none", "syn"} => k[c] = NewConn)
    BY <1>3 DEF Credit
  <2> HIDE DEF n, box
  <2>4. /\ Queue(script[c].chunks, n + 1, inbox'[c])
        /\ (n + 1) - Len(inbox'[c]) = n - Len(box)
    BY <1>3, <2>1, <2>2, QueueSend
  <2>5. QED
    BY <1>1, <1>5, <2>1, <2>3, <2>4 DEF Credit
<1>6. QED
  BY <1>4, <1>5

\* Reading, writing and the passage of time visit one connection.
LEMMA VisitCredit ==
  ASSUME PaidInv, NEW c \in Conns, NEW r \in Record, k' = [k EXCEPT ![c] = r],
         phase[c] = "open", phase'[c] \in {"open", "closed"},
         script' = script, next' = next,
         \A d \in Conns \ {c} : inbox'[d] = inbox[d] /\ replies'[d] = replies[d]
                                /\ phase'[d] = phase[d],
         Queue(script[c].chunks, next[c] - 1, inbox'[c]),
         Accounted(replies'[c] \o r.send, r,
                   Stream(script[c].chunks, (next[c] - 1) - Len(inbox'[c]))),
         NEW d \in Conns
  PROVE  Credit(d)'
<1>1. k \in [Conns -> Record] /\ Credit(d)
  BY DEF PaidInv, Sound, Records
<1>2. CASE d # c
  BY <1>1, <1>2, SameCredit
<1>3. CASE d = c
  BY <1>1, <1>3 DEF Credit
<1>4. QED
  BY <1>2, <1>3

\* What has come in is paid for, whatever becomes of it.
LEMMA AnswerAccount ==
  ASSUME NEW all \in Seq(Code), NEW S \in Seq(Token), NEW code \in Code,
         Count(all, Code) + 1 <= Count(S, Marks),
         Count(all, {"200"}) + (IF code = "200" THEN 1 ELSE 0) <= Count(S, Bodies),
         NEW r, r.hdr = "none", r.recv = <<>>, r.got = 0
  PROVE  Accounted(Append(all, code), r, S)
<1>1. /\ Count(Append(all, code), Code) = Count(all, Code) + 1
      /\ Count(Append(all, code), {"200"}) = Count(all, {"200"}) + IF code = "200" THEN 1 ELSE 0
  BY CountAppended
<1>2. Append(all, code) \in Seq(Code)
  OBVIOUS
<1>3. /\ Count(Append(all, code), Code) \in Nat /\ Count(Append(all, code), {"200"}) \in Nat
  BY <1>2, CountIsFinite
<1>4. Covered(Append(all, code), S, 0)
  BY <1>1, <1>3 DEF Covered
<1>5. QED
  BY <1>2, <1>4, Settles

\* The record after an answer.
LEMMA AnswerFields ==
  ASSUME NEW r \in Busy, NEW ka, NEW code \in Code, NEW a,
         a = CloseLocal(ns_send(r, code), ka)
  PROVE  a.hdr = "none" /\ a.recv = <<>> /\ a.got = 0 /\ a.send = Append(r.send, code)
<1>1. r.send \in Seq(Code) /\ Append(r.send, code) \in Seq(Code)
  BY AppendProperties DEF Busy
<1>2. ns_send(r, code) \in Busy /\ ns_send(r, code).send = Append(r.send, code)
  BY <1>1 DEF ns_send, Busy
<1>3. QED
  BY <1>2, CloseLocalResets

LEMMA AppendInside ==
  ASSUME NEW p \in Seq(Code), NEW q \in Seq(Code), NEW e \in Code
  PROVE  p \o Append(q, e) = Append(p \o q, e)
OBVIOUS

\* Of a chunk that was received: the account as OnRecvData leaves it.
LEMMA RecvAccount ==
  ASSUME Network, Records, NEW c \in Conns, inbox[c] # <<>>,
         OnRecvData(c, Received(k[c], Head(inbox[c]))),
         NEW S, Accounted(replies[c] \o k[c].send, k[c], S),
         BodyFollows(S \o Head(inbox[c]))
  PROVE  \E r \in Record :
           /\ k' = [k EXCEPT ![c] = r]
           /\ Accounted(replies[c] \o r.send, r, S \o Head(inbox[c]))
<1> DEFINE chunk == Head(inbox[c])
           r1 == Received(k[c], chunk)
           all == replies[c] \o k[c].send
           ka == script[c].keep
           T == S \o chunk
<1>1. k[c] \in Record /\ replies[c] \in Seq(Code) /\ k[c].send \in Seq(Code)
      /\ chunk \in Seq(Token) /\ ka \in BOOLEAN
  BY HeadTailProperties, ScriptType DEF Network, Records, Record, Busy
<1>2. all \in Seq(Code)
  BY <1>1, ConcatProperties
<1>3. S \in Seq(Token) /\ T \in Seq(Token)
  <2>1. S \in Seq(Token)
    BY <1>1, <1>2, AccountCovers
  <2>2. QED
    BY <1>1, <2>1, ConcatProperties
<1>4. r1 \in Busy /\ r1.send = k[c].send
  BY <1>1, ReceivedType
<1>5. /\ r1.hdr # "bad" => Accounted(all, r1, T)
      /\ r1.hdr = "bad" => /\ Count(all, Code) + 1 <= Count(T, Marks)
                           /\ Count(all, {"200"}) <= Count(T, Bodies)
  BY <1>1, <1>2, ReceivedAccount
<1>6. OnRecvData(c, r1) /\ BodyFollows(T)
  OBVIOUS
<1> HIDE DEF r1, all, T, chunk, ka
<1>7. \A code \in Code : replies[c] \o Append(r1.send, code) = Append(all, code)
  <2>1. SUFFICES ASSUME NEW code \in Code
                 PROVE  replies[c] \o Append(r1.send, code) = Append(all, code)
    OBVIOUS
  <2>2. replies[c] \o Append(k[c].send, code) = Append(replies[c] \o k[c].send, code)
    BY <1>1, AppendInside
  <2>3. QED
    BY <1>4, <2>2 DEF all
<1>8. Count(all, {"200"}) \in Nat /\ Count(all, Code) \in Nat
  BY <1>2, CountIsFinite
<1>9. CASE r1.hdr = "bad"
  <2> DEFINE a == CloseLocal(ns_send(r1, "400"), ka)
  <2>1. k' = [k EXCEPT ![c] = a]
    BY <1>6, <1>9 DEF OnRecvData, Enders, send_http_error, ka
  <2>2. a \in Record
    BY <1>1, <1>4, AnswerType DEF send_http_error
  <2>3. a.hdr = "none" /\ a.recv = <<>> /\ a.got = 0 /\ a.send = Append(r1.send, "400")
    BY <1>4, AnswerFields DEF Code
  <2> HIDE DEF a
  <2>4. "400" \in Code /\ Count(all, {"200"}) + (IF "400" = "200" THEN 1 ELSE 0) <= Count(T, Bodies)
    BY <1>5, <1>8, <1>9 DEF Code
  <2>5. Accounted(Append(all, "400"), a, T)
    BY <1>2, <1>3, <1>5, <1>9, <2>3, <2>4, AnswerAccount
  <2>6. Accounted(replies[c] \o a.send, a, T)
    BY <1>7, <2>3, <2>4, <2>5
  <2>7. QED
    BY <2>1, <2>2, <2>6 DEF T, chunk
<1>10. CASE r1.hdr \in Enders /\ Buffered(r1)
  <2> DEFINE a == CloseLocal(ns_send(r1, "200"), ka)
  <2>1. k' = [k EXCEPT ![c] = a] /\ r1.hdr # "bad"
    BY <1>6, <1>10 DEF OnRecvData, Enders, call_request_handler, ka
  <2>2. a \in Record
    BY <1>1, <1>4, AnswerType DEF call_request_handler
  <2>3. a.hdr = "none" /\ a.recv = <<>> /\ a.got = 0 /\ a.send = Append(r1.send, "200")
    BY <1>4, AnswerFields DEF Code
  <2> HIDE DEF a
  <2>4. r1 \in Record
    BY <1>4, <2>1 DEF Record
  <2>5. Covered(all, T, 1)
    BY <1>2, <1>5, <1>6, <1>10, <2>1, <2>4, RequestPays
  <2>6. "200" \in Code /\ Count(all, Code) + 1 <= Count(T, Marks)
        /\ Count(all, {"200"}) + (IF "200" = "200" THEN 1 ELSE 0) <= Count(T, Bodies)
    BY <2>5 DEF Code, Covered
  <2>7. Accounted(Append(all, "200"), a, T)
    BY <1>2, <1>3, <2>3, <2>6, AnswerAccount
  <2>8. Accounted(replies[c] \o a.send, a, T)
    BY <1>7, <2>3, <2>6, <2>7
  <2>9. QED
    BY <2>1, <2>2, <2>8 DEF T, chunk
<1>11. CASE r1.hdr # "bad" /\ ~(r1.hdr \in Enders /\ Buffered(r1))
  <2>1. k' = [k EXCEPT ![c] = r1]
    BY <1>6, <1>11 DEF OnRecvData
  <2>2. r1 \in Record /\ replies[c] \o r1.send = all
    BY <1>4, <1>11 DEF Record, all
  <2>3. QED
    BY <1>5, <1>11, <2>1, <2>2 DEF T, chunk
<1>12. QED
  BY <1>9, <1>10, <1>11

LEMMA RecvCredit ==
  ASSUME PaidInv, RecvChunk, NEW d \in Conns
  PROVE  Credit(d)'
<1> DEFINE c == Head(todo)
           chunks == script[c].chunks
           box == inbox[c]
           n == next[c] - 1
           m == n - Len(box)
<1>1. /\ box # <<>> /\ inbox' = [inbox EXCEPT ![c] = Tail(@)]
      /\ OnRecvData(c, Received(k[c], Head(inbox[c])))
      /\ UNCHANGED <<script, next, replies, phase>>
  BY DEF RecvChunk, clientVars
<1>2. Sound /\ c \in Open /\ c \in Conns /\ phase[c] = "open"
  BY TailOfList DEF RecvChunk, PaidInv, Sound, Lists, Open
<1> HIDE DEF c
<1>3. Network /\ Records
  BY <1>2 DEF Sound
<1>4. chunks \in Seq(Seq(Token)) /\ box \in Seq(Seq(Token)) /\ Credit(c)
  BY <1>2, <1>3, ScriptType DEF PaidInv, Network
<1>5. /\ Queue(chunks, n, box)
      /\ Accounted(replies[c] \o k[c].send, k[c], Stream(chunks, m))
  BY <1>4 DEF Credit
<1>6. /\ Queue(chunks, n, Tail(box)) /\ n - Len(Tail(box)) = m + 1
      /\ m \in Nat /\ m < Len(chunks) /\ Head(box) = chunks[m + 1]
  BY <1>1, <1>4, <1>5, QueueTake
<1>7. Stream(chunks, m + 1) = Stream(chunks, m) \o Head(box)
  <2> HIDE DEF m, chunks, box
  <2>1. Stream(chunks, m + 1) = Stream(chunks, m) \o chunks[m + 1]
    BY <1>4, <1>6, StreamStep
  <2>2. QED
    BY <1>6, <2>1
<1>8. BodyFollows(Stream(chunks, m + 1))
  <2>1. script \in Scripts /\ m + 1 \in 0..Len(chunks)
    <3>1. Len(chunks) \in Nat
      BY <1>4
    <3> HIDE DEF m, chunks
    <3>2. QED
      BY <1>3, <1>6, <3>1 DEF Network
  <2> HIDE DEF m
  <2>2. QED
    BY <1>2, <2>1, BodiesAssumption DEF BodyFollows, Stream
<1>9. inbox'[c] = Tail(box)
  BY <1>1, <1>2, <1>3 DEF Network
<1>10. PICK r \in Record :
         /\ k' = [k EXCEPT ![c] = r]
         /\ Accounted(replies[c] \o r.send, r, Stream(chunks, m) \o Head(box))
  <2> HIDE DEF m, chunks
  <2>1. BodyFollows(Stream(chunks, m) \o Head(inbox[c]))
    BY <1>7, <1>8
  <2>2. QED
    BY <1>1, <1>2, <1>3, <1>5, <2>1, RecvAccount
<1>11. \A e \in Conns \ {c} : inbox'[e] = inbox[e]
  BY <1>1, <1>3 DEF Network
<1>12. /\ Queue(script[c].chunks, next[c] - 1, inbox'[c])
       /\ Accounted(replies'[c] \o r.send, r,
                    Stream(script[c].chunks, (next[c] - 1) - Len(inbox'[c])))
  <2> HIDE DEF m, box
  <2>1. QED
    BY <1>1, <1>6, <1>7, <1>9, <1>10
<1>13. QED
  BY <1>1, <1>2, <1>10, <1>11, <1>12, VisitCredit

LEMMA PollCredit ==
  ASSUME PaidInv, PollOne, NEW d \in Conns
  PROVE  Credit(d)'
<1> DEFINE c == Head(todo)
           r == NsPoll(c)
           S == Stream(script[c].chunks, (next[c] - 1) - Len(inbox[c]))
<1>1. /\ c \in Open /\ r \in Record /\ r.send = k[c].send /\ k' = [k EXCEPT ![c] = r]
  BY PollRecord DEF PaidInv
<1>2. UNCHANGED <<script, next, inbox, replies>> /\ CloseIf(c, idle[c] \/ "CLOSE" \in r.flags)
  BY DEF PollOne, clientVars
<1> HIDE DEF c
<1>3. c \in Conns /\ phase[c] = "open" /\ Sound /\ Credit(c) /\ k[c] \in Record
      /\ k[c] \in Busy /\ phase \in [Conns -> {"none", "syn", "open", "closed"}]
      /\ replies[c] \in Seq(Code) /\ k[c].send \in Seq(Code)
  BY <1>1 DEF Open, PaidInv, Sound, Lists, Records, Record, Busy, Network
<1>4. phase'[c] \in {"open", "closed"} /\ \A e \in Conns \ {c} : phase'[e] = phase[e]
  BY <1>2, <1>3 DEF CloseIf, ns_close_conn
<1>5. Queue(script[c].chunks, next[c] - 1, inbox[c])
      /\ Accounted(replies[c] \o k[c].send, k[c], S)
  BY <1>3 DEF Credit
<1> HIDE DEF S
<1>6. Accounted(replies[c] \o r.send, r, S)
  <2>1. CASE done
    <3>1. r.hdr = "none" /\ r.recv = <<>> /\ r.got = 0
      BY <1>3, <2>1, CloseLocalResets DEF NsPoll
    <3>2. replies[c] \o k[c].send \in Seq(Code)
      BY <1>3, ConcatProperties
    <3>3. Covered(replies[c] \o k[c].send, S, 0) /\ S \in Seq(Token)
      BY <1>3, <1>5, <3>2, AccountCovers
    <3> HIDE DEF r
    <3>4. QED
      BY <1>1, <3>1, <3>2, <3>3, Settles
  <2>2. CASE ~done
    BY <1>5, <2>2 DEF NsPoll
  <2>3. QED
    BY <2>1, <2>2
<1> HIDE DEF r
<1>7. QED
  BY <1>1, <1>2, <1>3, <1>4, <1>5, <1>6, VisitCredit DEF S

LEMMA WriteCredit ==
  ASSUME PaidInv, WriteOne, NEW d \in Conns
  PROVE  Credit(d)'
<1> DEFINE c == Head(todo)
           S == Stream(script[c].chunks, (next[c] - 1) - Len(inbox[c]))
<1>1. PICK r \in Record :
        /\ c \in Open /\ k' = [k EXCEPT ![c] = r]
        /\ r.send = IF wr THEN <<>> ELSE k[c].send
        /\ r.hdr = k[c].hdr /\ r.recv = k[c].recv /\ r.got = k[c].got
  BY WriteRecord DEF PaidInv
<1>2. /\ replies' = IF wr THEN [replies EXCEPT ![c] = @ \o k[c].send] ELSE replies
      /\ UNCHANGED <<script, next, inbox, phase>>
  BY DEF WriteOne, ns_write_to_socket, clientVars
<1> HIDE DEF c
<1>3. c \in Conns /\ phase[c] = "open" /\ Credit(c)
      /\ replies \in [Conns -> Seq(Code)] /\ k[c].send \in Seq(Code)
  BY <1>1 DEF Open, PaidInv, Sound, Lists, Records, Record, Busy, Network
<1>4. Queue(script[c].chunks, next[c] - 1, inbox[c])
      /\ Accounted(replies[c] \o k[c].send, k[c], S)
  BY <1>3 DEF Credit
<1> HIDE DEF S
<1>5. /\ \A e \in Conns \ {c} : replies'[e] = replies[e]
      /\ replies'[c] \o r.send = replies[c] \o k[c].send
  <2>1. CASE wr
    <3>1. replies'[c] = replies[c] \o k[c].send /\ r.send = <<>>
      BY <1>1, <1>2, <1>3, <2>1
    <3>2. replies[c] \o k[c].send \in Seq(Code)
      BY <1>3, ConcatProperties
    <3>3. (replies[c] \o k[c].send) \o <<>> = replies[c] \o k[c].send
      BY <3>2, ConcatEmptySeq
    <3>4. \A e \in Conns \ {c} : replies'[e] = replies[e]
      BY <1>2, <1>3, <2>1
    <3>5. QED
      BY <3>1, <3>3, <3>4
  <2>2. CASE ~wr
    BY <1>1, <1>2, <2>2
  <2>3. QED
    BY <2>1, <2>2
<1>6. Accounted(replies'[c] \o r.send, r, S)
  BY <1>1, <1>4, <1>5, SameAccount
<1>7. QED
  BY <1>1, <1>2, <1>3, <1>4, <1>5, <1>6, VisitCredit DEF S

LEMMA StepPaid == PaidInv /\ [Next]_vars => PaidInv'
<1> SUFFICES ASSUME PaidInv, [Next]_vars, NEW d \in Conns PROVE Credit(d)'
  <2>1. Sound /\ [Next]_vars => Sound'
    BY StepSound
  <2>2. QED
    BY <2>1 DEF PaidInv
<1>1. Credit(d) /\ phase \in [Conns -> {"none", "syn", "open", "closed"}]
      /\ k \in [Conns -> Record]
  BY DEF PaidInv, Sound, Lists, Records
<1>2. ASSUME UNCHANGED <<script, next, inbox, replies, k>>,
             phase'[d] \in {"none", "syn"} => phase[d] \in {"none", "syn"}
      PROVE  Credit(d)'
  BY <1>1, <1>2, SameCredit
<1>3. ASSUME NEW c \in Conns, Connect(c) PROVE Credit(d)'
  <2>1. UNCHANGED <<script, next, inbox, replies, k>> /\ phase[c] = "none"
        /\ phase' = [phase EXCEPT ![c] = "syn"]
    BY <1>3 DEF Connect, clientVars
  <2>2. QED
    BY <1>1, <1>2, <2>1
<1>4. ASSUME NEW c \in Conns, Send(c) PROVE Credit(d)'
  BY <1>4, SendCredit
<1>5. ASSUME NEW c \in Conns, Shut(c) \/ IdleTimeout(c) PROVE Credit(d)'
  BY <1>2, <1>5 DEF Shut, IdleTimeout, clientVars
<1>6. CASE PollOne
  BY <1>6, PollCredit
<1>7. CASE RecvChunk
  BY <1>7, RecvCredit
<1>8. CASE WriteOne
  BY <1>8, WriteCredit
<1>9. CASE Accept
  <2>1. UNCHANGED <<script, next, inbox, replies>>
    BY <1>9 DEF Accept, clientVars
  <2>2. CASE backlog # <<>> /\ FdFree
    <3> DEFINE c == Head(backlog)
    <3>1. phase' = [phase EXCEPT ![c] = "open"] /\ k' = [k EXCEPT ![c] = NewConn]
      BY <1>9, <2>2 DEF Accept, accept_conn, on_accept
    <3>2. c \in Conns /\ phase[c] = "syn"
      BY <2>2, TailOfList DEF PaidInv, Sound, Lists
    <3> HIDE DEF c
    <3>3. k[c] = NewConn
      BY <3>2 DEF PaidInv, Credit
    <3>4. k' = k
      BY <1>1, <3>1, <3>2, <3>3
    <3>5. QED
      BY <1>1, <1>2, <2>1, <3>1, <3>4
  <2>3. CASE ~(backlog # <<>> /\ FdFree)
    BY <1>2, <1>9, <2>1, <2>3 DEF Accept
  <2>4. QED
    BY <2>2, <2>3
<1>10. CASE CloseOne \/ DestroyOne
  <2>1. UNCHANGED <<script, next, inbox, replies, k>>
    BY <1>10 DEF CloseOne, DestroyOne, clientVars
  <2>2. phase' = phase \/ phase' = [phase EXCEPT ![Head(todo)] = "closed"]
    BY <1>10 DEF CloseOne, DestroyOne, CloseIf, ns_close_conn
  <2>3. QED
    BY <1>1, <1>2, <2>1, <2>2
<1>11. CASE Start \/ LoopTop \/ Select \/ TurnEnds \/ DestroyEnds
  BY <1>2, <1>11 DEF Start, LoopTop, Select, TurnEnds, DestroyEnds, clientVars
<1>12. CASE Sigterm \/ Terminated \/ UNCHANGED vars
  BY <1>2, <1>12 DEF Sigterm, Terminated, vars, clientVars
<1>13. QED
  BY <1>3, <1>4, <1>5, <1>6, <1>7, <1>8, <1>9, <1>10, <1>11, <1>12 DEF Next, Server

\* A client never gets more replies than it sent requests, and no 200 for a
\* request that was not complete, for any number of clients and whatever pieces
\* their requests come in (close_local_endpoint resets the request and the
\* counters call_request_handler_if_data_is_buffered compares).
THEOREM AlwaysReplyForRequest == Spec => []NoReplyWithoutRequest
<1>1. PaidInv => NoReplyWithoutRequest
  <2> SUFFICES ASSUME PaidInv, NEW c \in Conns
               PROVE  LET all == replies[c] \o k[c].send
                      IN /\ Count(all, Code) <= Count(Sent(c), Marks)
                         /\ Count(all, {"200"}) <= Count(Sent(c), Bodies)
    BY DEF NoReplyWithoutRequest, Code, Marks, Bodies
  <2> DEFINE all == replies[c] \o k[c].send
             chunks == script[c].chunks
             n == next[c] - 1
             m == n - Len(inbox[c])
  <2>1. /\ k[c] \in Record /\ replies[c] \in Seq(Code) /\ k[c].send \in Seq(Code)
        /\ chunks \in Seq(Seq(Token)) /\ inbox[c] \in Seq(Seq(Token))
    BY ScriptType DEF PaidInv, Sound, Network, Records, Record, Busy
  <2>2. all \in Seq(Code)
    BY <2>1, ConcatProperties
  <2>3. Queue(chunks, n, inbox[c]) /\ Accounted(all, k[c], Stream(chunks, m))
    BY DEF PaidInv, Credit
  <2>4. Covered(all, Stream(chunks, m), 0) /\ Stream(chunks, m) \in Seq(Token)
    <3> HIDE DEF all, m, chunks
    <3>1. QED
      BY <2>1, <2>2, <2>3, AccountCovers
  <2>5. n \in 0..Len(chunks) /\ m \in 0..n
    <3>1. Len(inbox[c]) \in Nat /\ Len(inbox[c]) <= n /\ n \in 0..Len(chunks)
      BY <2>1, <2>3 DEF Queue
    <3> HIDE DEF n
    <3>2. QED
      BY <3>1
  <2> HIDE DEF all, m, n, chunks
  <2>6. Stream(chunks, n) \in Seq(Token)
        /\ \A S : Count(Stream(chunks, m), S) <= Count(Stream(chunks, n), S)
    BY <2>1, <2>5, StreamGrows
  <2>7. /\ Count(all, Code) \in Nat /\ Count(all, {"200"}) \in Nat
        /\ \A S : Count(Stream(chunks, m), S) \in Nat /\ Count(Stream(chunks, n), S) \in Nat
    BY <2>2, <2>4, <2>6, CountIsFinite
  <2>8. /\ Count(all, Code) <= Count(Stream(chunks, n), Marks)
        /\ Count(all, {"200"}) <= Count(Stream(chunks, n), Bodies)
    BY <2>4, <2>6, <2>7 DEF Covered
  <2>9. QED
    BY <2>8 DEF all, n, chunks, Sent, Stream
<1>2. QED
  BY InitPaid, StepPaid, <1>1, PTL DEF Spec
=============================================================================
