-------------------------- MODULE OpenSessionProofs --------------------------
(***************************************************************************)
(* A session opens when nothing fails, and one that is called open is the  *)
(* one the sensor is in, for any number of attempts, any number of replies *)
(* left unread and anything in the flash.                                  *)
(*                                                                         *)
(* What a reply does to the host is a fold over its records, and theirs    *)
(* over their messages. A fold is unrolled into the states it goes through *)
(* (its path), and what each record keeps is then carried along it.        *)
(***************************************************************************)
EXTENDS OpenSession, SequenceTheorems, WellFoundedInduction, TLAPS

-----------------------------------------------------------------------------
(* Induction over a set of numbers.                                        *)

\* A set of natural numbers that is not empty has a least element.
LEMMA Least ==
    ASSUME NEW T, T \subseteq Nat, T # {} PROVE \E x \in T : \A y \in T : x <= y
<1> DEFINE R == OpToRel(<, Nat)
<1>1. IsWellFoundedOn(R, Nat)
  BY NatLessThanWellFounded
<1>2. \A x, y \in Nat : y < x => <<y, x>> \in R
  BY DEF OpToRel
<1> HIDE DEF R
<1>3. PICK x \in T : \A y \in T : ~(<<y, x>> \in R)
  BY <1>1, WFMin
<1>4. \A y \in T : ~(y < x)
  BY <1>2, <1>3
<1>5. \A y \in T : x \in Nat /\ y \in Nat
  BY <1>3
<1>6. \A y \in T : x <= y
  BY <1>4, <1>5
<1> QED
  BY <1>6

\* What holds of 0 and goes from each number to the next holds up to n.
LEMMA Along ==
    ASSUME NEW n \in Nat, NEW T, 0 \in T, \A i \in 1..n : i - 1 \in T => i \in T
    PROVE  \A i \in 0..n : i \in T
<1> SUFFICES ASSUME {i \in 0..n : i \notin T} # {} PROVE FALSE
  OBVIOUS
<1>1. PICK x \in {i \in 0..n : i \notin T} : \A y \in {i \in 0..n : i \notin T} : x <= y
  <2>1. {i \in 0..n : i \notin T} \subseteq Nat
    OBVIOUS
  <2> QED
    BY <2>1, Least
<1>2. x \in 1..n /\ x - 1 \in 0..n /\ ~(x <= x - 1)
  BY <1>1
<1> QED
  BY <1>1, <1>2

-----------------------------------------------------------------------------
(* Folds of a sequence.                                                    *)

\* FoldLeft is defined by a function of the positions still to be taken,
\* which takes the greatest one away.
Steps(n, base, seq, step, iter) ==
    iter = [s \in SUBSET (1..n) |->
              IF s = {} THEN base ELSE step[<<iter[s \ {Max(s)}], seq[Max(s)]>>]]

\* The greatest of the positions up to n + 1.
LEMMA MaxIsTop ==
    ASSUME NEW n \in Nat, NEW s \in SUBSET (1..(n + 1)), n + 1 \in s
    PROVE  Max(s) = n + 1
<1>1. \A y \in s : n + 1 >= y
  OBVIOUS
<1>2. \A x \in s : (\A y \in s : x >= y) => x = n + 1
  OBVIOUS
<1> QED
  BY <1>1, <1>2 DEF Max

\* Any positions have a greatest one.
LEMMA MaxBelow ==
    ASSUME NEW n \in Nat, NEW s \in SUBSET (1..n), s # {}
    PROVE  Max(s) \in s
<1> DEFINE T == {i \in 0..n : n - i \in s}
<1>1. T \subseteq Nat /\ T # {}
  <2>1. PICK j \in s : TRUE
    OBVIOUS
  <2>2. n - j \in 0..n /\ n - (n - j) = j
    BY <2>1
  <2> QED
    BY <2>1, <2>2
<1>2. PICK x \in T : \A y \in T : x <= y
  BY <1>1, Least
<1>3. \A j \in s : n - x >= j
  <2> TAKE j \in s
  <2>1. n - j \in 0..n /\ n - (n - j) = j
    OBVIOUS
  <2>2. x <= n - j
    BY <1>2, <2>1
  <2> QED
    BY <2>2, <1>2
<1>4. n - x \in s
  BY <1>2
<1> QED
  BY <1>3, <1>4 DEF Max

\* There is such a function, for any step from a set into itself.
LEMMA StepsExist ==
    ASSUME NEW n \in Nat, NEW S, NEW T, NEW base \in S, NEW seq, NEW step \in [S \X T -> S],
           \A i \in 1..n : seq[i] \in T
    PROVE  \E iter : Steps(n, base, seq, step, iter) /\ \A s \in SUBSET (1..n) : iter[s] \in S
<1> DEFINE Stays(m, iter) == \A s \in SUBSET (1..m) : iter[s] \in S
           U == {m \in 0..n : \E iter : Steps(m, base, seq, step, iter) /\ Stays(m, iter)}
<1>1. 0 \in U
  <2> DEFINE g == [s \in SUBSET (1..0) |-> base]
  <2>1. SUBSET (1..0) = {{}}
    OBVIOUS
  <2>2. Steps(0, base, seq, step, g)
    BY <2>1 DEF Steps
  <2>3. Stays(0, g)
    BY <2>1
  <2> HIDE DEF g, Stays
  <2> QED
    BY <2>2, <2>3
<1>2. ASSUME NEW m \in 1..n, m - 1 \in U PROVE m \in U
  <2> DEFINE k == m - 1
  <2> HIDE DEF U, Stays
  <2>1. k \in Nat /\ m = k + 1
    OBVIOUS
  <2>2. PICK g : Steps(k, base, seq, step, g) /\ Stays(k, g)
    BY <1>2 DEF U
  <2> HIDE DEF k
  <2> DEFINE h == [s \in SUBSET (1..(k + 1)) |->
                     IF k + 1 \in s THEN step[<<g[s \ {k + 1}], seq[k + 1]>>] ELSE g[s]]
  <2>3. ASSUME NEW s \in SUBSET (1..(k + 1))
        PROVE  h[s] = IF s = {} THEN base ELSE step[<<h[s \ {Max(s)}], seq[Max(s)]>>]
    <3>1. CASE k + 1 \in s
      <4>1. Max(s) = k + 1
        BY <3>1, <2>1, MaxIsTop
      <4>2. s \ {k + 1} \in SUBSET (1..(k + 1)) /\ k + 1 \notin s \ {k + 1} /\ s # {}
        BY <3>1
      <4>3. h[s \ {k + 1}] = g[s \ {k + 1}]
        BY <4>2
      <4>4. h[s] = step[<<g[s \ {k + 1}], seq[k + 1]>>]
        BY <3>1
      <4> QED
        BY <4>1, <4>2, <4>3, <4>4
    <3>2. CASE k + 1 \notin s
      <4>1. s \in SUBSET (1..k)
        BY <3>2, <2>1
      <4>2. s \ {Max(s)} \in SUBSET (1..(k + 1)) /\ k + 1 \notin s \ {Max(s)}
        BY <3>2
      <4>3. h[s \ {Max(s)}] = g[s \ {Max(s)}] /\ h[s] = g[s]
        BY <3>2, <4>2
      <4>4. g[s] = IF s = {} THEN base ELSE step[<<g[s \ {Max(s)}], seq[Max(s)]>>]
        BY <2>2, <4>1 DEF Steps
      <4> QED
        BY <4>3, <4>4
    <3> QED
      BY <3>1, <3>2
  <2>4. Steps(m, base, seq, step, h)
    <3>1. h = [s \in SUBSET (1..(k + 1)) |-> h[s]]
      OBVIOUS
    <3>2. h = [s \in SUBSET (1..(k + 1)) |->
                  IF s = {} THEN base ELSE step[<<h[s \ {Max(s)}], seq[Max(s)]>>]]
      <4> HIDE DEF h
      <4> QED
        BY <2>3, <3>1
    <3> HIDE DEF h
    <3> QED
      BY <3>2, <2>1 DEF Steps
  <2>5. Stays(m, h)
    <3> SUFFICES ASSUME NEW s \in SUBSET (1..m) PROVE h[s] \in S
      BY DEF Stays
    <3>1. CASE k + 1 \in s
      <4>1. g[s \ {k + 1}] \in S
        <5>1. s \ {k + 1} \in SUBSET (1..k)
          BY <2>1
        <5> QED
          BY <2>2, <5>1 DEF Stays
      <4>2. k + 1 \in 1..n
        BY <2>1
      <4>3. h[s] = step[<<g[s \ {k + 1}], seq[k + 1]>>]
        BY <2>1, <3>1
      <4> QED
        BY <4>1, <4>2, <4>3
    <3>2. CASE k + 1 \notin s
      <4>1. s \in SUBSET (1..k)
        BY <3>2, <2>1
      <4>2. h[s] = g[s]
        BY <3>2, <2>1
      <4> QED
        BY <2>2, <4>1, <4>2 DEF Stays
    <3> QED
      BY <3>1, <3>2
  <2> HIDE DEF h
  <2> QED
    BY <2>4, <2>5 DEF U
<1>3. \A i \in 0..n : i \in U
  <2> HIDE DEF U, Stays
  <2> QED
    BY <1>1, <1>2, Along
<1>4. n \in U
  <2> HIDE DEF U
  <2> QED
    BY <1>3
<1> QED
  BY <1>4

\* It goes from one position to the next.
LEMMA StepsPath ==
    ASSUME NEW n \in Nat, NEW base, NEW seq, NEW step, NEW iter,
           Steps(n, base, seq, step, iter)
    PROVE  /\ iter[1..0] = base
           /\ \A i \in 1..n : iter[1..i] = step[<<iter[1..(i - 1)], seq[i]>>]
<1>1. iter[1..0] = base
  <2>1. 1..0 = {} /\ {} \in SUBSET (1..n)
    OBVIOUS
  <2> QED
    BY <2>1 DEF Steps
<1>2. ASSUME NEW i \in 1..n PROVE iter[1..i] = step[<<iter[1..(i - 1)], seq[i]>>]
  <2> DEFINE k == i - 1
  <2>1. i = k + 1 /\ k \in Nat
    OBVIOUS
  <2>2. i - 1 = k
    OBVIOUS
  <2> HIDE DEF k
  <2>3. 1..i \in SUBSET (1..(k + 1)) /\ k + 1 \in 1..i /\ 1..i # {} /\ 1..i \in SUBSET (1..n)
    BY <2>1
  <2>4. Max(1..i) = i
    BY <2>1, <2>3, MaxIsTop
  <2>5. (1..i) \ {i} = 1..k
    BY <2>1
  <2>6. iter[1..i] = step[<<iter[(1..i) \ {Max(1..i)}], seq[Max(1..i)]>>]
    BY <2>3 DEF Steps
  <2> QED
    BY <2>2, <2>4, <2>5, <2>6
<1> QED
  BY <1>1, <1>2

-----------------------------------------------------------------------------
(* What a reply does to the host.                                          *)

RecordTypes == {"handshake", "ccs", "app", "other"}
SomeRecords ==
    [type : RecordTypes, under : SomeKeys, messages : SomeMessages, verify : SomeMessages,
     whole : BOOLEAN]
Words == {"ok", "data", "record", "refused", "short"}
Replies == [status : Words, records : Seq(SomeRecords)]
TlsStates == [log : SomeMessages, random : Nat, rx : BOOLEAN, keys : SomeKeys, ok : BOOLEAN]

Continues(s, t) == Len(s) <= Len(t) /\ \A i \in 1..Len(s) : t[i] = s[i]

\* The ServerHellos in a record, and in a reply, are of before `bound`.
HellosIn(record, bound) ==
    \A j \in 1..Len(record.messages) :
        record.messages[j].type = "server hello" => record.messages[j].value < bound
HellosBelow(records, bound) == \A k \in 1..Len(records) : HellosIn(records[k], bound)
Switches(records) == \E k \in 1..Len(records) : records[k].type = "ccs"

\* A transcript only grows, and a direction that is encrypted stays so.
Follows(t, u) ==
    /\ u \in TlsStates
    /\ u.keys = t.keys /\ Continues(t.log, u.log) /\ (t.rx => u.rx)

\* A state follows itself, and following is transitive.
LEMMA FollowsItself == ASSUME NEW t \in TlsStates PROVE Follows(t, t)
  BY DEF Follows, Continues, TlsStates, SomeMessages

LEMMA FollowsOn ==
    ASSUME NEW s \in TlsStates, NEW t, NEW u, Follows(s, t), Follows(t, u)
    PROVE  Follows(s, u)
<1>1. /\ Len(s.log) \in Nat /\ Len(t.log) \in Nat /\ Len(u.log) \in Nat
      /\ Continues(s.log, t.log) /\ Continues(t.log, u.log)
  BY DEF Follows, TlsStates, SomeMessages
<1>2. Continues(s.log, u.log)
  BY <1>1 DEF Continues
<1> QED
  BY <1>2 DEF Follows

\* A message is folded in, and a ServerHello brings its random.
LEMMA MessageStep ==
    ASSUME NEW t \in TlsStates, NEW m \in [type : MessageTypes, value : Nat], NEW verify
    PROVE  LET u == HandleMessage(t, m, verify)
           IN /\ Follows(t, u) /\ u.rx = t.rx
              /\ u.random = t.random \/ (m.type = "server hello" /\ u.random = m.value)
<1>1. Append(t.log, m) \in SomeMessages /\ m.value \in Nat /\ Continues(t.log, Append(t.log, m))
  BY DEF TlsStates, SomeMessages, Continues
<1>2. Follows(t, [t EXCEPT !.ok = FALSE])
  BY FollowsItself DEF Follows, TlsStates
<1>3. LET u == [t EXCEPT !.log = Append(@, m),
                         !.random = IF m.type = "server hello" THEN m.value ELSE @]
      IN /\ Follows(t, u) /\ u.rx = t.rx
         /\ u.random = t.random \/ (m.type = "server hello" /\ u.random = m.value)
  BY <1>1 DEF Follows, TlsStates
<1>4. LET u == [t EXCEPT !.ok = FALSE] IN u.rx = t.rx /\ u.random = t.random
  BY DEF TlsStates
<1> QED
  BY <1>2, <1>3, <1>4 DEF HandleMessage

\* The fold over the messages of a record, unrolled.
LEMMA MessagesPath ==
    ASSUME NEW tls \in TlsStates, NEW record \in SomeRecords
    PROVE  \E path \in [0..Len(record.messages) -> TlsStates] :
              /\ path[0] = tls
              /\ \A i \in 1..Len(record.messages) :
                    path[i] = HandleMessage(path[i - 1], record.messages[i], record.verify)
              /\ HandleMessages(tls, record) = path[Len(record.messages)]
<1> DEFINE n == Len(record.messages)
           verify == record.verify
           messages == record.messages
           M == [type : MessageTypes, value : Nat]
           Folds(iter) == iter = [s \in SUBSET (1..n) |->
                 IF s = {} THEN tls ELSE HandleMessage(iter[s \ {Max(s)}], messages[Max(s)], verify)]
           it == CHOOSE iter : Folds(iter)
<1>1. n \in Nat /\ messages \in Seq(M) /\ DOMAIN messages = 1..n
  BY DEF SomeRecords, SomeMessages
<1>2. HandleMessages(tls, record) = it[1..n]
  BY <1>1 DEF HandleMessages, FoldLeft, MapThenFoldSet
<1> HIDE DEF n, messages, verify, M
<1>3. \A i \in 1..n : messages[i] \in M
  BY <1>1
\* Where each step stays in some set, the fold is one of a function.
<1>4. ASSUME NEW D, NEW iter, \A s \in SUBSET (1..n) : iter[s] \in D
      PROVE  Folds(iter) <=> Steps(n, tls, messages,
                                   [p \in D \X M |-> HandleMessage(p[1], p[2], verify)], iter)
  <2> DEFINE step == [p \in D \X M |-> HandleMessage(p[1], p[2], verify)]
  <2>1. ASSUME NEW s \in SUBSET (1..n), s # {}
        PROVE  step[<<iter[s \ {Max(s)}], messages[Max(s)]>>]
                 = HandleMessage(iter[s \ {Max(s)}], messages[Max(s)], verify)
    <3>1. Max(s) \in 1..n /\ s \ {Max(s)} \in SUBSET (1..n)
      BY <1>1, <2>1, MaxBelow
    <3>2. <<iter[s \ {Max(s)}], messages[Max(s)]>> \in D \X M
      BY <1>3, <1>4, <3>1
    <3> QED
      BY <3>2
  <2> HIDE DEF step
  <2>2. [s \in SUBSET (1..n) |->
           IF s = {} THEN tls ELSE step[<<iter[s \ {Max(s)}], messages[Max(s)]>>]]
        = [s \in SUBSET (1..n) |->
           IF s = {} THEN tls ELSE HandleMessage(iter[s \ {Max(s)}], messages[Max(s)], verify)]
    BY <2>1
  <2>3. Folds(iter) <=> Steps(n, tls, messages, step, iter)
    BY <2>2 DEF Steps
  <2> HIDE DEF Folds
  <2> QED
    BY <2>3 DEF step
<1>5. Folds(it)
  <2> DEFINE step == [p \in TlsStates \X M |-> HandleMessage(p[1], p[2], verify)]
  <2>1. step \in [TlsStates \X M -> TlsStates]
    BY MessageStep DEF M, Follows
  <2> HIDE DEF step
  <2>2. PICK iter : /\ Steps(n, tls, messages, step, iter)
                    /\ \A s \in SUBSET (1..n) : iter[s] \in TlsStates
    BY <1>1, <1>3, <2>1, StepsExist
  <2> HIDE DEF Folds
  <2>3. Folds(iter)
    BY <1>4, <2>2 DEF step
  <2> QED
    BY <2>3
<1> DEFINE path == [i \in 0..n |-> it[1..i]]
<1>6. /\ path[0] = tls
      /\ \A i \in 1..n : path[i] = HandleMessage(path[i - 1], messages[i], verify)
  <2> DEFINE D == {it[s] : s \in SUBSET (1..n)}
             step == [p \in D \X M |-> HandleMessage(p[1], p[2], verify)]
  <2> HIDE DEF it, Folds
  <2>1. Steps(n, tls, messages, step, it)
    BY <1>4, <1>5
  <2>2. /\ it[1..0] = tls
        /\ \A i \in 1..n : it[1..i] = step[<<it[1..(i - 1)], messages[i]>>]
    BY <1>1, <2>1, StepsPath
  <2>3. \A i \in 1..n : step[<<it[1..(i - 1)], messages[i]>>]
                           = HandleMessage(it[1..(i - 1)], messages[i], verify)
    <3> TAKE i \in 1..n
    <3>1. 1..(i - 1) \in SUBSET (1..n)
      BY <1>1
    <3>2. <<it[1..(i - 1)], messages[i]>> \in D \X M
      BY <1>3, <3>1
    <3> HIDE DEF D
    <3> QED
      BY <3>2
  <2> HIDE DEF D, step
  <2>4. 0 \in 0..n /\ \A i \in 1..n : i \in 0..n /\ i - 1 \in 0..n
    BY <1>1
  <2> QED
    BY <2>2, <2>3, <2>4
<1> HIDE DEF path, it, Folds
<1>7. \A i \in 0..n : path[i] \in TlsStates
  <2> DEFINE T == {i \in 0..n : path[i] \in TlsStates}
  <2>1. 0 \in T
    BY <1>1, <1>6
  <2>2. ASSUME NEW i \in 1..n, i - 1 \in T PROVE i \in T
    <3>1. i \in 0..n
      BY <1>1
    <3>2. path[i - 1] \in TlsStates /\ messages[i] \in [type : MessageTypes, value : Nat]
      BY <1>3, <2>2 DEF M
    <3>3. HandleMessage(path[i - 1], messages[i], verify) \in TlsStates
      BY <3>2, MessageStep DEF Follows
    <3> QED
      BY <1>6, <3>1, <3>3
  <2> HIDE DEF T
  <2>3. \A i \in 0..n : i \in T
    BY <1>1, <2>1, <2>2, Along
  <2> QED
    BY <2>3 DEF T
<1>8. path \in [0..n -> TlsStates] /\ path[n] = it[1..n]
  BY <1>1, <1>7 DEF path
<1> QED
  BY <1>2, <1>6, <1>8 DEF n, messages, verify

\* What the messages of a record come to.
LEMMA MessagesStep ==
    ASSUME NEW tls \in TlsStates, NEW record \in SomeRecords, NEW bound \in Nat
    PROVE  LET u == HandleMessages(tls, record)
           IN /\ Follows(tls, u) /\ u.rx = tls.rx
              /\ tls.random < bound /\ HellosIn(record, bound) => u.random < bound
<1> DEFINE n == Len(record.messages)
<1>1. PICK path \in [0..n -> TlsStates] :
         /\ path[0] = tls
         /\ \A i \in 1..n : path[i] = HandleMessage(path[i - 1], record.messages[i], record.verify)
         /\ HandleMessages(tls, record) = path[n]
  BY MessagesPath
<1> HIDE DEF n
<1> DEFINE Good(u) == /\ Follows(tls, u) /\ u.rx = tls.rx
                      /\ tls.random < bound /\ HellosIn(record, bound) => u.random < bound
           T == {i \in 0..n : Good(path[i])}
<1>2. n \in Nat /\ \A i \in 1..n : record.messages[i] \in [type : MessageTypes, value : Nat]
  <2> DEFINE M == [type : MessageTypes, value : Nat]
  <2>1. record.messages \in Seq(M)
    BY DEF SomeRecords, SomeMessages
  <2> HIDE DEF M
  <2>2. n \in Nat /\ \A i \in 1..n : record.messages[i] \in M
    BY <2>1 DEF n
  <2> QED
    BY <2>2 DEF M
<1>3. 0 \in T
  BY <1>1, <1>2, FollowsItself
<1>4. ASSUME NEW i \in 1..n, i - 1 \in T PROVE i \in T
  <2> DEFINE t == path[i - 1]
             u == path[i]
             m == record.messages[i]
  <2>1. t \in TlsStates /\ i \in 0..n /\ u = HandleMessage(t, m, record.verify) /\ Good(t)
    BY <1>1, <1>2, <1>4
  <2>2. m \in [type : MessageTypes, value : Nat]
    BY <1>2
  <2>3. m.type = "server hello" /\ HellosIn(record, bound) => m.value < bound
    BY DEF HellosIn, n
  <2> HIDE DEF t, u, m
  <2>4. /\ Follows(t, u) /\ u.rx = t.rx
        /\ u.random = t.random \/ (m.type = "server hello" /\ u.random = m.value)
    BY <2>1, <2>2, MessageStep
  <2>5. Follows(tls, u)
    BY <2>1, <2>4, FollowsOn
  <2>6. Good(u)
    BY <2>1, <2>3, <2>4, <2>5
  <2> QED
    BY <2>1, <2>6 DEF u
<1> HIDE DEF T
<1>5. n \in T
  <2>1. \A i \in 0..n : i \in T
    BY <1>2, <1>3, <1>4, Along
  <2> QED
    BY <1>2, <2>1
<1> QED
  BY <1>1, <1>5 DEF T, n

\* What a record comes to: only a change of cipher turns encryption on.
LEMMA RecordStep ==
    ASSUME NEW t \in TlsStates, NEW record \in SomeRecords, NEW bound \in Nat
    PROVE  LET u == HandleRecord(t, record)
           IN /\ Follows(t, u)
              /\ u.rx => t.rx \/ record.type = "ccs"
              /\ t.random < bound /\ HellosIn(record, bound) => u.random < bound
<1>1. Readable(t, record) \in BOOLEAN /\ record.whole \in BOOLEAN
  BY DEF Readable, SomeRecords
<1>2. Follows(t, t)
  BY FollowsItself
<1>3. Follows(t, [t EXCEPT !.ok = FALSE]) /\ [t EXCEPT !.ok = FALSE].rx = t.rx
      /\ [t EXCEPT !.ok = FALSE].random = t.random
  BY <1>2 DEF Follows, TlsStates
<1>4. LET u == [t EXCEPT !.rx = @ \/ record.whole, !.ok = record.whole]
      IN Follows(t, u) /\ u.random = t.random
  BY <1>1, <1>2 DEF Follows, TlsStates
<1>5. LET u == [t EXCEPT !.ok = t.rx /\ Readable(t, record)]
      IN Follows(t, u) /\ u.rx = t.rx /\ u.random = t.random
  BY <1>1, <1>2 DEF Follows, TlsStates
<1>6. CASE ~t.ok
  BY <1>2, <1>6 DEF HandleRecord
<1>7. CASE t.ok /\ record.type = "handshake"
  <2>1. CASE Readable(t, record)
    BY <1>7, <2>1, MessagesStep DEF HandleRecord
  <2>2. CASE ~Readable(t, record)
    BY <1>3, <1>7, <2>2 DEF HandleRecord
  <2> QED
    BY <2>1, <2>2
<1>8. CASE t.ok /\ record.type = "ccs"
  BY <1>4, <1>8 DEF HandleRecord
<1>9. CASE t.ok /\ record.type = "app"
  BY <1>5, <1>9 DEF HandleRecord
<1>10. CASE t.ok /\ record.type \notin {"handshake", "ccs", "app"}
  BY <1>3, <1>10 DEF HandleRecord
<1> QED
  BY <1>6, <1>7, <1>8, <1>9, <1>10

\* The fold over the records of a reply, unrolled.
Parsed(tls, records) == FoldLeft(HandleRecord, tls, records)

\* The fold over records goes from state to state.
LEMMA RecordsPath ==
    ASSUME NEW tls \in TlsStates, NEW records \in Seq(SomeRecords)
    PROVE  \E path \in [0..Len(records) -> TlsStates] :
              /\ path[0] = tls
              /\ \A i \in 1..Len(records) : path[i] = HandleRecord(path[i - 1], records[i])
              /\ Parsed(tls, records) = path[Len(records)]
<1> DEFINE n == Len(records)
           Folds(iter) == iter = [s \in SUBSET (1..n) |->
                 IF s = {} THEN tls ELSE HandleRecord(iter[s \ {Max(s)}], records[Max(s)])]
           it == CHOOSE iter : Folds(iter)
<1>1. n \in Nat /\ records \in Seq(SomeRecords) /\ DOMAIN records = 1..n
  OBVIOUS
<1>2. Parsed(tls, records) = it[1..n]
  BY <1>1 DEF Parsed, FoldLeft, MapThenFoldSet
<1> HIDE DEF n
<1>3. \A i \in 1..n : records[i] \in SomeRecords
  BY <1>1
\* Where each step stays in some set, the fold is one of a function.
<1>4. ASSUME NEW D, NEW iter, \A s \in SUBSET (1..n) : iter[s] \in D
      PROVE  Folds(iter) <=> Steps(n, tls, records,
                                   [p \in D \X SomeRecords |-> HandleRecord(p[1], p[2])], iter)
  <2> DEFINE step == [p \in D \X SomeRecords |-> HandleRecord(p[1], p[2])]
  <2>1. ASSUME NEW s \in SUBSET (1..n), s # {}
        PROVE  step[<<iter[s \ {Max(s)}], records[Max(s)]>>]
                 = HandleRecord(iter[s \ {Max(s)}], records[Max(s)])
    <3>1. Max(s) \in 1..n /\ s \ {Max(s)} \in SUBSET (1..n)
      BY <1>1, <2>1, MaxBelow
    <3>2. <<iter[s \ {Max(s)}], records[Max(s)]>> \in D \X SomeRecords
      BY <1>3, <1>4, <3>1
    <3> QED
      BY <3>2
  <2> HIDE DEF step
  <2>2. [s \in SUBSET (1..n) |->
           IF s = {} THEN tls ELSE step[<<iter[s \ {Max(s)}], records[Max(s)]>>]]
        = [s \in SUBSET (1..n) |->
           IF s = {} THEN tls ELSE HandleRecord(iter[s \ {Max(s)}], records[Max(s)])]
    BY <2>1
  <2>3. Folds(iter) <=> Steps(n, tls, records, step, iter)
    BY <2>2 DEF Steps
  <2> HIDE DEF Folds
  <2> QED
    BY <2>3 DEF step
<1>5. Folds(it)
  <2> DEFINE step == [p \in TlsStates \X SomeRecords |-> HandleRecord(p[1], p[2])]
  <2>1. step \in [TlsStates \X SomeRecords -> TlsStates]
    BY RecordStep DEF Follows
  <2> HIDE DEF step
  <2>2. PICK iter : /\ Steps(n, tls, records, step, iter)
                    /\ \A s \in SUBSET (1..n) : iter[s] \in TlsStates
    BY <1>1, <1>3, <2>1, StepsExist
  <2> HIDE DEF Folds
  <2>3. Folds(iter)
    BY <1>4, <2>2 DEF step
  <2> QED
    BY <2>3
<1> DEFINE path == [i \in 0..n |-> it[1..i]]
<1>6. /\ path[0] = tls
      /\ \A i \in 1..n : path[i] = HandleRecord(path[i - 1], records[i])
  <2> DEFINE D == {it[s] : s \in SUBSET (1..n)}
             step == [p \in D \X SomeRecords |-> HandleRecord(p[1], p[2])]
  <2> HIDE DEF it, Folds
  <2>1. Steps(n, tls, records, step, it)
    BY <1>4, <1>5
  <2>2. /\ it[1..0] = tls
        /\ \A i \in 1..n : it[1..i] = step[<<it[1..(i - 1)], records[i]>>]
    BY <1>1, <2>1, StepsPath
  <2>3. \A i \in 1..n : step[<<it[1..(i - 1)], records[i]>>]
                           = HandleRecord(it[1..(i - 1)], records[i])
    <3> TAKE i \in 1..n
    <3>1. 1..(i - 1) \in SUBSET (1..n)
      BY <1>1
    <3>2. <<it[1..(i - 1)], records[i]>> \in D \X SomeRecords
      BY <1>3, <3>1
    <3> HIDE DEF D
    <3> QED
      BY <3>2
  <2> HIDE DEF D, step
  <2>4. 0 \in 0..n /\ \A i \in 1..n : i \in 0..n /\ i - 1 \in 0..n
    BY <1>1
  <2> QED
    BY <2>2, <2>3, <2>4
<1> HIDE DEF path, it, Folds
<1>7. \A i \in 0..n : path[i] \in TlsStates
  <2> DEFINE T == {i \in 0..n : path[i] \in TlsStates}
  <2>1. 0 \in T
    BY <1>1, <1>6
  <2>2. ASSUME NEW i \in 1..n, i - 1 \in T PROVE i \in T
    <3>1. i \in 0..n
      BY <1>1
    <3>2. path[i - 1] \in TlsStates /\ records[i] \in SomeRecords
      BY <1>3, <2>2
    <3>3. HandleRecord(path[i - 1], records[i]) \in TlsStates
      BY <3>2, RecordStep DEF Follows
    <3> QED
      BY <1>6, <3>1, <3>3
  <2> HIDE DEF T
  <2>3. \A i \in 0..n : i \in T
    BY <1>1, <2>1, <2>2, Along
  <2> QED
    BY <2>3 DEF T
<1>8. path \in [0..n -> TlsStates] /\ path[n] = it[1..n]
  BY <1>1, <1>7 DEF path
<1> QED
  BY <1>2, <1>6, <1>8 DEF n

-----------------------------------------------------------------------------
(* Replies, parsed.                                                        *)

\* The host as it is when a reply is read.
Host == [log |-> handshake_hash, random |-> server_random, rx |-> secure_rx,
         keys |-> keys, ok |-> TRUE]

\* ParseResponse is that fold, from where the host is.
LEMMA ParsePath ==
    ASSUME Host \in TlsStates, NEW reply \in Replies
    PROVE  \E path \in [0..Len(reply.records) -> TlsStates] :
              /\ path[0] = Host
              /\ \A i \in 1..Len(reply.records) :
                    path[i] = HandleRecord(path[i - 1], reply.records[i])
              /\ ParseResponse(reply) = path[Len(reply.records)]
<1>1. reply.records \in Seq(SomeRecords)
  BY DEF Replies
<1>2. ParseResponse(reply) = Parsed(Host, reply.records)
  BY DEF ParseResponse, Parsed, Host
<1> QED
  BY <1>1, <1>2, RecordsPath

\* What a reply comes to.
LEMMA ParseStep ==
    ASSUME Host \in TlsStates, NEW reply \in Replies, NEW bound \in Nat
    PROVE  LET u == ParseResponse(reply)
           IN /\ Follows(Host, u)
              /\ u.rx => secure_rx \/ Switches(reply.records)
              /\ server_random < bound /\ HellosBelow(reply.records, bound) => u.random < bound
<1> DEFINE n == Len(reply.records)
<1>1. PICK path \in [0..n -> TlsStates] :
         /\ path[0] = Host
         /\ \A i \in 1..n : path[i] = HandleRecord(path[i - 1], reply.records[i])
         /\ ParseResponse(reply) = path[n]
  BY ParsePath
<1>2. n \in Nat /\ \A i \in 1..n : reply.records[i] \in SomeRecords
  <2>1. reply.records \in Seq(SomeRecords)
    BY DEF Replies
  <2> QED
    BY <2>1 DEF n
<1> HIDE DEF n
<1> DEFINE Good(u) == /\ Follows(Host, u)
                      /\ u.rx => secure_rx \/ Switches(reply.records)
                      /\ server_random < bound /\ HellosBelow(reply.records, bound) => u.random < bound
           T == {i \in 0..n : Good(path[i])}
<1>3. 0 \in T
  <2>1. Host.rx = secure_rx /\ Host.random = server_random /\ Follows(Host, Host)
    BY FollowsItself DEF Host
  <2>2. Good(Host) /\ 0 \in 0..n
    BY <1>2, <2>1
  <2> HIDE DEF Good
  <2> QED
    BY <1>1, <2>2
<1>4. ASSUME NEW i \in 1..n, i - 1 \in T PROVE i \in T
  <2> DEFINE t == path[i - 1]
             u == path[i]
             record == reply.records[i]
  <2>1. t \in TlsStates /\ i \in 0..n /\ u = HandleRecord(t, record) /\ Good(t)
    BY <1>1, <1>2, <1>4
  <2>2. record \in SomeRecords
    BY <1>2
  <2>3. /\ record.type = "ccs" => Switches(reply.records)
        /\ HellosBelow(reply.records, bound) => HellosIn(record, bound)
    BY DEF HellosBelow, Switches, n
  <2> HIDE DEF t, u, record
  <2>4. /\ Follows(t, u)
        /\ u.rx => t.rx \/ record.type = "ccs"
        /\ t.random < bound /\ HellosIn(record, bound) => u.random < bound
    BY <2>1, <2>2, RecordStep
  <2>5. Follows(Host, u)
    BY <2>1, <2>4, FollowsOn
  <2>6. Good(u)
    BY <2>1, <2>3, <2>4, <2>5
  <2> QED
    BY <2>1, <2>6 DEF u
<1> HIDE DEF T
<1>5. n \in T
  <2>1. \A i \in 0..n : i \in T
    BY <1>2, <1>3, <1>4, Along
  <2> QED
    BY <1>2, <2>1
<1> QED
  BY <1>1, <1>5 DEF T

\* A status word and records are a reply.
LEMMA ReplyTyped ==
    ASSUME NEW word \in Words, NEW recs \in Seq(SomeRecords)
    PROVE  [status |-> word, records |-> recs] \in Replies
<1> DEFINE X == Seq(SomeRecords)
<1>1. recs \in X
  OBVIOUS
<1> HIDE DEF X
<1>2. [status |-> word, records |-> recs] \in [status : Words, records : X]
  BY <1>1
<1> QED
  BY <1>2 DEF X, Replies

\* A record of no messages, and the one of no known header.
LEMMA RecordTyped ==
    ASSUME NEW type \in RecordTypes, NEW under \in SomeKeys
    PROVE  Record(type, under) \in SomeRecords
<1> DEFINE X == SomeMessages
<1>1. <<>> \in X
  BY DEF SomeMessages
<1> HIDE DEF X
<1>2. Record(type, under) \in [type : RecordTypes, under : SomeKeys, messages : X, verify : X,
                               whole : BOOLEAN]
  BY <1>1 DEF Record
<1> QED
  BY <1>2 DEF X, SomeRecords

\* What no handshake record holds says nothing.
LEMMA NothingSaid ==
    /\ NoKeys \in SomeKeys
    /\ Unreadable \in SomeRecords /\ Unreadable.type = "other" /\ Unreadable.messages = <<>>
<1>1. NoKeys \in SomeKeys
  BY DEF NoKeys, SomeKeys
<1>2. Unreadable.type = "other" /\ Unreadable.messages = <<>>
  BY DEF Unreadable, Record
<1>3. Unreadable \in SomeRecords
  BY <1>1, RecordTyped DEF Unreadable, RecordTypes
<1> QED
  BY <1>1, <1>2, <1>3

\* A record without messages holds no ServerHello.
LEMMA NoHellos ==
    ASSUME NEW record, record.messages = <<>>, NEW bound
    PROVE  HellosIn(record, bound)
<1>1. 1..Len(record.messages) = {}
  OBVIOUS
<1> QED
  BY <1>1 DEF HellosIn

\* Nor does a status word.
LEMMA StatusSaid ==
    ASSUME NEW word \in Words
    PROVE  /\ Status(word) \in Replies /\ Status(word).status = word
           /\ ~Switches(Status(word).records)
           /\ \A bound \in Nat : HellosBelow(Status(word).records, bound)
<1> DEFINE r == <<Unreadable>>
<1>1. r \in Seq(SomeRecords) /\ Len(r) = 1 /\ r[1] = Unreadable
  BY NothingSaid
<1>2. Status(word) = [status |-> word, records |-> r]
  BY DEF Status
<1> HIDE DEF r
<1>3. ~Switches(r)
  BY <1>1, NothingSaid DEF Switches
<1>4. \A bound \in Nat : HellosBelow(r, bound)
  BY <1>1, NothingSaid, NoHellos DEF HellosBelow
<1> QED
  BY <1>1, <1>2, <1>3, <1>4, ReplyTyped

\* A reply as far as it came says nothing that the whole one does not.
LEMMA ReceivedLess ==
    ASSUME NEW sent \in Replies, NEW reply \in Received(sent)
    PROVE  /\ reply \in Replies
           /\ Switches(reply.records) => Switches(sent.records)
           /\ \A bound \in Nat : HellosBelow(sent.records, bound) => HellosBelow(reply.records, bound)
<1> DEFINE r == sent.records
<1>1. r \in Seq(SomeRecords) /\ Len(r) \in Nat
  BY DEF Replies
<1> DEFINE Less(u) ==
             /\ u \in Replies
             /\ Switches(u.records) => Switches(sent.records)
             /\ \A bound \in Nat : HellosBelow(sent.records, bound) => HellosBelow(u.records, bound)
<1>2. CASE reply = sent
  BY <1>2
<1>3. CASE reply = [Status("short") EXCEPT !.records = <<>>]
  <2> DEFINE none == <<>>
  <2>1. reply = [status |-> "short", records |-> none] /\ none \in Seq(SomeRecords) /\ Len(none) = 0
    BY <1>3 DEF Status
  <2> HIDE DEF none
  <2>2. reply.records = none /\ reply \in Replies
    BY <2>1, ReplyTyped DEF Words
  <2> QED
    BY <2>1, <2>2 DEF Switches, HellosBelow
<1>4. ASSUME NEW n \in 0..(Len(r) - 1), reply \in CutAfter(r, n)
      PROVE  Less(reply)
  <2> DEFINE s == SubSeq(r, 1, n)
             x == [r[n + 1] EXCEPT !.messages = <<>>, !.whole = FALSE]
  <2> HIDE DEF r
  <2>1. n \in Nat /\ n + 1 \in 1..Len(r) /\ n <= Len(r)
    BY <1>1
  <2>2. s \in Seq(SomeRecords) /\ Len(s) = n /\ \A i \in 1..n : s[i] = r[i]
    BY <1>1, <2>1
  <2>3. x \in SomeRecords /\ x.type = r[n + 1].type /\ x.messages = <<>>
    <3>1. r[n + 1] \in SomeRecords
      BY <1>1, <2>1
    <3> QED
      BY <3>1, NothingSaid DEF SomeRecords
  <2>4. reply \in {Records(s), Records(s \o <<x>>), Records(s \o <<Unreadable>>)}
    BY <1>4 DEF CutAfter
  <2> HIDE DEF s, x
  <2>5. CASE reply = Records(s)
    <3>1. reply.records = s /\ reply \in Replies
      BY <2>2, <2>5, ReplyTyped DEF Records, Words
    <3> QED
      BY <1>1, <2>1, <2>2, <3>1 DEF Switches, HellosBelow, r
  <2>6. ASSUME NEW y \in SomeRecords, reply = Records(s \o <<y>>),
               y.type = "ccs" => r[n + 1].type = "ccs", y.messages = <<>>
        PROVE  Less(reply)
    <3> DEFINE t == s \o <<y>>
    <3>1. /\ t \in Seq(SomeRecords) /\ Len(t) = n + 1
          /\ t[n + 1] = y /\ \A i \in 1..n : t[i] = r[i]
      BY <2>1, <2>2
    <3> HIDE DEF t
    <3>2. reply.records = t /\ reply \in Replies
      BY <2>6, <3>1, ReplyTyped DEF Records, Words, t
    <3>3. Switches(t) => Switches(r)
      <4> SUFFICES ASSUME NEW k \in 1..(n + 1), t[k].type = "ccs" PROVE Switches(r)
        BY <3>1 DEF Switches
      <4>1. CASE k = n + 1
        <5>1. r[n + 1].type = "ccs"
          BY <2>6, <3>1, <4>1
        <5> QED
          BY <2>1, <5>1 DEF Switches
      <4>2. CASE k \in 1..n
        <5>1. k \in 1..Len(r)
          BY <1>1, <2>1, <4>2
        <5> QED
          BY <3>1, <4>2, <5>1 DEF Switches
      <4> QED
        BY <2>1, <4>1, <4>2
    <3>4. ASSUME NEW bound \in Nat, HellosBelow(r, bound) PROVE HellosBelow(t, bound)
      <4>1. HellosIn(y, bound)
        BY <2>6, NoHellos
      <4>2. \A i \in 1..n : HellosIn(t[i], bound)
        BY <1>1, <2>1, <3>1, <3>4 DEF HellosBelow
      <4> QED
        BY <2>1, <3>1, <4>1, <4>2 DEF HellosBelow
    <3> QED
      BY <3>2, <3>3, <3>4 DEF r
  <2>7. CASE reply = Records(s \o <<x>>)
    BY <2>3, <2>6, <2>7
  <2>8. CASE reply = Records(s \o <<Unreadable>>)
    BY <2>6, <2>8, NothingSaid
  <2> QED
    BY <2>4, <2>5, <2>7, <2>8
<1> QED
  BY <1>2, <1>3, <1>4 DEF Received

-----------------------------------------------------------------------------
(* The inductive invariant.                                                *)

SensorStates ==
    [mode : {"booted", "ready", "hello", "secure"}, cleaned : BOOLEAN,
     keys : SomeKeys, log : SomeMessages]

\* TypeOK, and the types of the replies; a command is not sent on top of more
\* replies than may be left.
Typed ==
    /\ TypeOK
    /\ sensor \in SensorStates
    /\ pipe \in Seq(Replies)
    /\ ~asked => Len(pipe) <= MaxLate

InTheClear == {"rom", "init", "fwinfo", "blob", "clean", "flash"}

\* The random the sensor gives in an attempt is new: what waits before its
\* flight, or was left by an attempt before, has none that high.
Fresh ==
    /\ \A i \in 1..Len(pipe) :
          /\ HellosBelow(pipe[i].records, 3 * attempts + 3)
          /\ pc \in InTheClear \/ (pc = "hello" /\ (asked => i < Len(pipe))) =>
                HellosBelow(pipe[i].records, 3 * attempts + 1)
    /\ (pc = "hello" /\ asked) \/ pc = "flight" =>
          client_random = 3 * attempts + 1 /\ ~secure_rx
    /\ pc = "hello" /\ asked => server_random = 0
    /\ sensor.mode = "hello" => sensor.keys.server = sensor.keys.client + 1

\* So who has it has read everything there was.
CaughtUp == pc = "flight" /\ ~asked /\ server_random = 3 * attempts + 2 => pipe = <<>>

\* The one reply that turns encryption on was sent when there was nothing left
\* to read: whoever reads it next reads it first, and for an attempt that is
\* no longer the one it was sent in it is the answer to the first command.
Agreed ==
    /\ secure_tx
    /\ sensor.mode = "secure" /\ sensor.keys = keys /\ sensor.log = handshake_hash
Switching ==
    \A i \in 1..Len(pipe) : Switches(pipe[i].records) =>
        /\ i = 1 /\ sensor.mode = "secure"
        /\ pc \in {"rom", "closed", "failed"} \/ (pc = "flight" /\ asked /\ Agreed)

\* Where an attempt is in which nothing has gone wrong.
Prepared == sensor.mode = "ready" /\ (firmware \/ sensor.cleaned)
Told == LET hello == Message("client hello", client_random)
        IN /\ sensor.mode = "hello"
           /\ sensor.keys = [client |-> client_random, server |-> 3 * attempts + 2, ephemeral |-> 0]
           /\ handshake_hash = <<hello>>
           /\ sensor.log = <<hello, ServerHello(3 * attempts + 2), CertificateRequest,
                             ServerHelloDone>>
           /\ \E flight \in HelloFlights(sensor.log) : pipe = <<flight>>
Met ==
    /\ sensor.mode = "hello" /\ sensor.log = handshake_hash
    /\ sensor.keys = [client |-> client_random, server |-> server_random, ephemeral |-> 0]
Undisturbed ==
    calm =>
        /\ pc # "failed"
        /\ pc # "closed" => flash \in Paired
        /\ pc \in Commands /\ ~asked => pipe = <<>>
        /\ pc \in InTheClear /\ asked => Len(pipe) = 1
        /\ pc \in {"rom", "init", "blob", "clean"} /\ asked => CheckStatus(pipe[1])
        /\ pc \in {"rom", "init", "fwinfo"} \/ (pc = "blob" /\ ~asked) => sensor.mode = "booted"
        /\ pc = "fwinfo" /\ asked => (pipe[1].status = "refused" <=> ~firmware)
        /\ pc \in {"blob", "clean"} => (lacking <=> ~firmware)
        /\ (pc = "blob" /\ asked) \/ pc = "clean" => sensor.mode = "ready"
        /\ pc = "clean" /\ asked => sensor.cleaned
        /\ pc = "flash" => Prepared /\ (asked => pipe[1].status = "record")
        /\ pc = "hello" => IF asked THEN Told ELSE Prepared
        /\ pc = "flight" /\ ~asked => Met
        /\ pc = "flight" /\ asked =>
              /\ Agreed
              /\ pipe = <<Records(<<ChangeCipherSpec,
                                    Handshake(keys, <<Finished>>, handshake_hash)>>)>>
        /\ pc = "open" =>
              /\ secure_tx /\ secure_rx /\ sensor.mode = "secure" /\ sensor.keys = keys
              /\ asked => pipe = <<Records(<<Record("app", keys)>>)>>

IInv == Typed /\ Fresh /\ CaughtUp /\ Switching /\ Undisturbed /\ SessionAgrees

-----------------------------------------------------------------------------
(* Sending and reading.                                                    *)

\* What a command that is sent adds to the replies.
LEMMA SendStep ==
    ASSUME IInv, NEW command, NEW reply \in Replies, NEW state \in SensorStates,
           Send(command, reply, state)
    PROVE  /\ pc = command /\ ~asked /\ asked' = TRUE
           /\ UNCHANGED <<pc, attempts, linked, lacking, flash, firmware, rebooted>>
           /\ pipe' \in Seq(Replies) /\ Len(pipe') = Len(pipe) + 1 /\ Len(pipe') <= MaxLate + 1
           /\ \A i \in 1..Len(pipe) : pipe'[i] = pipe[i]
           /\ \/ pipe'[Len(pipe')] = reply /\ sensor' = state /\ calm' = calm
              \/ pipe'[Len(pipe')] = Refused /\ sensor' = sensor /\ calm' = FALSE
<1>1. Refused \in Replies
  BY StatusSaid DEF Refused, Words
<1>2. pipe \in Seq(Replies) /\ Len(pipe) \in Nat /\ MaxLate \in Nat
  BY OpenAssumption DEF IInv, Typed
<1>3. ~asked /\ Len(pipe) <= MaxLate
  BY DEF Send, IInv, Typed
<1>4. PICK r \in {reply, Refused} : /\ pipe' = Append(pipe, r)
                                    /\ \/ r = reply /\ sensor' = state /\ calm' = calm
                                       \/ r = Refused /\ sensor' = sensor /\ calm' = FALSE
  BY DEF Send
<1>5. /\ pipe' \in Seq(Replies) /\ Len(pipe') = Len(pipe) + 1
      /\ \A i \in 1..Len(pipe) : pipe'[i] = pipe[i]
      /\ pipe'[Len(pipe) + 1] = r
  BY <1>1, <1>2, <1>4
<1> QED
  BY <1>2, <1>3, <1>4, <1>5 DEF Send, factVars

\* What a reply that is read leaves, and what was read.
LEMMA ReadStep ==
    ASSUME IInv, NEW command, NEW reply, Read(command, reply)
    PROVE  /\ pc = command /\ asked /\ asked' = FALSE
           /\ UNCHANGED <<attempts, linked, sensor, flash, firmware, rebooted>>
           /\ pipe' \in Seq(Replies) /\ Len(pipe) > 0 /\ Len(pipe') = Len(pipe) - 1
           /\ Len(pipe') <= MaxLate
           /\ \A i \in 1..Len(pipe') : pipe'[i] = pipe[i + 1]
           /\ reply \in Replies
           /\ Switches(reply.records) => Switches(pipe[1].records)
           /\ \A bound \in Nat : HellosBelow(pipe[1].records, bound) =>
                                    HellosBelow(reply.records, bound)
           /\ calm' = (calm /\ reply = pipe[1])
<1>1. /\ pipe \in Seq(Replies) /\ Len(pipe) \in Nat /\ MaxLate \in Nat /\ Len(pipe) <= MaxLate + 1
  BY OpenAssumption DEF IInv, Typed, TypeOK
<1>2. pipe # <<>> /\ reply \in Received(Head(pipe)) /\ pipe' = Tail(pipe)
  BY DEF Read
<1>3. Len(pipe) > 0 /\ Head(pipe) = pipe[1] /\ pipe[1] \in Replies
  BY <1>1, <1>2
<1>4. /\ pipe' \in Seq(Replies) /\ Len(pipe') = Len(pipe) - 1
      /\ \A i \in 1..Len(pipe') : pipe'[i] = pipe[i + 1]
  BY <1>1, <1>2, <1>3
<1>5. /\ reply \in Replies
      /\ Switches(reply.records) => Switches(pipe[1].records)
      /\ \A bound \in Nat : HellosBelow(pipe[1].records, bound) =>
                                    HellosBelow(reply.records, bound)
  BY <1>2, <1>3, ReceivedLess
<1> QED
  BY <1>1, <1>2, <1>3, <1>4, <1>5 DEF Read, factVars

-----------------------------------------------------------------------------
(* Commands in the clear.                                                  *)

\* A refusal holds no records of interest.
LEMMA RefusedSaid ==
    /\ Refused \in Replies /\ ~Switches(Refused.records)
    /\ \A bound \in Nat : HellosBelow(Refused.records, bound)
  BY StatusSaid DEF Refused, Words

\* A command in the clear, whatever becomes of it: and what it comes to when
\* nothing goes wrong.
Sent(command, word, state) ==
    /\ Typed' /\ Fresh' /\ CaughtUp' /\ Switching' /\ SessionAgrees'
    /\ pc' = pc /\ pc = command /\ ~asked /\ asked'
    /\ UNCHANGED <<flash, firmware, lacking>>
    /\ LET free == sensor.mode \in {"booted", "ready"}
       IN calm' => /\ calm /\ (free => sensor' = state)
                   /\ pipe' = Append(pipe, IF free THEN Status(word) ELSE Refused)

\* Whatever becomes of a command in the clear, the protocol's part of the
\* invariant holds.
LEMMA PlainStep ==
    ASSUME IInv, NEW command \in InTheClear, NEW word \in Words, NEW state \in SensorStates,
           Plain(command, Status(word), state),
           state.mode \in {sensor.mode, "ready"}
    PROVE  Sent(command, word, state)
<1> DEFINE free == sensor.mode \in {"booted", "ready"}
           reply == IF free THEN Status(word) ELSE Refused
           after == IF free THEN state ELSE sensor
<1>1. sensor \in SensorStates
  BY DEF IInv, Typed
<1>2. Send(command, reply, after) /\ UNCHANGED tlsVars
  BY DEF Plain
<1>3. /\ reply \in Replies /\ ~Switches(reply.records)
      /\ \A bound \in Nat : HellosBelow(reply.records, bound)
  BY RefusedSaid, StatusSaid
<1>4. after \in SensorStates /\ (after = sensor \/ (free /\ after.mode \in {"booted", "ready"}))
  BY <1>1
<1> HIDE DEF reply, after, free
<1>5. /\ pc = command /\ ~asked /\ asked' = TRUE
      /\ UNCHANGED <<pc, attempts, linked, lacking, flash, firmware, rebooted>>
      /\ pipe' \in Seq(Replies) /\ Len(pipe') = Len(pipe) + 1 /\ Len(pipe') <= MaxLate + 1
      /\ \A i \in 1..Len(pipe) : pipe'[i] = pipe[i]
      /\ \/ pipe'[Len(pipe')] = reply /\ sensor' = after /\ calm' = calm
         \/ pipe'[Len(pipe')] = Refused /\ sensor' = sensor /\ calm' = FALSE
  BY <1>2, <1>3, <1>4, SendStep
<1>6. UNCHANGED <<secure_tx, secure_rx, handshake_hash, client_random, server_random, keys>>
  BY <1>2 DEF tlsVars
<1>7. /\ sensor' \in SensorStates /\ (sensor' = sensor \/ (free /\ sensor'.mode \in {"booted", "ready"}))
      /\ ~Switches(pipe'[Len(pipe')].records)
      /\ \A bound \in Nat : HellosBelow(pipe'[Len(pipe')].records, bound)
  BY <1>1, <1>3, <1>4, <1>5, RefusedSaid
<1>8. Len(pipe) \in Nat /\ attempts \in Nat /\ pc \in Commands /\ pc # "open"
  BY <1>5 DEF IInv, Typed, TypeOK, InTheClear, Commands
<1>9. \A i \in 1..Len(pipe') : i \in 1..Len(pipe) \/ i = Len(pipe')
  BY <1>5, <1>8
<1>10. Typed'
  BY <1>5, <1>6, <1>7, <1>8 DEF IInv, Typed, TypeOK, SensorStates
<1>11. Fresh' /\ CaughtUp'
  <2>1. \A i \in 1..Len(pipe') :
           /\ HellosBelow(pipe'[i].records, 3 * attempts + 3)
           /\ HellosBelow(pipe'[i].records, 3 * attempts + 1)
    BY <1>5, <1>7, <1>8, <1>9 DEF IInv, Fresh
  <2>2. pc # "hello" /\ pc # "flight"
    BY <1>5 DEF InTheClear
  <2>3. sensor'.mode = "hello" => sensor'.keys.server = sensor'.keys.client + 1
    BY <1>7 DEF IInv, Fresh
  <2> QED
    BY <1>5, <1>6, <2>1, <2>2, <2>3 DEF Fresh, CaughtUp
<1>12. Switching'
  <2> SUFFICES ASSUME NEW i \in 1..Len(pipe'), Switches(pipe'[i].records)
               PROVE  i = 1 /\ sensor'.mode = "secure" /\ pc' = "rom"
    BY DEF Switching
  <2>1. i \in 1..Len(pipe) /\ Switches(pipe[i].records)
    BY <1>5, <1>7, <1>9
  <2>2. i = 1 /\ sensor.mode = "secure" /\ pc = "rom"
    BY <1>5, <2>1 DEF IInv, Switching, InTheClear
  <2>3. sensor' = sensor
    BY <1>7, <2>2 DEF free
  <2> QED
    BY <1>5, <2>2, <2>3
<1>13. SessionAgrees'
  BY <1>5, <1>8 DEF SessionAgrees
<1>14. calm' => pipe' = Append(pipe, reply) /\ sensor' = after
  BY <1>2 DEF Send
<1> QED
  BY <1>5, <1>10, <1>11, <1>12, <1>13, <1>14 DEF reply, after, free, Sent

\* Each of them keeps an attempt without faults on its way.
LEMMA SendPlainStep == IInv /\ SendPlain => IInv'
<1> SUFFICES ASSUME IInv, SendPlain PROVE IInv'
  OBVIOUS
<1>1. /\ sensor \in SensorStates
      /\ [sensor EXCEPT !.mode = "ready"] \in SensorStates
      /\ [sensor EXCEPT !.cleaned = TRUE] \in SensorStates
  BY DEF IInv, Typed, SensorStates
<1>2. \A word \in Words : Status(word).status = word
  BY StatusSaid
<1>3. CASE Plain("rom", Status("data"), sensor)
  <2>1. Sent("rom", "data", sensor)
    BY <1>1, <1>3, PlainStep DEF InTheClear, Words, SensorStates
  <2>2. Undisturbed'
    BY <1>1, <1>2, <2>1 DEF Sent, IInv, Undisturbed, Prepared, Commands, InTheClear, CheckStatus,
      Words, SensorStates
  <2> QED
    BY <2>1, <2>2 DEF IInv, Sent
<1>4. CASE Plain("init", Status("ok"), sensor)
  <2>1. Sent("init", "ok", sensor)
    BY <1>1, <1>4, PlainStep DEF InTheClear, Words, SensorStates
  <2>2. Undisturbed'
    BY <1>1, <1>2, <2>1 DEF Sent, IInv, Undisturbed, Prepared, Commands, InTheClear, CheckStatus,
      Words, SensorStates
  <2> QED
    BY <2>1, <2>2 DEF IInv, Sent
<1>5. CASE Plain("fwinfo", IF firmware THEN Status("data") ELSE Refused, sensor)
  <2> DEFINE word == IF firmware THEN "data" ELSE "refused"
  <2>1. word \in Words /\ Status(word) = IF firmware THEN Status("data") ELSE Refused
    BY DEF Words, Refused
  <2> HIDE DEF word
  <2>2. Sent("fwinfo", word, sensor)
    BY <1>1, <1>5, <2>1, PlainStep DEF InTheClear
  <2>3. word = "refused" <=> ~firmware
    BY DEF word
  <2>4. Undisturbed'
    BY <1>1, <1>2, <2>1, <2>2, <2>3 DEF Sent, IInv, Undisturbed, Commands, InTheClear, SensorStates
  <2> QED
    BY <2>2, <2>4 DEF IInv, Sent
<1>6. CASE Plain("blob", Status("ok"), [sensor EXCEPT !.mode = "ready"])
  <2>1. Sent("blob", "ok", [sensor EXCEPT !.mode = "ready"])
    BY <1>1, <1>6, PlainStep DEF InTheClear, Words, SensorStates
  <2>2. Undisturbed'
    BY <1>1, <1>2, <2>1 DEF Sent, IInv, Undisturbed, Prepared, Commands, InTheClear, CheckStatus,
      Words, SensorStates
  <2> QED
    BY <2>1, <2>2 DEF IInv, Sent
<1>7. CASE Plain("clean", Status("ok"), [sensor EXCEPT !.cleaned = TRUE])
  <2>1. Sent("clean", "ok", [sensor EXCEPT !.cleaned = TRUE])
    BY <1>1, <1>7, PlainStep DEF InTheClear, Words, SensorStates
  <2>2. Undisturbed'
    BY <1>1, <1>2, <2>1 DEF Sent, IInv, Undisturbed, Prepared, Commands, InTheClear, CheckStatus,
      Words, SensorStates
  <2> QED
    BY <2>1, <2>2 DEF IInv, Sent
<1>8. CASE Plain("flash", Status("record"), sensor)
  <2>1. Sent("flash", "record", sensor)
    BY <1>1, <1>8, PlainStep DEF InTheClear, Words, SensorStates
  <2>2. Undisturbed'
    BY <1>1, <1>2, <2>1 DEF Sent, IInv, Undisturbed, Prepared, Commands, InTheClear, CheckStatus,
      Words, SensorStates
  <2> QED
    BY <2>1, <2>2 DEF IInv, Sent
<1> QED
  BY <1>3, <1>4, <1>5, <1>6, <1>7, <1>8 DEF SendPlain

\* A reply to a command in the clear, whatever it is.
LEMMA ClearReadStep ==
    ASSUME IInv, NEW command \in InTheClear, NEW reply, Read(command, reply),
           pc' \in InTheClear \cup {"failed", "hello"}, lacking' \in BOOLEAN, UNCHANGED tlsVars
    PROVE  Typed' /\ Fresh' /\ CaughtUp' /\ Switching' /\ SessionAgrees'
<1>1. /\ pc = command /\ asked /\ asked' = FALSE
      /\ UNCHANGED <<attempts, linked, sensor, flash, firmware, rebooted>>
      /\ pipe' \in Seq(Replies) /\ Len(pipe) > 0 /\ Len(pipe') = Len(pipe) - 1
      /\ Len(pipe') <= MaxLate
      /\ \A i \in 1..Len(pipe') : pipe'[i] = pipe[i + 1]
  BY ReadStep
<1>2. UNCHANGED <<secure_tx, secure_rx, handshake_hash, client_random, server_random, keys>>
  BY DEF tlsVars
<1>3. /\ Len(pipe) \in Nat /\ attempts \in Nat /\ calm \in BOOLEAN /\ MaxLate \in Nat
      /\ pipe # <<>>
  BY <1>1, OpenAssumption DEF IInv, Typed, TypeOK
<1>4. \A i \in 1..Len(pipe') : i + 1 \in 1..Len(pipe) /\ i + 1 # 1
  BY <1>1, <1>3
<1>5. pc' \in Commands \cup {"failed"} /\ pc' # "closed" /\ pc' # "open" /\ pc' # "flight"
  BY DEF InTheClear, Commands
<1>6. calm' \in BOOLEAN /\ Len(pipe') <= MaxLate + 1
  <2>1. calm' \in BOOLEAN
    BY Zenon DEF Read
  <2> QED
    BY <1>1, <1>3, <2>1
<1>7. Typed'
  BY <1>1, <1>2, <1>3, <1>5, <1>6 DEF IInv, Typed, TypeOK, SensorStates
<1>8. Fresh' /\ CaughtUp'
  <2>1. \A i \in 1..Len(pipe') :
           /\ HellosBelow(pipe'[i].records, 3 * attempts + 3)
           /\ HellosBelow(pipe'[i].records, 3 * attempts + 1)
    BY <1>1, <1>3, <1>4 DEF IInv, Fresh
  <2> QED
    BY <1>1, <1>2, <1>5, <2>1 DEF IInv, Fresh, CaughtUp
<1>9. Switching'
  BY <1>1, <1>4 DEF IInv, Switching
<1>10. SessionAgrees'
  BY <1>5 DEF SessionAgrees
<1> QED
  BY <1>7, <1>8, <1>9, <1>10

\* What a reply to a command in the clear leaves of an attempt without faults.
LEMMA CalmRead ==
    ASSUME IInv, NEW command \in InTheClear, NEW reply, Read(command, reply), calm'
    PROVE  calm /\ reply = pipe[1] /\ pipe' = <<>> /\ flash \in Paired /\ Len(pipe) = 1
<1>1. calm /\ reply = pipe[1]
  BY ReadStep
<1>2. Len(pipe) = 1 /\ flash \in Paired
  BY <1>1 DEF IInv, Undisturbed, Read, InTheClear
<1>3. pipe' \in Seq(Replies) /\ Len(pipe') = Len(pipe) - 1
  BY ReadStep
<1>4. pipe' = <<>>
  BY <1>2, <1>3
<1> QED
  BY <1>1, <1>2, <1>4

\* ROM information, init and the blob: the next command, or failure.
LEMMA ReadInitStep == ASSUME IInv, NEW reply, ReadInit(reply) PROVE IInv'
<1> DEFINE Taken(command) ==
        /\ Read(command, reply) /\ asked /\ ~asked'
        /\ UNCHANGED <<sensor, flash, firmware, lacking>>
        /\ Typed' /\ Fresh' /\ CaughtUp' /\ Switching' /\ SessionAgrees'
<1>1. ASSUME NEW command \in InTheClear, Read(command, reply),
             pc' \in InTheClear \cup {"failed", "hello"}
      PROVE  Taken(command)
  <2>1. UNCHANGED tlsVars /\ UNCHANGED lacking /\ lacking \in BOOLEAN
    BY DEF ReadInit, hostVars, IInv, Typed, TypeOK
  <2>2. Typed' /\ Fresh' /\ CaughtUp' /\ Switching' /\ SessionAgrees'
    BY <1>1, <2>1, ClearReadStep
  <2> QED
    BY <1>1, <2>1, <2>2, ReadStep
<1>2. CASE Read("rom", reply) /\ pc' = IF CheckStatus(reply) THEN "init" ELSE "failed"
  <2>1. Taken("rom") /\ pc = "rom"
    BY <1>1, <1>2, ReadStep DEF InTheClear
  <2>2. Undisturbed'
    <3> SUFFICES ASSUME calm' PROVE Undisturbed'
      BY DEF Undisturbed
    <3>1. calm /\ reply = pipe[1] /\ pipe' = <<>> /\ flash \in Paired
      BY <2>1, CalmRead DEF InTheClear
    <3>2. CheckStatus(reply) /\ sensor.mode = "booted"
      BY <2>1, <3>1 DEF IInv, Undisturbed
    <3> QED
      BY <1>2, <2>1, <3>1, <3>2 DEF Undisturbed, InTheClear
  <2> QED
    BY <2>1, <2>2 DEF IInv
<1>3. CASE Read("init", reply) /\ pc' = IF CheckStatus(reply) THEN "fwinfo" ELSE "failed"
  <2>1. Taken("init") /\ pc = "init"
    BY <1>1, <1>3, ReadStep DEF InTheClear
  <2>2. Undisturbed'
    <3> SUFFICES ASSUME calm' PROVE Undisturbed'
      BY DEF Undisturbed
    <3>1. calm /\ reply = pipe[1] /\ pipe' = <<>> /\ flash \in Paired
      BY <2>1, CalmRead DEF InTheClear
    <3>2. CheckStatus(reply) /\ sensor.mode = "booted"
      BY <2>1, <3>1 DEF IInv, Undisturbed
    <3> QED
      BY <1>3, <2>1, <3>1, <3>2 DEF Undisturbed, InTheClear
  <2> QED
    BY <2>1, <2>2 DEF IInv
<1>4. CASE /\ Read("blob", reply)
           /\ pc' = IF ~CheckStatus(reply) THEN "failed" ELSE IF lacking THEN "clean" ELSE "flash"
  <2>1. Taken("blob") /\ pc = "blob"
    BY <1>1, <1>4, ReadStep DEF InTheClear
  <2>2. Undisturbed'
    <3> SUFFICES ASSUME calm' PROVE Undisturbed'
      BY DEF Undisturbed
    <3>1. calm /\ reply = pipe[1] /\ pipe' = <<>> /\ flash \in Paired
      BY <2>1, CalmRead DEF InTheClear
    <3>2. CheckStatus(reply) /\ sensor.mode = "ready" /\ (lacking <=> ~firmware)
      BY <2>1, <3>1 DEF IInv, Undisturbed
    <3> QED
      BY <1>4, <2>1, <3>1, <3>2 DEF Undisturbed, InTheClear, Prepared
  <2> QED
    BY <2>1, <2>2 DEF IInv
<1> QED
  BY <1>2, <1>3, <1>4 DEF ReadInit

\* Firmware information may be refused: it then lacks an extension.
LEMMA ReadFirmwareStep == ASSUME IInv, NEW reply, ReadFirmware(reply) PROVE IInv'
<1>1. Read("fwinfo", reply) /\ pc' = "blob" /\ UNCHANGED tlsVars
  BY DEF ReadFirmware
<1>2. lacking' \in BOOLEAN
  BY Zenon DEF ReadFirmware
<1>3. Typed' /\ Fresh' /\ CaughtUp' /\ Switching' /\ SessionAgrees'
  BY <1>1, <1>2, ClearReadStep DEF InTheClear
<1>4. Undisturbed'
  <2> SUFFICES ASSUME calm' PROVE Undisturbed'
    BY DEF Undisturbed
  <2>1. /\ calm /\ reply = pipe[1] /\ pipe' = <<>> /\ flash \in Paired
        /\ pc = "fwinfo" /\ asked /\ ~asked' /\ UNCHANGED <<sensor, flash, firmware>>
    BY <1>1, CalmRead, ReadStep DEF InTheClear
  <2>2. (reply.status = "refused" <=> ~firmware) /\ sensor.mode = "booted"
    BY <2>1 DEF IInv, Undisturbed
  <2>3. lacking' <=> reply.status = "refused"
    BY Zenon DEF ReadFirmware
  <2> QED
    BY <1>1, <2>1, <2>2, <2>3 DEF Undisturbed, InTheClear
<1> QED
  BY <1>3, <1>4 DEF IInv

\* The answer to the clean slate is not looked at.
LEMMA ReadCleanStep == ASSUME IInv, NEW reply, ReadClean(reply) PROVE IInv'
<1>1. Read("clean", reply) /\ pc' = "flash" /\ UNCHANGED tlsVars /\ UNCHANGED lacking
  BY DEF ReadClean, hostVars
<1>2. lacking' \in BOOLEAN
  BY <1>1 DEF IInv, Typed, TypeOK
<1>3. Typed' /\ Fresh' /\ CaughtUp' /\ Switching' /\ SessionAgrees'
  BY <1>1, <1>2, ClearReadStep DEF InTheClear
<1>4. Undisturbed'
  <2> SUFFICES ASSUME calm' PROVE Undisturbed'
    BY DEF Undisturbed
  <2>1. /\ calm /\ reply = pipe[1] /\ pipe' = <<>> /\ flash \in Paired
        /\ pc = "clean" /\ asked /\ ~asked' /\ UNCHANGED <<sensor, flash, firmware>>
    BY <1>1, CalmRead, ReadStep DEF InTheClear
  <2>2. sensor.cleaned /\ sensor.mode = "ready"
    BY <2>1 DEF IInv, Undisturbed
  <2> QED
    BY <1>1, <2>1, <2>2 DEF Undisturbed, InTheClear, Prepared
<1> QED
  BY <1>3, <1>4 DEF IInv

\* A record that pairs the two is made into keys.
LEMMA ReadFlashStep == ASSUME IInv, NEW reply, ReadFlash(reply) PROVE IInv'
<1>1. /\ Read("flash", reply) /\ UNCHANGED tlsVars /\ UNCHANGED lacking
      /\ pc' = IF reply.status = "record" /\ Material(flash) THEN "hello" ELSE "failed"
  BY DEF ReadFlash, hostVars
<1>2. lacking' \in BOOLEAN
  BY <1>1 DEF IInv, Typed, TypeOK
<1>3. Typed' /\ Fresh' /\ CaughtUp' /\ Switching' /\ SessionAgrees'
  BY <1>1, <1>2, ClearReadStep DEF InTheClear
<1>4. Undisturbed'
  <2> SUFFICES ASSUME calm' PROVE Undisturbed'
    BY DEF Undisturbed
  <2>1. /\ calm /\ reply = pipe[1] /\ pipe' = <<>> /\ flash \in Paired
        /\ pc = "flash" /\ asked /\ ~asked' /\ UNCHANGED <<sensor, flash, firmware>>
    BY <1>1, CalmRead, ReadStep DEF InTheClear
  <2>2. reply.status = "record" /\ Material(flash) /\ Prepared
    BY <2>1, PairedAssumption DEF IInv, Undisturbed
  <2> QED
    BY <1>1, <2>1, <2>2 DEF Undisturbed, InTheClear, Prepared
<1> QED
  BY <1>3, <1>4 DEF IInv

-----------------------------------------------------------------------------
(* The device opened, dropped, reset, or not heard.                        *)

\* A sensor that was reset, and a pipe with nothing in it.
LEMMA BootedTyped == Booted \in SensorStates /\ Booted.mode = "booted"
<1> DEFINE X == SomeMessages
<1>1. <<>> \in X
  BY DEF SomeMessages
<1> HIDE DEF X
<1>2. Booted \in [mode : {"booted", "ready", "hello", "secure"}, cleaned : BOOLEAN,
                  keys : SomeKeys, log : X]
  BY <1>1, NothingSaid DEF Booted
<1> QED
  BY <1>2 DEF X, SensorStates, Booted

LEMMA NoReplies == <<>> \in Seq(Replies) /\ Len(<<>>) = 0
  OBVIOUS

\* A bound on the ServerHellos may be raised.
LEMMA HellosUpTo ==
    ASSUME NEW reply \in Replies, NEW low \in Nat, NEW high \in Nat, low <= high,
           HellosBelow(reply.records, low)
    PROVE  HellosBelow(reply.records, high)
<1> SUFFICES ASSUME NEW k \in 1..Len(reply.records)
             PROVE  HellosIn(reply.records[k], high)
  BY DEF HellosBelow
<1> DEFINE record == reply.records[k]
<1>1. record \in SomeRecords
  <2>1. reply.records \in Seq(SomeRecords)
    BY DEF Replies
  <2> QED
    BY <2>1
<1>2. HellosIn(record, low)
  BY DEF HellosBelow
<1> HIDE DEF record
<1>3. \A j \in 1..Len(record.messages) : record.messages[j].value \in Nat
  <2> DEFINE M == [type : MessageTypes, value : Nat]
  <2>1. record.messages \in Seq(M) /\ \A m \in M : m.value \in Nat
    BY <1>1 DEF SomeRecords, SomeMessages
  <2> HIDE DEF M
  <2> QED
    BY <2>1
<1>4. HellosIn(record, high)
  <2>1. \A v \in Nat : v < low => v < high
    OBVIOUS
  <2> QED
    BY <1>2, <1>3, <2>1 DEF HellosIn
<1> QED
  BY <1>4 DEF record

\* A reset that worked leaves nothing of what was before; one that failed ends
\* the hope of an attempt without faults.
LEMMA OpenStep == IInv /\ Open => IInv'
<1> SUFFICES ASSUME IInv, Open PROVE IInv'
  OBVIOUS
<1>1. /\ pc = "closed" /\ ~asked /\ attempts \in Nat /\ attempts < MaxAttempts
      /\ attempts' = attempts + 1 /\ pc' = "rom" /\ asked' = FALSE
      /\ UNCHANGED <<lacking, secure_tx, secure_rx, handshake_hash, client_random, server_random,
                     keys, flash, firmware>>
      /\ linked' = TRUE /\ rebooted' = FALSE
  BY DEF Open, hostVars, tlsVars, factVars, IInv, Typed, TypeOK, Commands
<1>2. \/ pipe' = <<>> /\ sensor' = Booted
      \/ UNCHANGED <<pipe, sensor>> /\ calm' = FALSE
  BY DEF Open
<1>3. calm' \in BOOLEAN /\ MaxLate \in Nat /\ MaxAttempts \in Nat
  <2>1. CASE calm' = (flash \in Paired)
    BY <2>1, OpenAssumption
  <2>2. CASE calm' = FALSE
    BY <2>2, OpenAssumption
  <2> QED
    BY <2>1, <2>2 DEF Open
<1>4. pipe' \in Seq(Replies) /\ sensor' \in SensorStates /\ Len(pipe') <= MaxLate
  <2>1. CASE pipe' = <<>> /\ sensor' = Booted
    BY <1>3, <2>1, BootedTyped, NoReplies
  <2>2. CASE UNCHANGED <<pipe, sensor>>
    BY <1>1, <2>2 DEF IInv, Typed
  <2> QED
    BY <1>2, <2>1, <2>2
<1>5. Typed'
  <2>1. attempts' \in 0..MaxAttempts /\ Len(pipe') <= MaxLate + 1
    BY <1>1, <1>3, <1>4
  <2> QED
    BY <1>1, <1>3, <1>4, <2>1 DEF IInv, Typed, TypeOK, SensorStates, Commands
<1>6. Fresh' /\ CaughtUp'
  <2>1. \A i \in 1..Len(pipe') :
           /\ HellosBelow(pipe'[i].records, 3 * attempts' + 3)
           /\ HellosBelow(pipe'[i].records, 3 * attempts' + 1)
    <3>1. CASE pipe' = <<>>
      BY <3>1
    <3>2. CASE UNCHANGED pipe
      <4> TAKE i \in 1..Len(pipe')
      <4>1. pipe[i] \in Replies /\ HellosBelow(pipe[i].records, 3 * attempts + 3)
        BY <3>2 DEF IInv, Typed, Fresh
      <4>2. /\ 3 * attempts + 3 \in Nat /\ 3 * attempts' + 3 \in Nat /\ 3 * attempts' + 1 \in Nat
            /\ 3 * attempts + 3 <= 3 * attempts' + 3 /\ 3 * attempts + 3 <= 3 * attempts' + 1
        BY <1>1
      <4> QED
        BY <3>2, <4>1, <4>2, HellosUpTo
    <3> QED
      BY <1>2, <3>1, <3>2
  <2>2. sensor'.mode = "hello" => sensor'.keys.server = sensor'.keys.client + 1
    BY <1>2, BootedTyped DEF IInv, Fresh
  <2> QED
    BY <1>1, <2>1, <2>2 DEF Fresh, CaughtUp
<1>7. Switching'
  BY <1>1, <1>2, NoReplies DEF IInv, Switching
<1>8. Undisturbed'
  <2> SUFFICES ASSUME calm' PROVE Undisturbed'
    BY DEF Undisturbed
  <2>1. pipe' = <<>> /\ sensor' = Booted /\ flash \in Paired
    BY DEF Open
  <2> QED
    BY <1>1, <2>1, BootedTyped DEF Undisturbed, InTheClear
<1>9. SessionAgrees'
  BY <1>1 DEF SessionAgrees
<1> QED
  BY <1>5, <1>6, <1>7, <1>8, <1>9 DEF IInv

\* After a reset of the sensor nothing is left to read.
LEMMA RebootStep == IInv /\ Reboot => IInv'
<1> SUFFICES ASSUME IInv, Reboot PROVE IInv'
  OBVIOUS
<1>1. /\ linked /\ pipe' = <<>> /\ sensor' = Booted /\ linked' \in BOOLEAN
      /\ calm' = FALSE /\ rebooted' = TRUE
      /\ UNCHANGED <<pc, asked, attempts, lacking, secure_tx, secure_rx, handshake_hash,
                     client_random, server_random, keys, flash, firmware>>
  BY DEF Reboot, hostVars, tlsVars, factVars
<1>2. pipe' \in Seq(Replies) /\ Len(pipe') = 0 /\ sensor' \in SensorStates /\ MaxLate \in Nat
  BY <1>1, BootedTyped, NoReplies, OpenAssumption
<1>3. Typed'
  <2>1. Len(pipe') <= MaxLate /\ Len(pipe') <= MaxLate + 1
    BY <1>2
  <2> QED
    BY <1>1, <1>2, <2>1 DEF IInv, Typed, TypeOK, SensorStates
<1>4. Fresh' /\ CaughtUp' /\ Switching'
  BY <1>1, <1>2, BootedTyped DEF IInv, Fresh, CaughtUp, Switching
<1>5. Undisturbed' /\ SessionAgrees'
  BY <1>1 DEF Undisturbed, SessionAgrees
<1> QED
  BY <1>3, <1>4, <1>5 DEF IInv

\* What is left in the pipe is left to the next attempt.
LEMMA CloseStep == IInv /\ Close => IInv'
<1> SUFFICES ASSUME IInv, Close PROVE IInv'
  OBVIOUS
<1>1. /\ pc \in {"failed", "open"} /\ ~asked /\ pc' = "closed" /\ linked' = FALSE
      /\ UNCHANGED <<asked, attempts, lacking, secure_tx, secure_rx, handshake_hash,
                     client_random, server_random, keys, pipe, sensor, flash, firmware, calm,
                     rebooted>>
  BY DEF Close, hostVars, tlsVars, factVars
<1>2. Typed'
  BY <1>1 DEF IInv, Typed, TypeOK, Commands
<1>3. Fresh' /\ CaughtUp' /\ Switching'
  BY <1>1 DEF IInv, Fresh, CaughtUp, Switching, InTheClear
<1>4. Undisturbed' /\ SessionAgrees'
  BY <1>1 DEF Undisturbed, SessionAgrees, InTheClear, Commands
<1> QED
  BY <1>2, <1>3, <1>4 DEF IInv

\* A reply that is late, or never comes.
LEMMA TimesOutStep == IInv /\ TimesOut => IInv'
<1> SUFFICES ASSUME IInv, TimesOut PROVE IInv'
  OBVIOUS
<1>1. /\ pc \in Commands /\ Len(pipe') <= MaxLate /\ asked' = FALSE /\ calm' = FALSE
      /\ pc' = "failed" \/ (pc = "open" /\ pc' = "open")
      /\ UNCHANGED <<attempts, linked, lacking, secure_tx, secure_rx, handshake_hash,
                     client_random, server_random, keys, sensor, flash, firmware, rebooted>>
  BY DEF TimesOut, GivesUp, hostVars, tlsVars, factVars, IInv, Typed, TypeOK
<1>2. pipe \in Seq(Replies) /\ MaxLate \in Nat /\ attempts \in Nat
  BY OpenAssumption DEF IInv, Typed, TypeOK
<1>3. /\ pipe' \in Seq(Replies) /\ Len(pipe') \in Nat
      /\ \A i \in 1..Len(pipe') : i \in 1..Len(pipe) /\ pipe'[i] = pipe[i]
  <2>1. CASE pipe # <<>> /\ pipe' = Front(pipe)
    BY <1>2, <2>1 DEF Front
  <2>2. CASE UNCHANGED pipe
    BY <1>2, <2>2
  <2> QED
    BY <2>1, <2>2 DEF TimesOut
<1>4. Typed'
  <2>1. Len(pipe') <= MaxLate + 1
    BY <1>1, <1>2, <1>3
  <2> QED
    BY <1>1, <1>2, <1>3, <2>1 DEF IInv, Typed, TypeOK, Commands
<1>5. Fresh' /\ CaughtUp' /\ Switching'
  BY <1>1, <1>3 DEF IInv, Fresh, CaughtUp, Switching, InTheClear
<1>6. Undisturbed' /\ SessionAgrees'
  BY <1>1 DEF IInv, Undisturbed, SessionAgrees
<1> QED
  BY <1>4, <1>5, <1>6 DEF IInv

-----------------------------------------------------------------------------
(* The handshake: the hello.                                               *)

\* A handshake record of messages.
LEMMA HandshakeTyped ==
    ASSUME NEW under \in SomeKeys, NEW messages \in SomeMessages, NEW verify \in SomeMessages
    PROVE  LET record == Handshake(under, messages, verify)
           IN /\ record \in SomeRecords /\ record.type = "handshake" /\ record.under = under
              /\ record.messages = messages /\ record.verify = verify /\ record.whole = TRUE
<1> DEFINE X == SomeMessages
           record == Handshake(under, messages, verify)
<1>1. messages \in X /\ verify \in X
  OBVIOUS
<1>2. /\ record.type = "handshake" /\ record.under = under
      /\ record.messages = messages /\ record.verify = verify /\ record.whole = TRUE
  BY DEF Handshake
<1> HIDE DEF X
<1>3. record \in [type : RecordTypes, under : SomeKeys, messages : X, verify : X, whole : BOOLEAN]
  BY <1>1 DEF Handshake, RecordTypes
<1> HIDE DEF record
<1> QED
  BY <1>2, <1>3 DEF X, SomeRecords, record

\* The host's hello, and the transcript of a greeting: the hello and the sensor's three.
Hello(value) == Message("client hello", value)
Greeting(hello, value) ==
    <<hello, ServerHello(value), CertificateRequest, ServerHelloDone>>

\* What a greeting is made of.
LEMMA GreetingTyped ==
    ASSUME NEW n \in Nat, NEW value \in Nat
    PROVE  LET hello == Hello(n)
               log == Greeting(hello, value)
           IN /\ log \in SomeMessages /\ <<hello>> \in SomeMessages
              /\ log[1] = hello /\ Len(log) = 4
              /\ Tail(log) \in SomeMessages /\ Len(Tail(log)) = 3
              /\ Tail(log)[1] = ServerHello(value)
              /\ Tail(log)[2] = CertificateRequest /\ Tail(log)[3] = ServerHelloDone
              /\ \A i \in 1..3 : log[i + 1] = Tail(log)[i] /\ <<Tail(log)[i]>> \in SomeMessages
<1> DEFINE M == [type : MessageTypes, value : Nat]
           m == Hello(n)
           m1 == ServerHello(value)
           m2 == CertificateRequest
           m3 == ServerHelloDone
<1>1. m \in M /\ m1 \in M /\ m2 \in M /\ m3 \in M
  BY DEF Hello, Message, ServerHello, CertificateRequest, ServerHelloDone, MessageTypes
<1> HIDE DEF M, m, m1, m2, m3
<1> DEFINE s == <<m, m1, m2, m3>>
<1>2. /\ s \in Seq(M) /\ <<m>> \in Seq(M) /\ Len(s) = 4 /\ s[1] = m
      /\ Tail(s) \in Seq(M) /\ Len(Tail(s)) = 3
      /\ Tail(s)[1] = m1 /\ Tail(s)[2] = m2 /\ Tail(s)[3] = m3
      /\ \A i \in 1..3 : s[i + 1] = Tail(s)[i]
  BY <1>1
<1>3. \A i \in 1..3 : <<Tail(s)[i]>> \in Seq(M)
  BY <1>2
<1> HIDE DEF s
<1> QED
  BY <1>2, <1>3 DEF s, m, m1, m2, m3, M, Greeting, SomeMessages

\* A function of 1..3 is a sequence of three.
LEMMA Three ==
    ASSUME NEW X, NEW f \in [1..3 -> X]
    PROVE  f \in Seq(X) /\ Len(f) = 3
<1>1. f \in Seq(X)
  BY SeqDef
<1>2. DOMAIN f = 1..3 /\ DOMAIN f = 1..Len(f) /\ Len(f) \in Nat
  <2>1. DOMAIN f = 1..3
    OBVIOUS
  <2>2. DOMAIN f = 1..Len(f) /\ Len(f) \in Nat
    BY <1>1, LenProperties
  <2> QED
    BY <2>1, <2>2
<1>3. 3 \in 1..Len(f) /\ ~(Len(f) > 3)
  <2>1. 3 \in 1..3
    OBVIOUS
  <2>2. \A i \in Nat : i \in 1..3 => i <= 3
    OBVIOUS
  <2>3. Len(f) > 3 => Len(f) \in 1..Len(f)
    BY <1>2
  <2> QED
    BY <1>2, <2>1, <2>2, <2>3
<1> QED
  BY <1>1, <1>2, <1>3

\* The flight is one record of the three messages, or three of one each.
LEMMA FlightShape ==
    ASSUME NEW n \in Nat, NEW value \in Nat,
           NEW flight \in HelloFlights(Greeting(Hello(n), value))
    PROVE  LET m == Tail(Greeting(Hello(n), value))
               r == flight.records
           IN /\ flight \in Replies /\ r \in Seq(SomeRecords)
              /\ \/ Len(r) = 1 /\ r[1] = Handshake(NoKeys, m, <<>>)
                 \/ Len(r) = 3 /\ \A i \in 1..3 : r[i] = Handshake(NoKeys, <<m[i]>>, <<>>)
<1> DEFINE log == Greeting(Hello(n), value)
           m == Tail(log)
           one == <<Handshake(NoKeys, m, <<>>)>>
           three == [i \in 1..3 |-> Handshake(NoKeys, <<log[i + 1]>>, <<>>)]
<1>1. /\ m \in SomeMessages /\ \A i \in 1..3 : log[i + 1] = m[i] /\ <<m[i]>> \in SomeMessages
  BY GreetingTyped
<1>2. flight = Records(one) \/ flight = Records(three)
  BY DEF HelloFlights
<1> HIDE DEF m, log
<1>3. <<>> \in SomeMessages /\ NoKeys \in SomeKeys
  BY NothingSaid DEF SomeMessages
<1>4. /\ Handshake(NoKeys, m, <<>>) \in SomeRecords
      /\ \A i \in 1..3 : Handshake(NoKeys, <<m[i]>>, <<>>) \in SomeRecords
  BY <1>1, <1>3, HandshakeTyped
<1>5. one \in Seq(SomeRecords) /\ Len(one) = 1 /\ one[1] = Handshake(NoKeys, m, <<>>)
  <2> DEFINE h == Handshake(NoKeys, m, <<>>)
             X == SomeRecords
  <2>1. h \in X
    BY <1>4
  <2> HIDE DEF h, X
  <2>2. <<h>> \in Seq(X) /\ Len(<<h>>) = 1 /\ <<h>>[1] = h
    BY <2>1
  <2> QED
    BY <2>2 DEF h, X
<1>6. /\ three \in Seq(SomeRecords) /\ Len(three) = 3
      /\ \A i \in 1..3 : three[i] = Handshake(NoKeys, <<m[i]>>, <<>>)
  <2>1. \A i \in 1..3 : three[i] = Handshake(NoKeys, <<m[i]>>, <<>>)
    BY <1>1
  <2>2. DOMAIN three = 1..3
    OBVIOUS
  <2> DEFINE X == SomeRecords
  <2>3. three = [i \in 1..3 |-> three[i]] /\ \A i \in 1..3 : three[i] \in X
    BY <1>4, <2>1
  <2> HIDE DEF three, X
  <2>4. three \in [1..3 -> X]
    BY <2>3
  <2>5. three \in Seq(X) /\ Len(three) = 3
    BY <2>4, Three
  <2>6. three \in Seq(SomeRecords) /\ Len(three) = 3
    BY <2>5 DEF X
  <2> QED
    BY <2>1, <2>6
<1> HIDE DEF one, three
<1>7. CASE flight = Records(one)
  <2>1. flight \in Replies /\ flight.records = one
    BY <1>5, <1>7, ReplyTyped DEF Records, Words
  <2> QED
    BY <1>5, <2>1 DEF m, log
<1>8. CASE flight = Records(three)
  <2>1. flight \in Replies /\ flight.records = three
    BY <1>6, <1>8, ReplyTyped DEF Records, Words
  <2> QED
    BY <1>6, <2>1 DEF m, log
<1> QED
  BY <1>2, <1>7, <1>8

\* It turns nothing on, and its random is the one it was given.
LEMMA FlightSaid ==
    ASSUME NEW n \in Nat, NEW value \in Nat,
           NEW flight \in HelloFlights(Greeting(Hello(n), value)),
           NEW bound \in Nat, value < bound
    PROVE  ~Switches(flight.records) /\ HellosBelow(flight.records, bound)
<1> DEFINE m == Tail(Greeting(Hello(n), value))
           r == flight.records
<1>1. \/ Len(r) = 1 /\ r[1] = Handshake(NoKeys, m, <<>>)
      \/ Len(r) = 3 /\ \A i \in 1..3 : r[i] = Handshake(NoKeys, <<m[i]>>, <<>>)
  BY FlightShape
<1>2. /\ Len(m) = 3
      /\ m[1] = ServerHello(value) /\ m[2] = CertificateRequest /\ m[3] = ServerHelloDone
  BY GreetingTyped
<1> HIDE DEF m, r
<1>3. \A i \in 1..3 : m[i].type = "server hello" => m[i].value < bound
  <2>1. /\ ServerHello(value).value = value
        /\ CertificateRequest.type # "server hello" /\ ServerHelloDone.type # "server hello"
    BY DEF ServerHello, CertificateRequest, ServerHelloDone, Message
  <2>2. \A i \in 1..3 : i = 1 \/ i = 2 \/ i = 3
    OBVIOUS
  <2> QED
    BY <1>2, <2>1, <2>2
<1>4. /\ HellosIn(Handshake(NoKeys, m, <<>>), bound)
      /\ \A i \in 1..3 : HellosIn(Handshake(NoKeys, <<m[i]>>, <<>>), bound)
  <2>1. HellosIn(Handshake(NoKeys, m, <<>>), bound)
    BY <1>2, <1>3 DEF HellosIn, Handshake
  <2>2. ASSUME NEW i \in 1..3 PROVE HellosIn(Handshake(NoKeys, <<m[i]>>, <<>>), bound)
    <3>1. Handshake(NoKeys, <<m[i]>>, <<>>).messages = <<m[i]>>
      BY DEF Handshake
    <3> DEFINE x == m[i]
    <3>2. x.type = "server hello" => x.value < bound
      BY <1>3
    <3> HIDE DEF x
    <3>3. \A j \in 1..Len(<<x>>) : <<x>>[j] = x
      OBVIOUS
    <3> QED
      BY <3>1, <3>2, <3>3 DEF HellosIn, x
  <2> QED
    BY <2>1, <2>2
<1>5. ASSUME NEW k \in 1..Len(r) PROVE r[k].type = "handshake" /\ HellosIn(r[k], bound)
  <2>1. CASE Len(r) = 1 /\ r[1] = Handshake(NoKeys, m, <<>>)
    <3>1. k = 1
      BY <2>1
    <3>2. r[k] = Handshake(NoKeys, m, <<>>)
      BY <2>1, <3>1
    <3> QED
      BY <1>4, <3>2 DEF Handshake
  <2>2. CASE Len(r) = 3 /\ \A i \in 1..3 : r[i] = Handshake(NoKeys, <<m[i]>>, <<>>)
    <3>1. k \in 1..3
      BY <2>2
    <3>2. r[k] = Handshake(NoKeys, <<m[k]>>, <<>>)
      BY <2>2, <3>1
    <3>3. HellosIn(Handshake(NoKeys, <<m[k]>>, <<>>), bound)
      BY <1>4, <3>1
    <3>4. Handshake(NoKeys, <<m[k]>>, <<>>).type = "handshake"
      BY DEF Handshake
    <3> QED
      BY <3>2, <3>3, <3>4
  <2> QED
    BY <1>1, <2>1, <2>2
<1> QED
  BY <1>5 DEF Switches, HellosBelow, r

\* The hello, and the flight in answer: its random is new.
LEMMA SendHelloStep == IInv /\ SendHello => IInv'
<1> SUFFICES ASSUME IInv, SendHello PROVE IInv'
  OBVIOUS
<1> DEFINE n == 3 * attempts + 1
           value == 3 * attempts + 2
           hello == Hello(n)
           log == Greeting(hello, value)
           greeted == Greeted(hello, value)
<1>1. /\ attempts \in Nat /\ n \in Nat /\ value \in Nat /\ value = n + 1
      /\ 3 * attempts + 3 \in Nat /\ value < 3 * attempts + 3
  BY DEF IInv, Typed, TypeOK
<1>2. /\ pc = "hello" /\ secure_tx' = FALSE /\ secure_rx' = FALSE
      /\ client_random' = n /\ handshake_hash' = <<hello>>
      /\ server_random' = 0 /\ keys' = NoKeys
  BY DEF SendHello, ClientHello, Hello, Message
<1>3. /\ log \in SomeMessages /\ <<hello>> \in SomeMessages
  BY <1>1, GreetingTyped
<1>4. /\ sensor \in SensorStates
      /\ greeted \in SensorStates /\ greeted.mode = "hello" /\ greeted.log = log
      /\ greeted.keys = [client |-> n, server |-> value, ephemeral |-> 0]
  <2>1. sensor \in SensorStates
    BY DEF IInv, Typed
  <2>2. hello.value = n
    BY DEF Hello, Message
  <2>3. greeted = [sensor EXCEPT !.mode = "hello",
                                 !.keys = [client |-> n, server |-> value, ephemeral |-> 0],
                                 !.log = log]
    BY <2>2 DEF Greeted, Greeting
  <2>4. [client |-> n, server |-> value, ephemeral |-> 0] \in SomeKeys
    BY <1>1 DEF SomeKeys
  <2> HIDE DEF n, value, hello, log, greeted
  <2> QED
    BY <1>3, <2>1, <2>3, <2>4 DEF SensorStates
<1>5. IF Prepared THEN \E flight \in HelloFlights(log) : Send("hello", flight, greeted)
      ELSE Send("hello", Refused, sensor)
  <2>1. ClientHello = hello
    BY <1>2 DEF ClientHello, Hello
  <2> HIDE DEF hello, n
  <2>2. IF Prepared THEN \E flight \in HelloFlights(greeted.log) : Send("hello", flight, greeted)
        ELSE Send("hello", Refused, sensor)
    BY <2>1 DEF SendHello, Prepared
  <2> HIDE DEF greeted
  <2> QED
    BY <1>4, <2>2
<1> HIDE DEF hello, log, greeted
<1>6. PICK reply, state : /\ Send("hello", reply, state)
                          /\ \/ reply = Refused /\ state = sensor
                             \/ reply \in HelloFlights(log) /\ state = greeted
                          /\ Prepared => reply \in HelloFlights(log) /\ state = greeted
  BY <1>5
<1>7. /\ reply \in Replies /\ state \in SensorStates
      /\ ~Switches(reply.records) /\ HellosBelow(reply.records, 3 * attempts + 3)
      /\ ~Switches(Refused.records) /\ HellosBelow(Refused.records, 3 * attempts + 3)
  <2>1. CASE reply = Refused /\ state = sensor
    BY <1>1, <1>4, <2>1, RefusedSaid
  <2>2. CASE reply \in HelloFlights(log) /\ state = greeted
    <3>1. reply \in HelloFlights(Greeting(Hello(n), value))
      BY <2>2 DEF log, hello
    <3> HIDE DEF n, value
    <3>2. reply \in Replies
      BY <1>1, <3>1, FlightShape
    <3>3. ~Switches(reply.records) /\ HellosBelow(reply.records, 3 * attempts + 3)
      BY <1>1, <3>1, FlightSaid
    <3> QED
      BY <1>1, <1>4, <2>2, <3>2, <3>3, RefusedSaid
  <2> QED
    BY <1>6, <2>1, <2>2
<1>8. /\ pc = "hello" /\ ~asked /\ asked' = TRUE
      /\ UNCHANGED <<pc, attempts, linked, lacking, flash, firmware, rebooted>>
      /\ pipe' \in Seq(Replies) /\ Len(pipe') = Len(pipe) + 1 /\ Len(pipe') <= MaxLate + 1
      /\ \A i \in 1..Len(pipe) : pipe'[i] = pipe[i]
      /\ \/ pipe'[Len(pipe')] = reply /\ sensor' = state /\ calm' = calm
         \/ pipe'[Len(pipe')] = Refused /\ sensor' = sensor /\ calm' = FALSE
  BY <1>6, <1>7, SendStep
<1>9. /\ sensor' \in SensorStates /\ (sensor' = sensor \/ sensor' = greeted)
      /\ ~Switches(pipe'[Len(pipe')].records)
      /\ HellosBelow(pipe'[Len(pipe')].records, 3 * attempts + 3)
      /\ calm' \in BOOLEAN
  <2>1. calm \in BOOLEAN
    BY DEF IInv, Typed, TypeOK
  <2> QED
    BY <1>4, <1>6, <1>7, <1>8, <2>1
<1>10. /\ Len(pipe) \in Nat /\ \A i \in 1..Len(pipe') : i \in 1..Len(pipe) \/ i = Len(pipe')
  BY <1>8 DEF IInv, Typed
<1>11. Typed'
  <2>1. keys' \in SomeKeys /\ handshake_hash' \in SomeMessages /\ client_random' \in Nat
        /\ server_random' \in Nat
    BY <1>1, <1>2, <1>3, NothingSaid
  <2> QED
    BY <1>2, <1>8, <1>9, <2>1 DEF IInv, Typed, TypeOK, SensorStates
<1>12. Fresh' /\ CaughtUp'
  <2>1. ASSUME NEW i \in 1..Len(pipe')
        PROVE  /\ HellosBelow(pipe'[i].records, 3 * attempts + 3)
               /\ i < Len(pipe') => HellosBelow(pipe'[i].records, 3 * attempts + 1)
    <3>1. CASE i = Len(pipe')
      BY <1>8, <1>9, <1>10, <3>1
    <3>2. CASE i \in 1..Len(pipe)
      <4>1. pipe'[i] = pipe[i]
        BY <1>8, <3>2
      <4> QED
        BY <1>2, <1>8, <3>2, <4>1 DEF IInv, Fresh
    <3> QED
      BY <1>10, <3>1, <3>2
  <2>2. sensor'.mode = "hello" => sensor'.keys.server = sensor'.keys.client + 1
    BY <1>1, <1>4, <1>9 DEF IInv, Fresh
  <2> QED
    BY <1>2, <1>8, <2>1, <2>2 DEF Fresh, CaughtUp, InTheClear
<1>13. Switching'
  <2> SUFFICES ASSUME NEW i \in 1..Len(pipe'), Switches(pipe'[i].records) PROVE FALSE
    BY DEF Switching
  <2>1. i \in 1..Len(pipe) /\ Switches(pipe[i].records)
    BY <1>8, <1>9, <1>10
  <2> QED
    BY <1>2, <2>1 DEF IInv, Switching
<1>14. Undisturbed'
  <2> SUFFICES ASSUME calm' PROVE Undisturbed'
    BY DEF Undisturbed
  <2>1. pipe' = Append(pipe, reply) /\ sensor' = state /\ calm
    BY <1>6 DEF Send
  <2>2. pipe = <<>> /\ Prepared /\ flash \in Paired
    BY <1>2, <1>8, <2>1 DEF IInv, Undisturbed, Commands
  <2>3. reply \in HelloFlights(log) /\ sensor' = greeted /\ pipe' = <<reply>>
    BY <1>6, <2>1, <2>2
  <2>4. Told'
    <3>1. log = <<hello, ServerHello(value), CertificateRequest, ServerHelloDone>>
      BY DEF log, Greeting
    <3>2. hello = Message("client hello", client_random')
      BY <1>2 DEF hello, Hello
    <3>3. sensor'.log = log /\ \E flight \in HelloFlights(sensor'.log) : pipe' = <<flight>>
      BY <1>4, <2>3
    <3> HIDE DEF log
    <3>4. /\ sensor'.mode = "hello" /\ attempts' = attempts
          /\ sensor'.keys = [client |-> client_random', server |-> 3 * attempts + 2, ephemeral |-> 0]
      BY <1>2, <1>4, <1>8, <2>3
    <3> QED
      BY <1>2, <3>1, <3>2, <3>3, <3>4 DEF Told, Message
  <2> QED
    BY <1>2, <1>8, <2>2, <2>4 DEF Undisturbed, InTheClear, Commands
<1>15. SessionAgrees'
  BY <1>2, <1>8 DEF SessionAgrees
<1> QED
  BY <1>11, <1>12, <1>13, <1>14, <1>15 DEF IInv

-----------------------------------------------------------------------------
(* What is read when nothing goes wrong.                                   *)

Messages == [type : MessageTypes, value : Nat]

\* A message that is taken, and a record of one or of three.
Taken(t, m) == [t EXCEPT !.log = Append(@, m),
                         !.random = IF m.type = "server hello" THEN m.value ELSE @]

\* What a message that is taken changes.
LEMMA TakenTyped ==
    ASSUME NEW t \in TlsStates, NEW m \in Messages
    PROVE  /\ Taken(t, m) \in TlsStates
           /\ Taken(t, m).ok = t.ok /\ Taken(t, m).rx = t.rx /\ Taken(t, m).keys = t.keys
           /\ Taken(t, m).log = Append(t.log, m)
           /\ Taken(t, m).random = IF m.type = "server hello" THEN m.value ELSE t.random
<1>1. Append(t.log, m) \in SomeMessages /\ m.value \in Nat
  BY DEF TlsStates, SomeMessages, Messages
<1> QED
  BY <1>1 DEF Taken, TlsStates

LEMMA MessageTaken ==
    ASSUME NEW t \in TlsStates, t.ok, NEW m \in Messages, NEW verify,
           m.type = "finished" => verify = t.log
    PROVE  HandleMessage(t, m, verify) = Taken(t, m)
  BY DEF HandleMessage, Taken

LEMMA OneTaken ==
    ASSUME NEW t \in TlsStates, t.ok, NEW under \in SomeKeys,
           IF t.rx THEN under = t.keys ELSE under = NoKeys,
           NEW m \in Messages, NEW verify \in SomeMessages, m.type = "finished" => verify = t.log
    PROVE  HandleRecord(t, Handshake(under, <<m>>, verify)) = Taken(t, m)
<1> DEFINE record == Handshake(under, <<m>>, verify)
           s == <<m>>
<1>1. s \in Seq(Messages) /\ Len(s) = 1 /\ s[1] = m
  <2> DEFINE X == Messages
  <2>1. m \in X
    OBVIOUS
  <2> HIDE DEF X
  <2>2. s \in Seq(X) /\ Len(s) = 1 /\ s[1] = m
    BY <2>1
  <2> QED
    BY <2>2
<1> HIDE DEF s
<1>2. s \in SomeMessages
  BY <1>1 DEF SomeMessages, Messages
<1>3. /\ record \in SomeRecords /\ record.type = "handshake" /\ record.under = under
      /\ record.messages = s /\ record.verify = verify /\ record.whole = TRUE
  BY <1>2, HandshakeTyped DEF s
<1> HIDE DEF record
<1>4. HandleRecord(t, record) = HandleMessages(t, record)
  <2>1. Readable(t, record)
    BY <1>3 DEF Readable
  <2> QED
    BY <1>3, <2>1 DEF HandleRecord
<1>5. PICK path \in [0..1 -> TlsStates] :
         /\ path[0] = t
         /\ \A i \in 1..1 : path[i] = HandleMessage(path[i - 1], s[i], verify)
         /\ HandleMessages(t, record) = path[1]
  <2>1. PICK path \in [0..Len(record.messages) -> TlsStates] :
           /\ path[0] = t
           /\ \A i \in 1..Len(record.messages) :
                 path[i] = HandleMessage(path[i - 1], record.messages[i], record.verify)
           /\ HandleMessages(t, record) = path[Len(record.messages)]
    BY <1>3, MessagesPath
  <2>2. Len(record.messages) = 1
    BY <1>1, <1>3
  <2> QED
    BY <1>3, <2>1, <2>2
<1>6. path[1] = HandleMessage(t, m, verify)
  <2>1. 1 \in 1..1 /\ 1 - 1 = 0
    OBVIOUS
  <2> QED
    BY <1>1, <1>5, <2>1
<1>7. path[1] = Taken(t, m)
  BY <1>6, MessageTaken
<1> QED
  BY <1>4, <1>5, <1>7 DEF record, s

\* Every message but Finished is taken without a look at the transcript.
Unsigned(m) == m.type # "finished"

LEMMA ThreeTaken ==
    ASSUME NEW t \in TlsStates, t.ok, ~t.rx,
           NEW m1 \in Messages, NEW m2 \in Messages, NEW m3 \in Messages,
           Unsigned(m1), Unsigned(m2), Unsigned(m3)
    PROVE  HandleRecord(t, Handshake(NoKeys, <<m1, m2, m3>>, <<>>)) = Taken(Taken(Taken(t, m1), m2), m3)
<1> DEFINE s == <<m1, m2, m3>>
           none == <<>>
           record == Handshake(NoKeys, s, none)
           a1 == Taken(t, m1)
           a2 == Taken(a1, m2)
<1>1. /\ s \in Seq(Messages) /\ Len(s) = 3 /\ s[1] = m1 /\ s[2] = m2 /\ s[3] = m3
  <2> DEFINE X == Messages
  <2>1. m1 \in X /\ m2 \in X /\ m3 \in X
    OBVIOUS
  <2> HIDE DEF X
  <2>2. s \in Seq(X) /\ Len(s) = 3 /\ s[1] = m1 /\ s[2] = m2 /\ s[3] = m3
    BY <2>1
  <2> QED
    BY <2>2
<1> HIDE DEF s
<1>2. s \in SomeMessages /\ none \in SomeMessages
  BY <1>1 DEF SomeMessages, Messages
<1> HIDE DEF none
<1>3. /\ record \in SomeRecords /\ record.type = "handshake" /\ record.under = NoKeys
      /\ record.messages = s /\ record.verify = none
  <2> DEFINE under == NoKeys
  <2>1. under \in SomeKeys
    BY NothingSaid
  <2> HIDE DEF under
  <2>2. record = Handshake(under, s, none)
    BY DEF under
  <2> HIDE DEF record
  <2>3. record \in SomeRecords
    BY <1>2, <2>1, <2>2, HandshakeTyped
  <2>4. /\ record.type = "handshake" /\ record.under = under
        /\ record.messages = s /\ record.verify = none
    BY <2>2 DEF Handshake
  <2> QED
    BY <2>3, <2>4 DEF under
<1> HIDE DEF record
<1>4. HandleRecord(t, record) = HandleMessages(t, record)
  <2>1. Readable(t, record)
    BY <1>3 DEF Readable
  <2> QED
    BY <1>3, <2>1 DEF HandleRecord
<1>5. PICK path \in [0..3 -> TlsStates] :
         /\ path[0] = t
         /\ \A i \in 1..3 : path[i] = HandleMessage(path[i - 1], s[i], none)
         /\ HandleMessages(t, record) = path[3]
  <2>1. PICK path \in [0..Len(record.messages) -> TlsStates] :
           /\ path[0] = t
           /\ \A i \in 1..Len(record.messages) :
                 path[i] = HandleMessage(path[i - 1], record.messages[i], record.verify)
           /\ HandleMessages(t, record) = path[Len(record.messages)]
    BY <1>3, MessagesPath
  <2>2. Len(record.messages) = 3
    BY <1>1, <1>3
  <2> QED
    BY <1>3, <2>1, <2>2
<1>6. /\ path[1] = HandleMessage(t, m1, none)
      /\ path[2] = HandleMessage(path[1], m2, none)
      /\ path[3] = HandleMessage(path[2], m3, none)
  <2>1. 1 \in 1..3 /\ 2 \in 1..3 /\ 3 \in 1..3 /\ 1 - 1 = 0 /\ 2 - 1 = 1 /\ 3 - 1 = 2
    OBVIOUS
  <2> QED
    BY <1>1, <1>5, <2>1
<1>7. a1 \in TlsStates /\ a1.ok
  BY TakenTyped
<1>8. path[1] = a1
  BY <1>6, MessageTaken DEF Unsigned
<1> HIDE DEF a1
<1>9. a2 \in TlsStates /\ a2.ok
  BY <1>7, TakenTyped
<1>10. path[2] = a2
  BY <1>6, <1>7, <1>8, MessageTaken DEF Unsigned
<1> HIDE DEF a2
<1>11. path[3] = Taken(a2, m3)
  BY <1>6, <1>9, <1>10, MessageTaken DEF Unsigned
<1> QED
  BY <1>4, <1>5, <1>11 DEF record, s, none, a2, a1

\* A sequence with an element more, and one made of four.
LEMMA Appended ==
    ASSUME NEW S, NEW a \in Seq(S), NEW y \in S
    PROVE  /\ Append(a, y) \in Seq(S) /\ Len(Append(a, y)) = Len(a) + 1
           /\ Append(a, y)[Len(a) + 1] = y
           /\ \A i \in 1..Len(a) : Append(a, y)[i] = a[i]
  BY AppendProperties

LEMMA Four ==
    ASSUME NEW S, NEW x \in S, NEW y \in S, NEW z \in S, NEW w \in S
    PROVE  Append(Append(Append(<<x>>, y), z), w) = <<x, y, z, w>>
<1> DEFINE a == <<x>>
           b == Append(a, y)
           c == Append(b, z)
           d == Append(c, w)
           e == <<x, y, z, w>>
<1>1. a \in Seq(S) /\ Len(a) = 1 /\ a[1] = x
  OBVIOUS
<1>5. e \in Seq(S) /\ Len(e) = 4 /\ e[1] = x /\ e[2] = y /\ e[3] = z /\ e[4] = w
  OBVIOUS
<1> HIDE DEF a
<1>2. b \in Seq(S) /\ Len(b) = 2 /\ b[1] = x /\ b[2] = y
  <2>1. b \in Seq(S) /\ Len(b) = Len(a) + 1 /\ b[Len(a) + 1] = y /\ \A i \in 1..Len(a) : b[i] = a[i]
    BY <1>1, Appended
  <2>2. 1 \in 1..Len(a) /\ Len(a) + 1 = 2
    BY <1>1
  <2> HIDE DEF b
  <2> QED
    BY <1>1, <2>1, <2>2
<1> HIDE DEF b
<1>3. c \in Seq(S) /\ Len(c) = 3 /\ c[1] = x /\ c[2] = y /\ c[3] = z
  <2>1. c \in Seq(S) /\ Len(c) = Len(b) + 1 /\ c[Len(b) + 1] = z /\ \A i \in 1..Len(b) : c[i] = b[i]
    <3>1. b \in Seq(S)
      BY <1>2
    <3> QED
      BY <3>1, Appended
  <2>2. 1 \in 1..Len(b) /\ 2 \in 1..Len(b) /\ Len(b) + 1 = 3
    BY <1>2
  <2> HIDE DEF c
  <2> QED
    BY <1>2, <2>1, <2>2
<1> HIDE DEF c
<1>4. d \in Seq(S) /\ Len(d) = 4 /\ d[1] = x /\ d[2] = y /\ d[3] = z /\ d[4] = w
  <2>1. d \in Seq(S) /\ Len(d) = Len(c) + 1 /\ d[Len(c) + 1] = w /\ \A i \in 1..Len(c) : d[i] = c[i]
    <3>1. c \in Seq(S)
      BY <1>3
    <3> QED
      BY <3>1, Appended
  <2>2. 1 \in 1..Len(c) /\ 2 \in 1..Len(c) /\ 3 \in 1..Len(c) /\ Len(c) + 1 = 4
    BY <1>3
  <2> HIDE DEF d
  <2> QED
    BY <1>3, <2>1, <2>2
<1> HIDE DEF d, e
<1>6. \A i \in 1..4 : i = 1 \/ i = 2 \/ i = 3 \/ i = 4
  OBVIOUS
<1>7. \A i \in 1..Len(d) : d[i] = e[i]
  BY <1>4, <1>5, <1>6
<1>8. d = e
  BY <1>4, <1>5, <1>7, SeqEqual
<1> QED
  BY <1>8 DEF a, b, c, d, e

\* A hello flight is taken, in one record or in three: both sides have the
\* same transcript then, and the host has the sensor's random.
LEMMA HelloParsed ==
    ASSUME NEW n \in Nat, NEW value \in Nat,
           NEW flight \in HelloFlights(Greeting(Hello(n), value)),
           Host \in TlsStates, ~secure_rx, handshake_hash = <<Hello(n)>>
    PROVE  LET u == ParseResponse(flight)
           IN /\ u.log = Greeting(Hello(n), value) /\ u.random = value
              /\ u.rx = FALSE /\ u.ok = TRUE
<1> DEFINE hello == Hello(n)
           m == Tail(Greeting(hello, value))
           r == flight.records
           a1 == Taken(Host, m[1])
           a2 == Taken(a1, m[2])
           a3 == Taken(a2, m[3])
<1>1. /\ flight \in Replies
      /\ \/ Len(r) = 1 /\ r[1] = Handshake(NoKeys, m, <<>>)
         \/ Len(r) = 3 /\ \A i \in 1..3 : r[i] = Handshake(NoKeys, <<m[i]>>, <<>>)
  BY FlightShape
<1>2. /\ m \in SomeMessages /\ Len(m) = 3
      /\ m[1] = ServerHello(value) /\ m[2] = CertificateRequest /\ m[3] = ServerHelloDone
  BY GreetingTyped
<1>3. /\ m[1] \in Messages /\ m[1].type = "server hello" /\ m[1].value = value
      /\ m[2] \in Messages /\ m[2].type = "certificate request"
      /\ m[3] \in Messages /\ m[3].type = "server hello done"
  <2>1. /\ ServerHello(value) \in Messages /\ ServerHello(value).type = "server hello"
        /\ ServerHello(value).value = value
    BY DEF ServerHello, Message, Messages, MessageTypes
  <2>2. CertificateRequest \in Messages /\ CertificateRequest.type = "certificate request"
    BY DEF CertificateRequest, Message, Messages, MessageTypes
  <2>3. ServerHelloDone \in Messages /\ ServerHelloDone.type = "server hello done"
    BY DEF ServerHelloDone, Message, Messages, MessageTypes
  <2> HIDE DEF m
  <2> QED
    BY <1>2, <2>1, <2>2, <2>3
<1>4. /\ Host.ok = TRUE /\ Host.rx = FALSE /\ Host.log = <<hello>>
  BY DEF Host, TlsStates
<1> HIDE DEF m, hello, r, a1, a2, a3
<1>5. /\ a1 \in TlsStates /\ a1.ok = TRUE /\ a1.rx = FALSE /\ a1.random = value
      /\ a1.log = Append(<<hello>>, m[1])
  BY <1>3, <1>4, TakenTyped DEF a1
<1>6. /\ a2 \in TlsStates /\ a2.ok = TRUE /\ a2.rx = FALSE /\ a2.random = value
      /\ a2.log = Append(a1.log, m[2])
  BY <1>3, <1>5, TakenTyped DEF a2
<1>7. /\ a3 \in TlsStates /\ a3.ok = TRUE /\ a3.rx = FALSE /\ a3.random = value
      /\ a3.log = Append(a2.log, m[3])
  BY <1>3, <1>6, TakenTyped DEF a3
<1>8. a3.log = Greeting(hello, value)
  <2> DEFINE b1 == m[1]
             b2 == m[2]
             b3 == m[3]
  <2>1. a3.log = Append(Append(Append(<<hello>>, b1), b2), b3)
    BY <1>5, <1>6, <1>7
  <2>2. a3.log = <<hello, b1, b2, b3>>
    <3>1. hello \in Messages
      BY DEF hello, Hello, Message, Messages, MessageTypes
    <3>2. b1 \in Messages /\ b2 \in Messages /\ b3 \in Messages
      BY <1>3
    <3> HIDE DEF b1, b2, b3
    <3> QED
      BY <2>1, <3>1, <3>2, Four
  <2> QED
    BY <1>2, <2>2 DEF Greeting
<1>9. NoKeys \in SomeKeys /\ <<>> \in SomeMessages
  BY NothingSaid DEF SomeMessages
<1>10. PICK path \in [0..Len(r) -> TlsStates] :
          /\ path[0] = Host
          /\ \A i \in 1..Len(r) : path[i] = HandleRecord(path[i - 1], r[i])
          /\ ParseResponse(flight) = path[Len(r)]
  BY <1>1, ParsePath DEF r
<1>11. CASE Len(r) = 1 /\ r[1] = Handshake(NoKeys, m, <<>>)
  <2>1. path[1] = HandleRecord(Host, r[1]) /\ ParseResponse(flight) = path[1]
    <3>1. 1 \in 1..Len(r) /\ 1 - 1 = 0
      BY <1>11
    <3> QED
      BY <1>10, <1>11, <3>1
  <2>2. m = <<m[1], m[2], m[3]>>
    BY <1>2 DEF m, Greeting
  <2>3. HandleRecord(Host, r[1]) = a3
    <3>1. m[1].type # "finished" /\ m[2].type # "finished" /\ m[3].type # "finished"
      BY <1>3
    <3> DEFINE b1 == m[1]
               b2 == m[2]
               b3 == m[3]
    <3>2. /\ b1 \in Messages /\ b2 \in Messages /\ b3 \in Messages
          /\ Unsigned(b1) /\ Unsigned(b2) /\ Unsigned(b3)
      BY <1>3, <3>1 DEF Unsigned
    <3>3. r[1] = Handshake(NoKeys, <<b1, b2, b3>>, <<>>)
      BY <1>11, <2>2
    <3> HIDE DEF b1, b2, b3
    <3>4. HandleRecord(Host, r[1]) = Taken(Taken(Taken(Host, b1), b2), b3)
      BY <1>4, <3>2, <3>3, ThreeTaken
    <3> QED
      BY <3>4 DEF a1, a2, a3, b1, b2, b3
  <2> QED
    BY <1>7, <1>8, <2>1, <2>3 DEF hello
<1>12. CASE Len(r) = 3 /\ \A i \in 1..3 : r[i] = Handshake(NoKeys, <<m[i]>>, <<>>)
  <2>1. /\ path[1] = HandleRecord(Host, Handshake(NoKeys, <<m[1]>>, <<>>))
        /\ path[2] = HandleRecord(path[1], Handshake(NoKeys, <<m[2]>>, <<>>))
        /\ path[3] = HandleRecord(path[2], Handshake(NoKeys, <<m[3]>>, <<>>))
        /\ ParseResponse(flight) = path[3]
    <3>1. 1 \in 1..3 /\ 2 \in 1..3 /\ 3 \in 1..3 /\ 1 - 1 = 0 /\ 2 - 1 = 1 /\ 3 - 1 = 2
      OBVIOUS
    <3> QED
      BY <1>10, <1>12, <3>1
  <2>2. path[1] = a1
    BY <1>3, <1>4, <1>9, <2>1, OneTaken DEF a1
  <2>3. path[2] = a2
    BY <1>3, <1>5, <1>9, <2>1, <2>2, OneTaken DEF a2
  <2>4. path[3] = a3
    BY <1>3, <1>6, <1>9, <2>1, <2>3, OneTaken DEF a3
  <2> QED
    BY <1>7, <1>8, <2>1, <2>4 DEF hello
<1> QED
  BY <1>1, <1>11, <1>12 DEF r, m, hello

\* To be a prefix is to be continued.
LEMMA PrefixContinues ==
    ASSUME NEW S, NEW s \in Seq(S), NEW t \in Seq(S)
    PROVE  IsPrefix(s, t) <=> Continues(s, t)
<1>1. Len(s) \in Nat /\ Len(t) \in Nat
  OBVIOUS
<1>2. CASE Len(s) <= Len(t)
  <2> DEFINE u == SubSeq(s, 1, Len(s))
             v == SubSeq(t, 1, Len(s))
  <2>1. u \in Seq(S) /\ Len(u) = Len(s) /\ \A i \in 1..Len(s) : u[i] = s[i]
    BY <1>1
  <2>2. v \in Seq(S) /\ Len(v) = Len(s) /\ \A i \in 1..Len(s) : v[i] = t[i]
    BY <1>1, <1>2
  <2>3. IsPrefix(s, t) <=> u = v
    BY <1>2 DEF IsPrefix
  <2> HIDE DEF u, v
  <2>4. u = v <=> \A i \in 1..Len(s) : t[i] = s[i]
    <3>1. u = v => \A i \in 1..Len(s) : t[i] = s[i]
      BY <2>1, <2>2
    <3>2. ASSUME \A i \in 1..Len(s) : t[i] = s[i] PROVE u = v
      <4>1. Len(u) = Len(v) /\ \A i \in 1..Len(u) : u[i] = v[i]
        BY <2>1, <2>2, <3>2
      <4> QED
        BY <2>1, <2>2, <4>1, SeqEqual
    <3> QED
      BY <3>1, <3>2
  <2> QED
    BY <1>2, <2>3, <2>4 DEF Continues
<1>3. CASE ~(Len(s) <= Len(t))
  BY <1>3 DEF IsPrefix, Continues
<1> QED
  BY <1>2, <1>3

-----------------------------------------------------------------------------
(* Replies in records.                                                     *)

\* The host's part of the state is a state of the fold.
LEMMA HostTyped == IInv => Host \in TlsStates
  BY DEF IInv, Typed, TypeOK, Host, TlsStates

\* A reply that is parsed, whatever it is.
LEMMA ReadRecordsStep ==
    ASSUME IInv, NEW command \in {"hello", "flight", "open"}, NEW reply,
           ReadRecords(command, reply), pc' \in {"flight", "open", "failed"}
    PROVE  /\ Typed' /\ Switching'
           /\ \A i \in 1..Len(pipe') : HellosBelow(pipe'[i].records, 3 * attempts + 3)
           /\ Read(command, reply) /\ reply \in Replies
           /\ Continues(handshake_hash, handshake_hash')
           /\ secure_rx => secure_rx'
           /\ secure_rx' => secure_rx \/ Switches(pipe[1].records)
           /\ \A bound \in Nat :
                 server_random < bound /\ HellosBelow(pipe[1].records, bound) =>
                    server_random' < bound
           /\ UNCHANGED <<lacking, secure_tx, client_random, keys>>
<1> DEFINE u == ParseResponse(reply)
<1>1. /\ Read(command, reply)
      /\ handshake_hash' = u.log /\ server_random' = u.random /\ secure_rx' = u.rx
      /\ UNCHANGED <<lacking, secure_tx, client_random, keys>>
  BY DEF ReadRecords
<1>2. /\ pc = command /\ asked /\ asked' = FALSE
      /\ UNCHANGED <<attempts, linked, sensor, flash, firmware, rebooted>>
      /\ pipe' \in Seq(Replies) /\ Len(pipe) > 0 /\ Len(pipe') = Len(pipe) - 1
      /\ Len(pipe') <= MaxLate
      /\ \A i \in 1..Len(pipe') : pipe'[i] = pipe[i + 1]
      /\ reply \in Replies
      /\ Switches(reply.records) => Switches(pipe[1].records)
      /\ \A bound \in Nat : HellosBelow(pipe[1].records, bound) =>
                               HellosBelow(reply.records, bound)
  BY <1>1, ReadStep
<1> HIDE DEF u
<1>3. /\ Follows(Host, u)
      /\ u.rx => secure_rx \/ Switches(reply.records)
      /\ \A bound \in Nat :
            server_random < bound /\ HellosBelow(reply.records, bound) => u.random < bound
  BY <1>2, HostTyped, ParseStep DEF u
<1>4. u \in TlsStates /\ Continues(handshake_hash, u.log) /\ (secure_rx => u.rx)
  BY <1>3 DEF Follows, Host
<1>5. calm' \in BOOLEAN /\ Len(pipe) \in Nat /\ MaxLate \in Nat
  <2>1. calm' \in BOOLEAN
    BY <1>1, Zenon DEF Read
  <2> QED
    BY <2>1, OpenAssumption DEF IInv, Typed
<1>6. Typed'
  <2>1. u.log \in SomeMessages /\ u.random \in Nat /\ u.rx \in BOOLEAN
    BY <1>4 DEF TlsStates
  <2>2. Len(pipe') <= MaxLate + 1
    BY <1>2, <1>5
  <2> QED
    BY <1>1, <1>2, <1>5, <2>1, <2>2 DEF IInv, Typed, TypeOK, SensorStates, Commands
<1>7. \A i \in 1..Len(pipe') : i + 1 \in 1..Len(pipe) /\ i + 1 # 1
  BY <1>2, <1>5
<1>8. Switching'
  BY <1>2, <1>7 DEF IInv, Switching
<1>9. \A i \in 1..Len(pipe') : HellosBelow(pipe'[i].records, 3 * attempts + 3)
  BY <1>2, <1>7 DEF IInv, Fresh
<1>10. \A bound \in Nat : server_random < bound /\ HellosBelow(pipe[1].records, bound) =>
                             server_random' < bound
  BY <1>1, <1>2, <1>3
<1> QED
  BY <1>1, <1>2, <1>3, <1>4, <1>6, <1>8, <1>9, <1>10

\* A random of this attempt comes only with the last reply there was to read.
LEMMA ReadHelloStep == ASSUME IInv, NEW reply, ReadHello(reply) PROVE IInv'
<1>1. /\ ReadRecords("hello", reply)
      /\ pc' = IF ParseResponse(reply).ok THEN "flight" ELSE "failed"
  BY DEF ReadHello
<1>2. /\ Typed' /\ Switching'
      /\ \A i \in 1..Len(pipe') : HellosBelow(pipe'[i].records, 3 * attempts + 3)
      /\ Read("hello", reply) /\ reply \in Replies
      /\ secure_rx' => secure_rx \/ Switches(pipe[1].records)
      /\ \A bound \in Nat :
            server_random < bound /\ HellosBelow(pipe[1].records, bound) => server_random' < bound
      /\ UNCHANGED <<lacking, secure_tx, client_random, keys>>
  BY <1>1, ReadRecordsStep
<1>3. /\ pc = "hello" /\ asked /\ asked' = FALSE
      /\ UNCHANGED <<attempts, sensor, flash, firmware, rebooted>>
      /\ pipe' \in Seq(Replies) /\ Len(pipe) > 0 /\ Len(pipe') = Len(pipe) - 1
      /\ calm' = (calm /\ reply = pipe[1])
  BY <1>2, ReadStep
<1>4. Len(pipe) \in Nat /\ attempts \in Nat
  BY DEF IInv, Typed, TypeOK
<1>5. client_random = 3 * attempts + 1 /\ ~secure_rx /\ server_random = 0
  BY <1>3 DEF IInv, Fresh
<1>6. ~secure_rx'
  <2>1. 1 \in 1..Len(pipe)
    BY <1>3, <1>4
  <2> QED
    BY <1>2, <1>3, <1>5, <2>1 DEF IInv, Switching
<1>7. Fresh'
  BY <1>1, <1>2, <1>3, <1>5, <1>6 DEF IInv, Fresh, InTheClear
<1>8. CaughtUp'
  <2> SUFFICES ASSUME server_random' = 3 * attempts + 2, pipe' # <<>> PROVE FALSE
    BY <1>3 DEF CaughtUp
  <2>1. 1 \in 1..Len(pipe) /\ 1 < Len(pipe)
    BY <1>3, <1>4
  <2>2. HellosBelow(pipe[1].records, 3 * attempts + 1)
    BY <1>3, <2>1 DEF IInv, Fresh
  <2>3. server_random' < 3 * attempts + 1
    BY <1>2, <1>4, <1>5, <2>2
  <2> QED
    BY <1>4, <2>3
<1>9. Undisturbed'
  <2> SUFFICES ASSUME calm' PROVE Undisturbed'
    BY DEF Undisturbed
  <2>1. calm /\ reply = pipe[1]
    BY <1>3
  <2>2. flash \in Paired /\ Told
    BY <1>3, <2>1 DEF IInv, Undisturbed
  <2> DEFINE n == client_random
             value == 3 * attempts + 2
  <2>3. n \in Nat /\ value \in Nat
    BY <1>4, <1>5
  <2>4. /\ sensor.mode = "hello" /\ handshake_hash = <<Hello(n)>>
        /\ sensor.keys = [client |-> n, server |-> value, ephemeral |-> 0]
        /\ sensor.log = Greeting(Hello(n), value)
    BY <2>2 DEF Told, Hello, Greeting, Message
  <2>5. PICK flight \in HelloFlights(sensor.log) : pipe = <<flight>>
    BY <2>2 DEF Told
  <2> HIDE DEF n, value
  <2>6. reply = flight /\ pipe' = <<>>
    BY <1>3, <2>1, <2>5
  <2>7. flight \in HelloFlights(Greeting(Hello(n), value))
    BY <2>4, <2>5
  <2>8. LET u == ParseResponse(reply)
        IN u.log = Greeting(Hello(n), value) /\ u.random = value /\ u.ok = TRUE
    BY <1>5, <2>3, <2>4, <2>6, <2>7, HelloParsed, HostTyped
  <2>9. pc' = "flight" /\ handshake_hash' = sensor.log /\ server_random' = value
    BY <1>1, <2>4, <2>8 DEF ReadRecords
  <2>10. Met'
    BY <1>2, <1>3, <2>4, <2>9 DEF Met, n
  <2> QED
    BY <1>3, <2>2, <2>6, <2>9, <2>10 DEF Undisturbed, InTheClear
<1>10. SessionAgrees'
  BY <1>1 DEF SessionAgrees
<1> QED
  BY <1>2, <1>7, <1>8, <1>9, <1>10 DEF IInv

\* The reply of the sensor to the host's flight.
FinishReply(under, verify) ==
    Records(<<ChangeCipherSpec, Handshake(under, <<Finished>>, verify)>>)

\* It turns encryption on, and has no ServerHello.
LEMMA FinishSaid ==
    ASSUME NEW under \in SomeKeys, NEW verify \in SomeMessages
    PROVE  LET reply == FinishReply(under, verify)
               r == reply.records
           IN /\ reply \in Replies /\ Len(r) = 2
              /\ r[1] = ChangeCipherSpec /\ r[2] = Handshake(under, <<Finished>>, verify)
              /\ \A bound \in Nat : HellosBelow(r, bound)
<1> DEFINE c == ChangeCipherSpec
           f == <<Finished>>
           h == Handshake(under, f, verify)
           s == <<c, h>>
           reply == FinishReply(under, verify)
<1>1. c \in SomeRecords /\ c.messages = <<>>
  <2>1. c \in SomeRecords
    BY NothingSaid, RecordTyped DEF ChangeCipherSpec, RecordTypes
  <2>2. c.messages = <<>>
    BY DEF ChangeCipherSpec, Record
  <2> QED
    BY <2>1, <2>2
<1>2. f \in SomeMessages /\ Len(f) = 1 /\ f[1].type = "finished"
  <2> DEFINE m == Finished
  <2>1. m \in [type : MessageTypes, value : Nat] /\ m.type = "finished"
    BY DEF Finished, Message, MessageTypes
  <2> HIDE DEF m
  <2> DEFINE M == [type : MessageTypes, value : Nat]
  <2>2. f \in SomeMessages
    <3>1. m \in M
      BY <2>1
    <3> HIDE DEF M
    <3>2. <<m>> \in Seq(M)
      BY <3>1
    <3> QED
      BY <3>2 DEF SomeMessages, M, m
  <2>3. Len(f) = 1 /\ f[1] = m
    BY DEF m
  <2> QED
    BY <2>1, <2>2, <2>3
<1> HIDE DEF f
<1>3. h \in SomeRecords /\ h.messages = f
  <2>1. f \in SomeMessages
    BY <1>2
  <2> QED
    BY <2>1, HandshakeTyped
<1> HIDE DEF c, h
<1>4. s \in Seq(SomeRecords) /\ Len(s) = 2 /\ s[1] = c /\ s[2] = h
  <2> DEFINE X == SomeRecords
  <2>1. c \in X /\ h \in X
    BY <1>1, <1>3
  <2> HIDE DEF X
  <2>2. s \in Seq(X) /\ Len(s) = 2 /\ s[1] = c /\ s[2] = h
    BY <2>1
  <2> QED
    BY <2>2 DEF X
<1> HIDE DEF s
<1>5. reply \in Replies /\ reply.records = s
  <2>1. reply = [status |-> "refused", records |-> s]
    BY DEF FinishReply, Records, s, c, h, f
  <2> HIDE DEF reply
  <2>2. reply.records = s
    BY <2>1
  <2> QED
    BY <1>4, <2>1, <2>2, ReplyTyped DEF Words
<1>6. ASSUME NEW bound \in Nat PROVE HellosBelow(s, bound)
  <2>1. HellosIn(c, bound)
    BY <1>1, NoHellos
  <2>2. HellosIn(h, bound)
    <3>1. \A j \in 1..1 : f[j].type # "server hello"
      <4>1. \A j \in 1..1 : j = 1
        OBVIOUS
      <4> QED
        BY <1>2, <4>1
    <3> QED
      BY <1>2, <1>3, <3>1 DEF HellosIn
  <2>3. \A k \in 1..2 : k = 1 \/ k = 2
    OBVIOUS
  <2> QED
    BY <1>4, <2>1, <2>2, <2>3 DEF HellosBelow
<1> HIDE DEF reply
<1> QED
  BY <1>4, <1>5, <1>6 DEF reply, c, h, f

\* The sensor accepts a flight only when nothing else is left to read, so that
\* its reply is the next one read.
LEMMA SendFlightStep == IInv /\ SendFlight => IInv'
<1> SUFFICES ASSUME IInv, SendFlight PROVE IInv'
  OBVIOUS
<1> DEFINE finish == FinishReply(MakeKeys, MakeFinish)
           secured == [sensor EXCEPT !.mode = "secure", !.keys = MakeKeys, !.log = MakeFinish]
<1>1. /\ pc = "flight" /\ secure_tx' = TRUE
      /\ keys' = MakeKeys /\ handshake_hash' = MakeFinish
      /\ UNCHANGED <<secure_rx, client_random, server_random>>
  BY DEF SendFlight, Fold
<1>2. IF Accepts(MakeFinish) THEN Send("flight", finish, secured)
      ELSE Send("flight", Refused, sensor)
  BY <1>1 DEF SendFlight, FinishReply
<1>3. /\ attempts \in Nat /\ client_random \in Nat /\ server_random \in Nat
      /\ handshake_hash \in SomeMessages /\ sensor \in SensorStates /\ calm \in BOOLEAN
      /\ Len(pipe) \in Nat /\ ~asked
  <2>1. ~asked
    BY <1>2 DEF Send
  <2> QED
    BY <2>1 DEF IInv, Typed, TypeOK
<1>4. MakeKeys \in SomeKeys /\ MakeFinish \in SomeMessages
  <2>1. MakeKeys \in SomeKeys
    BY <1>3 DEF MakeKeys, SomeKeys
  <2>2. Flight \in SomeMessages
    <3> DEFINE M == [type : MessageTypes, value : Nat]
               a == Message("certificate", 0)
               b == Message("key exchange", 3 * attempts + 3)
               c == Message("certificate verify", 0)
    <3>1. a \in M /\ b \in M /\ c \in M
      BY <1>3 DEF Message, MessageTypes
    <3> HIDE DEF M, a, b, c
    <3>2. <<a, b, c>> \in Seq(M)
      BY <3>1
    <3> QED
      BY <3>2 DEF Flight, SomeMessages, M, a, b, c
  <2>3. MakeFinish \in SomeMessages
    <3> DEFINE M == [type : MessageTypes, value : Nat]
    <3>1. handshake_hash \in Seq(M) /\ Flight \in Seq(M)
      BY <1>3, <2>2 DEF SomeMessages
    <3> HIDE DEF M
    <3>2. handshake_hash \o Flight \in Seq(M)
      BY <3>1
    <3> QED
      BY <3>2 DEF MakeFinish, SomeMessages, M
  <2> QED
    BY <2>1, <2>3
<1>5. /\ finish \in Replies /\ \A bound \in Nat : HellosBelow(finish.records, bound)
  BY <1>4, FinishSaid
<1>6. /\ secured \in SensorStates /\ secured.mode = "secure"
      /\ secured.keys = MakeKeys /\ secured.log = MakeFinish
  BY <1>3, <1>4 DEF SensorStates
<1> HIDE DEF finish, secured
\* The sensor accepts what answers the random it gave last.
<1>7. Accepts(MakeFinish) => pipe = <<>>
  <2> SUFFICES ASSUME Accepts(MakeFinish) PROVE pipe = <<>>
    OBVIOUS
  <2> DEFINE k == sensor.keys
  <2>1. sensor.mode = "hello" /\ [k EXCEPT !.ephemeral = 3 * attempts + 3] = MakeKeys /\ k \in SomeKeys
    BY <1>3 DEF Accepts, SensorStates
  <2>2. k.client = client_random /\ k.server = server_random
    <3> HIDE DEF k
    <3>1. [k EXCEPT !.ephemeral = 3 * attempts + 3].client = k.client
      BY <2>1 DEF SomeKeys
    <3>2. [k EXCEPT !.ephemeral = 3 * attempts + 3].server = k.server
      BY <2>1 DEF SomeKeys
    <3>3. MakeKeys.client = client_random /\ MakeKeys.server = server_random
      BY DEF MakeKeys
    <3> QED
      BY <2>1, <3>1, <3>2, <3>3
  <2>3. k.server = k.client + 1 /\ client_random = 3 * attempts + 1
    BY <1>1, <2>1 DEF IInv, Fresh
  <2> HIDE DEF k
  <2>4. server_random = 3 * attempts + 2
    BY <1>3, <2>2, <2>3
  <2> QED
    BY <1>1, <1>3, <2>4 DEF IInv, CaughtUp
<1>8. PICK reply, state :
         /\ Send("flight", reply, state)
         /\ \/ reply = Refused /\ state = sensor
            \/ pipe = <<>> /\ reply = finish /\ state = secured
         /\ Accepts(MakeFinish) => reply = finish /\ state = secured
  BY <1>2, <1>7
<1>9. reply \in Replies /\ state \in SensorStates
  BY <1>3, <1>5, <1>6, <1>8, RefusedSaid
<1>10. /\ asked' = TRUE
       /\ UNCHANGED <<pc, attempts, linked, lacking, flash, firmware, rebooted>>
       /\ pipe' \in Seq(Replies) /\ Len(pipe') = Len(pipe) + 1 /\ Len(pipe') <= MaxLate + 1
       /\ \A i \in 1..Len(pipe) : pipe'[i] = pipe[i]
       /\ \/ pipe'[Len(pipe')] = reply /\ sensor' = state /\ calm' = calm
          \/ pipe'[Len(pipe')] = Refused /\ sensor' = sensor /\ calm' = FALSE
  BY <1>8, <1>9, SendStep
<1>11. /\ sensor' \in SensorStates /\ calm' \in BOOLEAN
       /\ \/ pipe'[Len(pipe')] = Refused /\ sensor' = sensor
          \/ pipe = <<>> /\ pipe'[Len(pipe')] = finish /\ sensor' = secured
       /\ \A bound \in Nat : HellosBelow(pipe'[Len(pipe')].records, bound)
  BY <1>3, <1>5, <1>6, <1>8, <1>10, RefusedSaid
<1>12. \A i \in 1..Len(pipe') : i \in 1..Len(pipe) \/ i = Len(pipe')
  BY <1>3, <1>10
<1>13. Typed'
  BY <1>1, <1>4, <1>10, <1>11 DEF IInv, Typed, TypeOK, SensorStates, Commands
<1>14. Fresh' /\ CaughtUp'
  <2>1. \A i \in 1..Len(pipe') : HellosBelow(pipe'[i].records, 3 * attempts + 3)
    BY <1>3, <1>10, <1>11, <1>12 DEF IInv, Fresh
  <2>2. sensor'.mode = "hello" => sensor'.keys.server = sensor'.keys.client + 1
    BY <1>6, <1>11 DEF IInv, Fresh
  <2> QED
    BY <1>1, <1>10, <2>1, <2>2 DEF IInv, Fresh, CaughtUp, InTheClear
<1>15. Switching'
  <2> SUFFICES ASSUME NEW i \in 1..Len(pipe'), Switches(pipe'[i].records)
               PROVE  i = 1 /\ sensor'.mode = "secure" /\ pc' = "flight" /\ asked' /\ Agreed'
    BY DEF Switching
  <2>1. i \notin 1..Len(pipe)
    BY <1>1, <1>3, <1>10 DEF IInv, Switching
  <2>2. i = Len(pipe') /\ pipe = <<>> /\ sensor' = secured
    BY <1>11, <1>12, <2>1, RefusedSaid
  <2>3. i = 1
    BY <1>10, <2>2, NoReplies
  <2> QED
    BY <1>1, <1>6, <1>10, <2>2, <2>3 DEF Agreed
<1>16. Undisturbed'
  <2> SUFFICES ASSUME calm' PROVE Undisturbed'
    BY DEF Undisturbed
  <2>1. pipe' = Append(pipe, reply) /\ sensor' = state /\ calm
    BY <1>8 DEF Send
  <2>2. pipe = <<>> /\ Met /\ flash \in Paired
    BY <1>1, <1>3, <2>1 DEF IInv, Undisturbed, Commands
  <2>3. Accepts(MakeFinish)
    BY <2>2 DEF Accepts, Met, MakeKeys, MakeFinish
  <2>4. pipe' = <<finish>> /\ sensor' = secured
    BY <1>8, <2>1, <2>2, <2>3
  <2>5. Agreed'
    BY <1>1, <1>6, <2>4 DEF Agreed
  <2>6. pipe' = <<Records(<<ChangeCipherSpec,
                            Handshake(keys', <<Finished>>, handshake_hash')>>)>>
    BY <1>1, <2>4 DEF finish, FinishReply
  <2> QED
    BY <1>1, <1>10, <2>2, <2>5, <2>6 DEF Undisturbed, InTheClear, Commands
<1>17. SessionAgrees'
  BY <1>1, <1>10 DEF SessionAgrees
<1> QED
  BY <1>13, <1>14, <1>15, <1>16, <1>17 DEF IInv

\* It is taken by a host with the same keys and transcript, and both
\* directions are encrypted then.
LEMMA FinishParsed ==
    ASSUME Host \in TlsStates,
           NEW reply, reply = FinishReply(keys, handshake_hash)
    PROVE  LET u == ParseResponse(reply) IN u.rx = TRUE /\ u.ok = TRUE
<1> DEFINE r == reply.records
<1>1. keys \in SomeKeys /\ handshake_hash \in SomeMessages
  BY DEF Host, TlsStates
<1>2. /\ reply \in Replies /\ Len(r) = 2
      /\ r[1] = ChangeCipherSpec /\ r[2] = Handshake(keys, <<Finished>>, handshake_hash)
  BY <1>1, FinishSaid
<1> HIDE DEF r
<1>3. PICK path \in [0..Len(r) -> TlsStates] :
         /\ path[0] = Host
         /\ \A i \in 1..Len(r) : path[i] = HandleRecord(path[i - 1], r[i])
         /\ ParseResponse(reply) = path[Len(r)]
  BY <1>2, ParsePath DEF r
<1>4. /\ path[1] = HandleRecord(Host, ChangeCipherSpec)
      /\ path[2] = HandleRecord(path[1], Handshake(keys, <<Finished>>, handshake_hash))
      /\ ParseResponse(reply) = path[2]
  <2>1. 1 \in 1..2 /\ 2 \in 1..2 /\ 1 - 1 = 0 /\ 2 - 1 = 1
    OBVIOUS
  <2> QED
    BY <1>2, <1>3, <2>1
<1>5. path[1] = [Host EXCEPT !.rx = TRUE, !.ok = TRUE]
  <2>1. ChangeCipherSpec.type = "ccs" /\ ChangeCipherSpec.whole = TRUE
    BY DEF ChangeCipherSpec, Record
  <2>2. Host.ok = TRUE
    BY DEF Host
  <2>3. HandleRecord(Host, ChangeCipherSpec)
          = [Host EXCEPT !.rx = @ \/ ChangeCipherSpec.whole, !.ok = ChangeCipherSpec.whole]
    BY <2>1, <2>2 DEF HandleRecord
  <2>4. (Host.rx \/ ChangeCipherSpec.whole) = TRUE
    BY <2>1
  <2> QED
    BY <1>4, <2>1, <2>3, <2>4
<1>6. /\ path[1] \in TlsStates /\ path[1].ok = TRUE /\ path[1].rx = TRUE
      /\ path[1].keys = keys /\ path[1].log = handshake_hash
  BY <1>5 DEF Host, TlsStates
<1> DEFINE m == Finished
<1>7. m \in Messages
  BY DEF Finished, Message, Messages, MessageTypes
<1>8. path[2] = HandleRecord(path[1], Handshake(keys, <<m>>, handshake_hash))
  BY <1>4
<1> HIDE DEF m
<1>9. path[2] = Taken(path[1], m)
  BY <1>1, <1>6, <1>7, <1>8, OneTaken
<1>10. path[2].ok = TRUE /\ path[2].rx = TRUE
  BY <1>6, <1>7, <1>9, TakenTyped
<1> QED
  BY <1>4, <1>10

\* A channel that is secure after it was made so by that reply.
LEMMA ReadFlightStep == ASSUME IInv, NEW reply, ReadFlight(reply) PROVE IInv'
<1>1. /\ ReadRecords("flight", reply)
      /\ pc' = IF Established(ParseResponse(reply)) THEN "open" ELSE "failed"
  BY DEF ReadFlight
<1>2. /\ Typed' /\ Switching'
      /\ \A i \in 1..Len(pipe') : HellosBelow(pipe'[i].records, 3 * attempts + 3)
      /\ Read("flight", reply) /\ reply \in Replies
      /\ Continues(handshake_hash, handshake_hash')
      /\ secure_rx' => secure_rx \/ Switches(pipe[1].records)
      /\ UNCHANGED <<lacking, secure_tx, client_random, keys>>
  BY <1>1, ReadRecordsStep
<1>3. /\ pc = "flight" /\ asked /\ asked' = FALSE
      /\ UNCHANGED <<attempts, sensor, flash, firmware, rebooted>>
      /\ pipe' \in Seq(Replies) /\ Len(pipe) > 0 /\ Len(pipe') = Len(pipe) - 1
      /\ calm' = (calm /\ reply = pipe[1])
  BY <1>2, ReadStep
<1>4. /\ Len(pipe) \in Nat /\ handshake_hash \in SomeMessages
      /\ secure_tx \in BOOLEAN /\ secure_rx \in BOOLEAN
  BY DEF IInv, Typed, TypeOK
<1>5. Fresh' /\ CaughtUp'
  BY <1>1, <1>2, <1>3 DEF IInv, Fresh, CaughtUp, InTheClear
<1>6. secure_rx' = ParseResponse(reply).rx
  BY <1>1 DEF ReadRecords
<1>7. Undisturbed'
  <2> SUFFICES ASSUME calm' PROVE Undisturbed'
    BY DEF Undisturbed
  <2>1. calm /\ reply = pipe[1]
    BY <1>3
  <2>2. /\ flash \in Paired /\ Agreed
        /\ pipe = <<FinishReply(keys, handshake_hash)>>
    BY <1>3, <2>1 DEF IInv, Undisturbed, FinishReply
  <2>3. reply = FinishReply(keys, handshake_hash) /\ pipe' = <<>>
    BY <1>3, <2>1, <2>2
  <2>4. LET u == ParseResponse(reply) IN u.rx = TRUE /\ u.ok = TRUE
    BY <2>3, FinishParsed, HostTyped
  <2>5. pc' = "open" /\ secure_rx' /\ secure_tx /\ sensor.mode = "secure" /\ sensor.keys = keys
    BY <1>1, <1>6, <2>2, <2>4 DEF Established, Agreed
  <2> QED
    BY <1>2, <1>3, <2>2, <2>3, <2>5 DEF Undisturbed, InTheClear, Commands
<1>8. SessionAgrees'
  <2> SUFFICES ASSUME pc' = "open"
               PROVE  /\ secure_tx' /\ secure_rx' /\ sensor'.mode = "secure" /\ sensor'.keys = keys'
                      /\ IsPrefix(sensor'.log, handshake_hash')
    BY DEF SessionAgrees
  <2>1. secure_tx /\ secure_rx'
    BY <1>1, <1>6 DEF Established
  <2>2. Switches(pipe[1].records) /\ 1 \in 1..Len(pipe)
    <3>1. ~secure_rx
      BY <1>3 DEF IInv, Fresh
    <3> QED
      BY <1>2, <1>3, <1>4, <2>1, <3>1
  <2>3. Agreed
    BY <1>3, <2>2 DEF IInv, Switching
  <2>4. IsPrefix(sensor.log, handshake_hash')
    <3>1. Continues(sensor.log, handshake_hash')
      BY <1>2, <2>3 DEF Agreed
    <3>2. sensor.log \in SomeMessages /\ handshake_hash' \in SomeMessages
      BY <1>2 DEF IInv, Typed, TypeOK
    <3> QED
      BY <3>1, <3>2, PrefixContinues DEF SomeMessages
  <2> QED
    BY <1>2, <1>3, <2>1, <2>3, <2>4 DEF Agreed
<1> QED
  BY <1>2, <1>5, <1>7, <1>8 DEF IInv

-----------------------------------------------------------------------------
(* Commands of an open session.                                            *)

AnswerReply(under) == Records(<<Record("app", under)>>)

\* The answer to a command of an open session.
LEMMA AnswerSaid ==
    ASSUME NEW under \in SomeKeys
    PROVE  LET reply == AnswerReply(under)
               r == reply.records
           IN /\ reply \in Replies /\ Len(r) = 1 /\ r[1] = Record("app", under)
              /\ ~Switches(r) /\ \A bound \in Nat : HellosBelow(r, bound)
<1> DEFINE c == Record("app", under)
           s == <<c>>
           reply == AnswerReply(under)
<1>1. c \in SomeRecords /\ c.messages = <<>> /\ c.type = "app"
  <2>1. c \in SomeRecords
    BY RecordTyped DEF RecordTypes
  <2>2. c.messages = <<>> /\ c.type = "app"
    BY DEF Record
  <2> QED
    BY <2>1, <2>2
<1> HIDE DEF c
<1>2. s \in Seq(SomeRecords) /\ Len(s) = 1 /\ s[1] = c
  <2> DEFINE X == SomeRecords
  <2>1. c \in X
    BY <1>1
  <2> HIDE DEF X
  <2>2. s \in Seq(X) /\ Len(s) = 1 /\ s[1] = c
    BY <2>1
  <2> QED
    BY <2>2 DEF X
<1> HIDE DEF s
<1>3. reply \in Replies /\ reply.records = s
  <2>1. reply = [status |-> "refused", records |-> s]
    BY DEF AnswerReply, Records, s, c
  <2> HIDE DEF reply
  <2>2. reply.records = s
    BY <2>1
  <2> QED
    BY <1>2, <2>1, <2>2, ReplyTyped DEF Words
<1>4. \A k \in 1..1 : k = 1
  OBVIOUS
<1>5. ~Switches(s)
  BY <1>1, <1>2, <1>4 DEF Switches
<1>6. ASSUME NEW bound \in Nat PROVE HellosBelow(s, bound)
  <2>1. HellosIn(c, bound)
    BY <1>1, NoHellos
  <2> QED
    BY <1>2, <1>4, <2>1 DEF HellosBelow
<1> HIDE DEF reply
<1> QED
  BY <1>2, <1>3, <1>5, <1>6 DEF reply, c

\* A command of an open session.
LEMMA SendCommandStep == IInv /\ SendCommand => IInv'
<1> SUFFICES ASSUME IInv, SendCommand PROVE IInv'
  OBVIOUS
<1> DEFINE answer == AnswerReply(keys)
<1>1. /\ UNCHANGED <<secure_tx, secure_rx, handshake_hash, client_random, server_random, keys>>
      /\ IF sensor.mode = "secure" /\ sensor.keys = keys THEN Send("open", answer, sensor)
         ELSE Send("open", Refused, sensor)
  BY DEF SendCommand, tlsVars, AnswerReply
<1>2. /\ attempts \in Nat /\ keys \in SomeKeys /\ sensor \in SensorStates /\ Len(pipe) \in Nat
      /\ calm \in BOOLEAN
  BY DEF IInv, Typed, TypeOK
<1>3. /\ answer \in Replies /\ ~Switches(answer.records)
      /\ \A bound \in Nat : HellosBelow(answer.records, bound)
  BY <1>2, AnswerSaid
<1> HIDE DEF answer
<1>4. PICK reply : /\ Send("open", reply, sensor)
                   /\ reply = Refused \/ reply = answer
                   /\ sensor.mode = "secure" /\ sensor.keys = keys => reply = answer
  BY <1>1
<1>5. reply \in Replies
  BY <1>3, <1>4, RefusedSaid
<1>6. /\ pc = "open" /\ ~asked /\ asked' = TRUE
      /\ UNCHANGED <<pc, attempts, linked, lacking, flash, firmware, rebooted>>
      /\ pipe' \in Seq(Replies) /\ Len(pipe') = Len(pipe) + 1 /\ Len(pipe') <= MaxLate + 1
      /\ \A i \in 1..Len(pipe) : pipe'[i] = pipe[i]
      /\ \/ pipe'[Len(pipe')] = reply /\ sensor' = sensor /\ calm' = calm
         \/ pipe'[Len(pipe')] = Refused /\ sensor' = sensor /\ calm' = FALSE
  BY <1>2, <1>4, <1>5, SendStep
<1>7. /\ sensor' = sensor /\ calm' \in BOOLEAN
      /\ ~Switches(pipe'[Len(pipe')].records)
      /\ \A bound \in Nat : HellosBelow(pipe'[Len(pipe')].records, bound)
  BY <1>2, <1>3, <1>4, <1>6, RefusedSaid
<1>8. \A i \in 1..Len(pipe') : i \in 1..Len(pipe) \/ i = Len(pipe')
  BY <1>2, <1>6
<1>9. Typed'
  BY <1>1, <1>6, <1>7 DEF IInv, Typed, TypeOK, SensorStates, Commands
<1>10. Fresh' /\ CaughtUp'
  <2>1. \A i \in 1..Len(pipe') : HellosBelow(pipe'[i].records, 3 * attempts + 3)
    BY <1>2, <1>6, <1>7, <1>8 DEF IInv, Fresh
  <2> QED
    BY <1>1, <1>6, <1>7, <2>1 DEF IInv, Fresh, CaughtUp, InTheClear
<1>11. Switching'
  <2> SUFFICES ASSUME NEW i \in 1..Len(pipe'), Switches(pipe'[i].records) PROVE FALSE
    BY DEF Switching
  <2>1. i \in 1..Len(pipe) /\ Switches(pipe[i].records)
    BY <1>6, <1>7, <1>8
  <2> QED
    BY <1>6, <2>1 DEF IInv, Switching
<1>12. Undisturbed'
  <2> SUFFICES ASSUME calm' PROVE Undisturbed'
    BY DEF Undisturbed
  <2>1. pipe' = Append(pipe, reply) /\ calm
    BY <1>4 DEF Send
  <2>2. /\ pipe = <<>> /\ flash \in Paired
        /\ secure_tx /\ secure_rx /\ sensor.mode = "secure" /\ sensor.keys = keys
    BY <1>6, <2>1 DEF IInv, Undisturbed, Commands
  <2>3. pipe' = <<answer>>
    BY <1>4, <2>1, <2>2
  <2>4. pipe' = <<Records(<<Record("app", keys')>>)>>
    BY <1>1, <2>3 DEF answer, AnswerReply
  <2> QED
    BY <1>1, <1>6, <1>7, <2>2, <2>4 DEF Undisturbed, InTheClear, Commands
<1>13. SessionAgrees'
  BY <1>1, <1>6, <1>7 DEF IInv, SessionAgrees
<1> QED
  BY <1>9, <1>10, <1>11, <1>12, <1>13 DEF IInv

\* An answer under the keys of both is taken.
LEMMA AnswerParsed ==
    ASSUME Host \in TlsStates, secure_rx, NEW reply, reply = AnswerReply(keys)
    PROVE  ParseResponse(reply).ok
<1> DEFINE r == reply.records
           a == Record("app", keys)
<1>1. keys \in SomeKeys
  BY DEF Host, TlsStates
<1>2. reply \in Replies /\ Len(r) = 1 /\ r[1] = a
  BY <1>1, AnswerSaid
<1>3. a.type = "app" /\ a.under = keys /\ a.whole = TRUE
  BY DEF Record
<1> HIDE DEF r, a
<1>4. PICK path \in [0..Len(r) -> TlsStates] :
         /\ path[0] = Host
         /\ \A i \in 1..Len(r) : path[i] = HandleRecord(path[i - 1], r[i])
         /\ ParseResponse(reply) = path[Len(r)]
  BY <1>2, ParsePath DEF r
<1>5. ParseResponse(reply) = HandleRecord(Host, a)
  <2>1. 1 \in 1..1 /\ 1 - 1 = 0
    OBVIOUS
  <2> QED
    BY <1>2, <1>4, <2>1
<1>6. Host.ok /\ Host.rx /\ Host.keys = keys
  BY DEF Host
<1>7. Readable(Host, a)
  BY <1>3, <1>6 DEF Readable
<1>8. HandleRecord(Host, a).ok
  BY <1>3, <1>6, <1>7 DEF HandleRecord, Host
<1> QED
  BY <1>5, <1>8

\* Its answer, or whatever else is read in its place.
LEMMA ReadAnswerStep == ASSUME IInv, NEW reply, ReadAnswer(reply) PROVE IInv'
<1>1. /\ ReadRecords("open", reply)
      /\ pc' \in {"open", "failed"} /\ (ParseResponse(reply).ok => pc' = "open")
  BY DEF ReadAnswer
<1>2. /\ Typed' /\ Switching'
      /\ \A i \in 1..Len(pipe') : HellosBelow(pipe'[i].records, 3 * attempts + 3)
      /\ Read("open", reply) /\ reply \in Replies
      /\ Continues(handshake_hash, handshake_hash')
      /\ secure_rx => secure_rx'
      /\ UNCHANGED <<lacking, secure_tx, client_random, keys>>
  BY <1>1, ReadRecordsStep
<1>3. /\ pc = "open" /\ asked /\ asked' = FALSE
      /\ UNCHANGED <<attempts, sensor, flash, firmware, rebooted>>
      /\ pipe' \in Seq(Replies) /\ Len(pipe) > 0 /\ Len(pipe') = Len(pipe) - 1
      /\ calm' = (calm /\ reply = pipe[1])
  BY <1>2, ReadStep
<1>4. Fresh' /\ CaughtUp'
  BY <1>1, <1>2, <1>3 DEF IInv, Fresh, CaughtUp, InTheClear
<1>5. Undisturbed'
  <2> SUFFICES ASSUME calm' PROVE Undisturbed'
    BY DEF Undisturbed
  <2>1. calm /\ reply = pipe[1]
    BY <1>3
  <2>2. /\ flash \in Paired /\ secure_tx /\ secure_rx
        /\ sensor.mode = "secure" /\ sensor.keys = keys
        /\ pipe = <<AnswerReply(keys)>>
    BY <1>3, <2>1 DEF IInv, Undisturbed, AnswerReply
  <2>3. reply = AnswerReply(keys) /\ pipe' = <<>>
    BY <1>3, <2>1, <2>2
  <2>4. pc' = "open"
    BY <1>1, <2>2, <2>3, AnswerParsed, HostTyped
  <2> QED
    BY <1>2, <1>3, <2>2, <2>3, <2>4 DEF Undisturbed, InTheClear, Commands
<1>6. SessionAgrees'
  <2> SUFFICES ASSUME pc' = "open", ~rebooted'
               PROVE  /\ secure_tx' /\ secure_rx' /\ sensor'.mode = "secure" /\ sensor'.keys = keys'
                      /\ IsPrefix(sensor'.log, handshake_hash')
    BY DEF SessionAgrees
  <2>1. /\ secure_tx /\ secure_rx /\ sensor.mode = "secure" /\ sensor.keys = keys
        /\ IsPrefix(sensor.log, handshake_hash)
    BY <1>3 DEF IInv, SessionAgrees
  <2>2. /\ sensor.log \in SomeMessages /\ handshake_hash \in SomeMessages
        /\ handshake_hash' \in SomeMessages
    BY <1>2 DEF IInv, Typed, TypeOK
  <2>3. Continues(sensor.log, handshake_hash)
    BY <2>1, <2>2, PrefixContinues DEF SomeMessages
  <2>4. /\ Len(sensor.log) \in Nat /\ Len(handshake_hash) \in Nat /\ Len(handshake_hash') \in Nat
    BY <2>2 DEF SomeMessages
  <2>5. Continues(sensor.log, handshake_hash')
    BY <1>2, <2>3, <2>4 DEF Continues
  <2>6. IsPrefix(sensor.log, handshake_hash')
    BY <2>2, <2>5, PrefixContinues DEF SomeMessages
  <2> QED
    BY <1>2, <1>3, <2>1, <2>6
<1> QED
  BY <1>2, <1>4, <1>5, <1>6 DEF IInv

-----------------------------------------------------------------------------
(* The invariant.                                                          *)

\* The invariant holds at first, and every step keeps it.
LEMMA InitStep == Init => IInv
<1> SUFFICES ASSUME Init PROVE IInv
  OBVIOUS
<1>1. <<>> \in SomeMessages /\ pipe \in Seq(Replies) /\ Len(pipe) = 0
  BY NoReplies DEF SomeMessages, Init
<1>2. /\ 0 \in 0..MaxAttempts /\ 0 <= MaxLate + 1 /\ 0 <= MaxLate
  BY OpenAssumption
<1>3. Typed
  BY <1>1, <1>2, BootedTyped, NothingSaid DEF Init, Typed, TypeOK, SensorStates
<1> QED
  BY <1>1, <1>3, BootedTyped DEF Init, IInv, Fresh, CaughtUp, Switching, Undisturbed, SessionAgrees,
    InTheClear

LEMMA NextStep == IInv /\ [Next]_vars => IInv'
<1> SUFFICES ASSUME IInv, [Next]_vars PROVE IInv'
  OBVIOUS
<1>1. CASE Open \/ Reboot \/ Close \/ TimesOut
  BY <1>1, OpenStep, RebootStep, CloseStep, TimesOutStep
<1>2. CASE SendPlain \/ SendHello \/ SendFlight \/ SendCommand
  BY <1>2, SendPlainStep, SendHelloStep, SendFlightStep, SendCommandStep
<1>3. ASSUME NEW reply,
             \/ ReadInit(reply) \/ ReadFirmware(reply) \/ ReadClean(reply) \/ ReadFlash(reply)
             \/ ReadHello(reply) \/ ReadFlight(reply) \/ ReadAnswer(reply)
      PROVE  IInv'
  BY <1>3, ReadInitStep, ReadFirmwareStep, ReadCleanStep, ReadFlashStep, ReadHelloStep,
    ReadFlightStep, ReadAnswerStep
<1>4. CASE UNCHANGED vars
  <2>1. UNCHANGED <<pc, asked, attempts, linked, lacking, secure_tx, secure_rx, handshake_hash,
                    client_random, server_random, keys, pipe, sensor, flash, firmware, calm,
                    rebooted>>
    BY <1>4 DEF vars, hostVars, tlsVars, factVars
  <2>2. Typed'
    BY <2>1 DEF IInv, Typed, TypeOK
  <2>3. Fresh' /\ CaughtUp'
    BY <2>1 DEF IInv, Fresh, CaughtUp
  <2>4. Switching'
    BY <2>1 DEF IInv, Switching, Agreed
  <2>5. Undisturbed'
    <3>1. Told <=> Told'
      BY <2>1 DEF Told
    <3>2. (Agreed <=> Agreed') /\ (Met <=> Met') /\ (Prepared <=> Prepared')
      BY <2>1 DEF Agreed, Met, Prepared
    <3> QED
      BY <2>1, <3>1, <3>2 DEF IInv, Undisturbed
  <2>6. SessionAgrees'
    BY <2>1 DEF IInv, SessionAgrees
  <2> QED
    BY <2>2, <2>3, <2>4, <2>5, <2>6 DEF IInv
<1> QED
  BY <1>1, <1>2, <1>3, <1>4 DEF Next

\* What is read and sent in every attempt stays within the protocol, whatever
\* was left by the attempts before it (Usb::open_device, send_init, Tls::open,
\* parse_tls_response).
THEOREM OpenInductive == Spec => []IInv
  BY InitStep, NextStep, PTL DEF Spec

\* Every variable has its type.
THEOREM OpenTyped == Spec => []TypeOK
<1>1. IInv => TypeOK
  BY DEF IInv, Typed
<1> QED
  BY <1>1, OpenInductive, PTL

\* A device opened with a reset that worked opens its session when nothing
\* fails, whatever a user before left in the sensor or unread.
THEOREM OpensFaultless == Spec => []FaultlessOpens
<1>1. IInv => FaultlessOpens
  BY DEF IInv, Undisturbed, FaultlessOpens
<1> QED
  BY <1>1, OpenInductive, PTL

\* A session the host calls open is the one the sensor is in, with the same
\* keys and a transcript the host's continues, until the sensor is reset.
THEOREM OpenAgrees == Spec => []SessionAgrees
<1>1. IInv => SessionAgrees
  BY DEF IInv
<1> QED
  BY <1>1, OpenInductive, PTL

=============================================================================
