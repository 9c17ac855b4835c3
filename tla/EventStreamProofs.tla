------------------------- MODULE EventStreamProofs -------------------------
(***************************************************************************)
(* What EventStream keeps for any number of attempts, events, failures and *)
(* reconnections: the log and the page keep the promises of EventFeed, and *)
(* whatever the page has passed over was not published, or was published   *)
(* after a later event, or was dropped by Redis.                           *)
(***************************************************************************)
EXTENDS EventStream, FiniteSetTheorems, TLAPS

-----------------------------------------------------------------------------
(* The invariant *)

EventRecord == [seq : Nat, type : EventTypes, by : Producers]
ProducerPc == {"idle", "read", "begin", "recover", "work", "commit", "catch",
               "latest", "create", "publish", "done", "thrown"}
ProducerRecord == [pc : ProducerPc, type : EventTypes, seq : Nat]
ConnPc == {"closed", "subscribing", "loading", "merging", "live"}
ConnRecord == [pc : ConnPc, last : Nat, backlog : SUBSET log,
               buffer : SUBSET log, inbox : Seq(log)]
ClientPc == Finished \cup {"connect", "reading", "backoff", "detail", "poll"}
ClientRecord == [pc : ClientPc, last : 0..Cardinality(log), reconnects : Nat,
                 polls : Nat, detail : Statuses]

\* The log holds one event under each number up to its size.
LogInv ==
  /\ log \in SUBSET EventRecord /\ IsFiniteSet(log) /\ Created \in log
  /\ \A e \in log : e.seq \in 1..Cardinality(log)
  /\ \A n \in 1..Cardinality(log) : \E e \in log : e.seq = n
  /\ \A d, e \in log : d.seq = e.seq => d = e

\* An emitter holds a number the log has reached, and publishes what is in it.
ProducerInv ==
  /\ producer \in [Producers -> ProducerRecord]
  /\ \A p \in Producers :
       /\ producer[p].pc = "create" => producer[p].seq \in 1..Cardinality(log) + 1
       /\ producer[p].pc = "publish" =>
            [seq |-> producer[p].seq, type |-> producer[p].type, by |-> p] \in log

StreamTyped ==
  /\ status \in Statuses /\ faults \in Nat
  /\ published \in SUBSET (1..Cardinality(log))
  /\ late \in SUBSET published /\ lost \in SUBSET Nat
  /\ conn \in ConnRecord /\ wire \in Seq(log)
  /\ client \in ClientRecord /\ shown \in SUBSET (1..client.last)

Numbers(events) == {e.seq : e \in events}
NumbersIn(s) == {s[i].seq : i \in 1..Len(s)}

\* Every number below an event of s is in A or comes earlier in s.
Covered(s, A) ==
  \A i \in 1..Len(s) : \A n \in 1..(s[i].seq - 1) :
    n \in A \/ \E j \in 1..(i - 1) : s[j].seq = n

\* Numbers the page need not show before a later one: published after a later
\* number, dropped by Redis, or still not published when a later one was.
Overtaken == {n \in Nat \ published : \E m \in published : m > n}
Skippable == late \cup lost \cup Overtaken
Passed == shown \cup Skippable

\* What the page has passed over, and will with the frames on the wire.
PageInv ==
  /\ 1..client.last \subseteq Passed
  /\ Covered(wire, Passed)
  /\ conn.pc # "closed" => 1..conn.last \subseteq Passed \cup NumbersIn(wire)

\* What the stream has written or holds for the merge.
Ahead == (1..conn.last) \cup Numbers(conn.backlog \cup conn.buffer)

\* From the query on: every published event has been written, is held, waits in
\* the subscriber's inbox or was dropped; and nothing held or waiting leaves a
\* number behind that the page may not skip.
ConnInv ==
  conn.pc \in {"merging", "live"} =>
    /\ published \subseteq Ahead \cup NumbersIn(conn.inbox) \cup lost
    /\ Covered(conn.inbox, Skippable \cup Ahead)
    /\ \A e \in conn.backlog \cup conn.buffer :
         1..(e.seq - 1) \subseteq Skippable \cup Ahead
    /\ conn.pc = "live" => conn.backlog = {} /\ conn.buffer = {}

\* A page that still reads or connects has not shown a terminal event.
ReadingInv ==
  client.pc \in {"connect", "reading", "backoff"} =>
    \A e \in log : e.seq = client.last => e.type \notin TERMINAL_EVENT_TYPES

Inv == LogInv /\ ProducerInv /\ StreamTyped /\ PageInv /\ ConnInv /\ ReadingInv

-----------------------------------------------------------------------------
(* Operators *)

\* The numbers of the events of a set are integers, each of one event.
Numbered(events) ==
  /\ IsFiniteSet(events)
  /\ \A e \in events : e.seq \in Nat
  /\ \A d, e \in events : d.seq = e.seq => d = e

Rank(events, e) == Cardinality({d \in events : d.seq < e.seq})

\* Sorting: each position below the size of a numbered set is the rank of one
\* of its events, and ranks grow with the numbers.
LEMMA RankIs ==
  ASSUME NEW S, Numbered(S)
  PROVE  /\ Cardinality(S) \in Nat
         /\ \A e \in S : Rank(S, e) \in 0..(Cardinality(S) - 1)
         /\ \A d, e \in S : d.seq < e.seq => Rank(S, d) < Rank(S, e)
         /\ \A k \in 0..(Cardinality(S) - 1) : \E e \in S : Rank(S, e) = k
<1> DEFINE Below(e) == {d \in S : d.seq < e.seq}
<1>1. \A e \in S : /\ IsFiniteSet(Below(e)) /\ Cardinality(Below(e)) \in Nat
                   /\ Cardinality(Below(e)) < Cardinality(S)
  <2> TAKE e \in S
  <2>1. Below(e) \in SUBSET S /\ IsFiniteSet(S) /\ e \in S \ Below(e)
    BY DEF Numbered
  <2>2. IsFiniteSet(Below(e)) /\ Cardinality(Below(e)) <= Cardinality(S)
        /\ Cardinality(Below(e)) # Cardinality(S)
    BY <2>1, FS_Subset, Zenon
  <2>3. Cardinality(Below(e)) \in Nat /\ Cardinality(S) \in Nat
    BY <2>1, <2>2, FS_CardinalityType
  <2> HIDE DEF Below
  <2> QED BY <2>2, <2>3
<1>2. Cardinality(S) \in Nat
  BY FS_CardinalityType DEF Numbered
<1>3. ASSUME NEW d \in S, NEW e \in S, d.seq < e.seq
      PROVE  Cardinality(Below(d)) < Cardinality(Below(e))
  <2>1. Below(d) \in SUBSET Below(e) /\ d \in Below(e) \ Below(d)
    BY <1>3 DEF Numbered
  <2>2. Cardinality(Below(d)) <= Cardinality(Below(e))
        /\ Cardinality(Below(d)) # Cardinality(Below(e))
    BY <1>1, <2>1, FS_Subset, Zenon
  <2> HIDE DEF Below
  <2> QED BY <1>1, <2>2
<1>4. \A e \in S : Rank(S, e) = Cardinality(Below(e))
  BY DEF Rank
<1> HIDE DEF Below
<1> DEFINE f == [e \in S |-> Rank(S, e)]  T == 0..(Cardinality(S) - 1)
<1>5. \A e \in S : Rank(S, e) \in T
  BY <1>1, <1>2, <1>4
<1>6. f \in Injection(S, T)
  <2>1. f \in [S -> T]
    BY <1>5
  <2>2. ASSUME NEW d \in S, NEW e \in S, Rank(S, d) = Rank(S, e) PROVE d = e
    <3>1. d.seq \in Nat /\ e.seq \in Nat /\ (d.seq = e.seq => d = e)
      BY DEF Numbered
    <3>2. ~(d.seq < e.seq) /\ ~(e.seq < d.seq)
      BY <1>1, <1>3, <1>4, <2>2
    <3> QED BY <3>1, <3>2
  <2> QED BY <2>1, <2>2, Zenon DEF Injection, IsInjective
<1>7. IsFiniteSet(T) /\ Cardinality(T) = Cardinality(S)
  BY <1>2, FS_Interval
<1>8. f \in Surjection(S, T)
  BY <1>6, <1>7, FS_Injection, Zenon
<1>9. \A k \in T : \E e \in S : Rank(S, e) = k
  BY <1>8, Zenon DEF Surjection
<1> QED BY <1>2, <1>3, <1>4, <1>5, <1>9

\* Sorting returns the events of the set, each of them once, in the order of
\* their numbers.
LEMMA InOrderIs ==
  ASSUME NEW S, Numbered(S)
  PROVE  /\ InOrder(S) \in Seq(S) /\ Len(InOrder(S)) = Cardinality(S)
         /\ \A e \in S : \E i \in 1..Len(InOrder(S)) : InOrder(S)[i] = e
         /\ \A i, j \in 1..Len(InOrder(S)) :
              i < j => InOrder(S)[i].seq < InOrder(S)[j].seq
<1> DEFINE n == Cardinality(S)  s == InOrder(S)
<1>1. /\ n \in Nat
      /\ \A e \in S : Rank(S, e) \in 0..(n - 1)
      /\ \A d, e \in S : d.seq < e.seq => Rank(S, d) < Rank(S, e)
      /\ \A k \in 0..(n - 1) : \E e \in S : Rank(S, e) = k
  BY RankIs
<1>2. s = [i \in 1..n |-> CHOOSE e \in S : Rank(S, e) = i - 1]
  BY DEF InOrder, Rank
<1> HIDE DEF s, n
<1>3. \A i \in 1..n : s[i] \in S /\ Rank(S, s[i]) = i - 1
  <2> TAKE i \in 1..n
  <2>1. i - 1 \in 0..(n - 1)
    BY <1>1
  <2>2. \E e \in S : Rank(S, e) = i - 1
    BY <1>1, <2>1
  <2> QED BY <1>2, <2>2
<1>4. s \in Seq(S) /\ Len(s) = n
  <2>1. s \in [1..n -> S]
    BY <1>2, <1>3
  <2> QED BY <1>1, <2>1
<1>5. \A d, e \in S : /\ d.seq \in Nat /\ e.seq \in Nat
                      /\ d.seq = e.seq => d = e
  BY DEF Numbered
<1>6. ASSUME NEW d \in S, NEW e \in S, Rank(S, d) = Rank(S, e) PROVE d = e
  BY <1>1, <1>5, <1>6
<1>7. \A e \in S : \E i \in 1..Len(s) : s[i] = e
  <2> TAKE e \in S
  <2>1. Rank(S, e) + 1 \in 1..n /\ (Rank(S, e) + 1) - 1 = Rank(S, e)
    BY <1>1
  <2>2. s[Rank(S, e) + 1] = e
    BY <1>3, <1>6, <2>1
  <2> QED BY <1>4, <2>1, <2>2
<1>8. ASSUME NEW i \in 1..n, NEW j \in 1..n, i < j PROVE s[i].seq < s[j].seq
  <2>1. s[i] \in S /\ s[j] \in S /\ Rank(S, s[i]) < Rank(S, s[j])
    BY <1>1, <1>3, <1>8
  <2> QED BY <1>1, <1>5, <2>1
<1> QED BY <1>1, <1>4, <1>7, <1>8 DEF s, n

\* Sorting leaves no number behind that the set itself does not.
LEMMA CoveredInOrder ==
  ASSUME NEW S, Numbered(S), NEW A,
         \A e \in S : 1..(e.seq - 1) \subseteq A \cup Numbers(S)
  PROVE  /\ Covered(InOrder(S), A) /\ NumbersIn(InOrder(S)) = Numbers(S)
         /\ InOrder(S) \in Seq(S)
<1> DEFINE s == InOrder(S)
<1>1. /\ s \in Seq(S)
      /\ \A e \in S : \E i \in 1..Len(s) : s[i] = e
      /\ \A i, j \in 1..Len(s) : i < j => s[i].seq < s[j].seq
  BY InOrderIs
<1> HIDE DEF s
<1>2. /\ Len(s) \in Nat
      /\ \A i \in 1..Len(s) : s[i] \in S /\ s[i].seq \in Nat
  BY <1>1 DEF Numbered
<1>3. NumbersIn(s) = Numbers(S)
  BY <1>1, <1>2 DEF Numbers, NumbersIn
<1>4. ASSUME NEW i \in 1..Len(s), NEW n \in 1..(s[i].seq - 1), n \notin A
      PROVE  \E j \in 1..(i - 1) : s[j].seq = n
  <2>1. n \in NumbersIn(s)
    BY <1>2, <1>3, <1>4
  <2>2. PICK j \in 1..Len(s) : s[j].seq = n
    BY <2>1 DEF NumbersIn
  <2>3. n < s[i].seq /\ s[i].seq \in Nat /\ n \in Nat
    BY <1>2
  <2>4. ASSUME i < j PROVE FALSE
    <3>1. s[i].seq < s[j].seq
      BY <1>1, <2>4
    <3> QED BY <2>2, <2>3, <3>1
  <2>5. i # j
    BY <2>2, <2>3
  <2> QED BY <1>2, <2>2, <2>4, <2>5
<1>5. Covered(s, A)
  BY <1>4 DEF Covered
<1> QED BY <1>1, <1>3, <1>5 DEF s

\* One more event at the end of a sequence.
LEMMA CoveredAppend ==
  ASSUME NEW S, NEW s \in Seq(S), NEW e \in S, NEW A,
         \A d \in S : d.seq \in Nat,
         Covered(s, A), 1..(e.seq - 1) \subseteq A \cup NumbersIn(s)
  PROVE  /\ Covered(Append(s, e), A)
         /\ NumbersIn(Append(s, e)) = NumbersIn(s) \cup {e.seq}
<1> DEFINE t == Append(s, e)
<1>1. /\ Len(s) \in Nat /\ Len(t) = Len(s) + 1 /\ t[Len(s) + 1] = e
      /\ \A i \in 1..Len(s) : t[i] = s[i]
  OBVIOUS
<1> HIDE DEF t
<1>2. NumbersIn(t) = NumbersIn(s) \cup {e.seq}
  <2>1. \A i \in 1..Len(t) : i \in 1..Len(s) \/ i = Len(s) + 1
    BY <1>1
  <2>2. Len(s) + 1 \in 1..Len(t) /\ \A i \in 1..Len(s) : i \in 1..Len(t)
    BY <1>1
  <2> QED BY <1>1, <2>1, <2>2 DEF NumbersIn
<1>3. Covered(t, A)
  <2> SUFFICES ASSUME NEW i \in 1..Len(t), NEW n \in 1..(t[i].seq - 1), n \notin A
               PROVE  \E j \in 1..(i - 1) : t[j].seq = n
    BY DEF Covered
  <2>1. CASE i \in 1..Len(s)
    <3>1. PICK j \in 1..(i - 1) : s[j].seq = n
      BY <1>1, <2>1 DEF Covered
    <3> QED BY <1>1, <2>1, <3>1
  <2>2. CASE i = Len(s) + 1
    <3>1. n \in NumbersIn(s)
      BY <1>1, <2>2
    <3>2. PICK j \in 1..Len(s) : s[j].seq = n
      BY <3>1 DEF NumbersIn
    <3> QED BY <1>1, <2>2, <3>2
  <2> QED BY <1>1, <2>1, <2>2
<1> QED BY <1>2, <1>3 DEF t

\* The first event of a sequence leaves for B.
LEMMA CoveredTail ==
  ASSUME NEW S, NEW s \in Seq(S), s # <<>>, NEW A, NEW B,
         \A d \in S : d.seq \in Nat,
         Covered(s, A), A \subseteq B, Head(s).seq \in B
  PROVE  /\ Tail(s) \in Seq(S) /\ Head(s) \in S
         /\ Covered(Tail(s), B) /\ NumbersIn(s) \subseteq {Head(s).seq} \cup NumbersIn(Tail(s))
         /\ 1..(Head(s).seq - 1) \subseteq A
<1> DEFINE t == Tail(s)  h == Head(s)
<1>1. /\ Len(s) \in Nat \ {0} /\ Len(t) = Len(s) - 1 /\ h = s[1] /\ h \in S
      /\ t \in Seq(S)
      /\ \A i \in 1..Len(t) : t[i] = s[i + 1]
  OBVIOUS
<1>2. h.seq \in B
  OBVIOUS
<1> HIDE DEF t, h
<1>3. NumbersIn(s) \subseteq {h.seq} \cup NumbersIn(t)
  <2> SUFFICES ASSUME NEW i \in 1..Len(s) PROVE s[i].seq \in {h.seq} \cup NumbersIn(t)
    BY DEF NumbersIn
  <2>1. CASE i = 1
    BY <1>1, <2>1
  <2>2. CASE i # 1
    <3>1. i - 1 \in 1..Len(t) /\ t[i - 1] = s[i]
      BY <1>1, <2>2
    <3> QED BY <3>1 DEF NumbersIn
  <2> QED BY <2>1, <2>2
<1>4. Covered(t, B)
  <2> SUFFICES ASSUME NEW i \in 1..Len(t), NEW n \in 1..(t[i].seq - 1), n \notin B
               PROVE  \E j \in 1..(i - 1) : t[j].seq = n
    BY DEF Covered
  <2>1. i + 1 \in 1..Len(s) /\ t[i] = s[i + 1] /\ n \notin A
    BY <1>1
  <2>2. PICK j \in 1..i : s[j].seq = n
    BY <1>1, <2>1 DEF Covered
  <2>3. j # 1
    BY <1>1, <1>2, <2>2
  <2>4. j - 1 \in 1..(i - 1) /\ j - 1 \in 1..Len(t) /\ (j - 1) + 1 = j
    BY <1>1, <2>2, <2>3
  <2>5. t[j - 1] = s[j]
    BY <1>1, <2>4
  <2> QED BY <2>2, <2>4, <2>5
<1>5. 1..(h.seq - 1) \subseteq A
  BY <1>1 DEF Covered
<1> QED BY <1>1, <1>3, <1>4, <1>5 DEF t, h

\* A sequence after another.
LEMMA CoveredConcat ==
  ASSUME NEW S, NEW s \in Seq(S), NEW t \in Seq(S), NEW A,
         \A d \in S : d.seq \in Nat,
         Covered(s, A), Covered(t, A \cup NumbersIn(s))
  PROVE  /\ s \o t \in Seq(S) /\ Covered(s \o t, A)
         /\ NumbersIn(s \o t) = NumbersIn(s) \cup NumbersIn(t)
<1> DEFINE u == s \o t
<1>1. /\ Len(s) \in Nat /\ Len(t) \in Nat /\ Len(u) = Len(s) + Len(t)
      /\ u \in Seq(S)
      /\ \A i \in 1..Len(s) : u[i] = s[i]
      /\ \A i \in 1..Len(t) : u[Len(s) + i] = t[i]
  OBVIOUS
<1> HIDE DEF u
<1>2. /\ \A i \in 1..Len(u) : i \in 1..Len(s) \/ \E k \in 1..Len(t) : i = Len(s) + k
      /\ \A i \in 1..Len(s) : i \in 1..Len(u)
      /\ \A k \in 1..Len(t) : Len(s) + k \in 1..Len(u)
  <2>1. ASSUME NEW i \in 1..Len(u), i \notin 1..Len(s)
        PROVE  \E k \in 1..Len(t) : i = Len(s) + k
    <3>1. i - Len(s) \in 1..Len(t) /\ i = Len(s) + (i - Len(s))
      BY <1>1, <2>1
    <3> QED BY <3>1
  <2>2. \A i \in 1..Len(s) : i \in 1..Len(u)
    BY <1>1
  <2>3. \A k \in 1..Len(t) : Len(s) + k \in 1..Len(u)
    BY <1>1
  <2> QED BY <2>1, <2>2, <2>3
<1>3. NumbersIn(u) = NumbersIn(s) \cup NumbersIn(t)
  <2>1. ASSUME NEW i \in 1..Len(u) PROVE u[i].seq \in NumbersIn(s) \cup NumbersIn(t)
    <3>1. CASE i \in 1..Len(s)
      BY <1>1, <3>1 DEF NumbersIn
    <3>2. ASSUME NEW k \in 1..Len(t), i = Len(s) + k PROVE u[i].seq \in NumbersIn(t)
      BY <1>1, <3>2 DEF NumbersIn
    <3> QED BY <1>2, <3>1, <3>2
  <2>2. ASSUME NEW i \in 1..Len(s) PROVE s[i].seq \in NumbersIn(u)
    BY <1>1, <1>2 DEF NumbersIn
  <2>3. ASSUME NEW k \in 1..Len(t) PROVE t[k].seq \in NumbersIn(u)
    BY <1>1, <1>2 DEF NumbersIn
  <2> QED BY <2>1, <2>2, <2>3 DEF NumbersIn
<1>4. Covered(u, A)
  <2> SUFFICES ASSUME NEW i \in 1..Len(u), NEW n \in 1..(u[i].seq - 1), n \notin A
               PROVE  \E j \in 1..(i - 1) : u[j].seq = n
    BY DEF Covered
  <2>1. CASE i \in 1..Len(s)
    <3>1. n \in 1..(s[i].seq - 1)
      BY <1>1, <2>1
    <3>2. PICK j \in 1..(i - 1) : s[j].seq = n
      BY <2>1, <3>1 DEF Covered
    <3>3. j \in 1..Len(s)
      BY <1>1, <2>1, <3>2
    <3> QED BY <1>1, <3>2, <3>3
  <2>2. ASSUME NEW k \in 1..Len(t), i = Len(s) + k
        PROVE  \E j \in 1..(i - 1) : u[j].seq = n
    <3>1. n \in 1..(t[k].seq - 1)
      BY <1>1, <2>2
    <3>2. n \in NumbersIn(s) \/ \E j \in 1..(k - 1) : t[j].seq = n
      BY <3>1 DEF Covered
    <3>3. CASE n \in NumbersIn(s)
      <4>1. PICK j \in 1..Len(s) : s[j].seq = n
        BY <3>3 DEF NumbersIn
      <4> QED BY <1>1, <2>2, <4>1
    <3>4. ASSUME NEW j \in 1..(k - 1), t[j].seq = n
          PROVE  \E m \in 1..(i - 1) : u[m].seq = n
      <4>1. Len(s) + j \in 1..(i - 1) /\ u[Len(s) + j] = t[j]
        BY <1>1, <2>2
      <4> QED BY <3>4, <4>1
    <3> QED BY <3>2, <3>3, <3>4
  <2> QED BY <1>2, <2>1, <2>2
<1> QED BY <1>1, <1>3, <1>4 DEF u

LEMMA CoveredMore ==
  ASSUME NEW s, NEW A, NEW B, Covered(s, A), A \subseteq B
  PROVE  Covered(s, B)
BY DEF Covered

\* A sequence of events of a set is one of a larger set.
LEMMA SeqMore ==
  ASSUME NEW S, NEW T, S \subseteq T, NEW s \in Seq(S)
  PROVE  s \in Seq(T)
OBVIOUS

-----------------------------------------------------------------------------
(* The log and the emitters *)

LEMMA LogSize ==
  ASSUME LogInv
  PROVE  /\ Cardinality(log) \in Nat \ {0}
         /\ \A e \in log : e.seq \in Nat \ {0} /\ e.type \in EventTypes
         /\ Numbers(log) = 1..Cardinality(log)
         /\ Max({e.seq : e \in log}) = Cardinality(log)
<1>1. Cardinality(log) \in Nat
  BY FS_CardinalityType DEF LogInv
<1>2. 1 \in 1..Cardinality(log)
  BY DEF LogInv, Created
<1>3. \A e \in log : e.seq \in Nat \ {0} /\ e.type \in EventTypes
  BY <1>1 DEF LogInv, EventRecord
<1>4. {e.seq : e \in log} = 1..Cardinality(log)
  <2>1. \A e \in log : e.seq \in 1..Cardinality(log)
    BY DEF LogInv
  <2>2. \A n \in 1..Cardinality(log) : \E e \in log : e.seq = n
    BY DEF LogInv
  <2> QED BY <2>1, <2>2
<1>5. Max(1..Cardinality(log)) = Cardinality(log)
  <2> DEFINE k == Cardinality(log)
  <2> HIDE DEF k
  <2>1. k \in 1..k /\ \A y \in 1..k : k >= y
    BY <1>1, <1>2 DEF k
  <2>2. \A x \in 1..k : (\A y \in 1..k : x >= y) => x = k
    BY <1>1, <2>1 DEF k
  <2>3. Max(1..k) = k
    BY <2>1, <2>2 DEF Max
  <2> QED BY <2>3 DEF k
<1>6. Max({e.seq : e \in log}) = Cardinality(log)
  BY <1>4, <1>5, Zenon
<1>7. Cardinality(log) \in Nat \ {0}
  BY <1>1, <1>2
<1> QED BY <1>3, <1>4, <1>6, <1>7, Zenon DEF Numbers

\* An event under a number that no event has, and not beyond the next one.
LEMMA LogGrows ==
  ASSUME LogInv, NEW p \in Producers, NEW t \in EventTypes,
         NEW n \in 1..Cardinality(log) + 1, \A e \in log : e.seq # n,
         log' = log \cup {[seq |-> n, type |-> t, by |-> p]}
  PROVE  LogInv' /\ n = Cardinality(log) + 1 /\ Cardinality(log') = Cardinality(log) + 1
<1> DEFINE x == [seq |-> n, type |-> t, by |-> p]
<1>1. Cardinality(log) \in Nat \ {0} /\ Numbers(log) = 1..Cardinality(log)
  BY LogSize
<1>2. n = Cardinality(log) + 1
  <2>1. n \notin 1..Cardinality(log)
    BY <1>1 DEF Numbers
  <2> QED BY <1>1, <2>1
<1>3. x.seq = n /\ x.type = t /\ x \in EventRecord /\ x \notin log
  BY <1>1 DEF EventRecord
<1> HIDE DEF x
<1>4. log' = log \cup {x}
  BY DEF x
<1>5. IsFiniteSet(log') /\ Cardinality(log') = Cardinality(log) + 1
  <2>1. IsFiniteSet(log)
    BY DEF LogInv
  <2>2. IsFiniteSet(log \cup {x}) /\ Cardinality(log \cup {x}) = Cardinality(log) + 1
    BY <1>3, <2>1, FS_AddElement, Zenon
  <2> QED BY <1>4, <2>2, Zenon
<1>6. \A e \in log' : e.seq \in 1..Cardinality(log')
  BY <1>1, <1>2, <1>3, <1>4, <1>5 DEF LogInv
<1>7. \A m \in 1..Cardinality(log') : \E e \in log' : e.seq = m
  BY <1>1, <1>2, <1>3, <1>4, <1>5 DEF LogInv
<1>8. \A d, e \in log' : d.seq = e.seq => d = e
  BY <1>3, <1>4 DEF LogInv, x
<1>9. log' \in SUBSET EventRecord /\ Created \in log'
  BY <1>3, <1>4 DEF LogInv
<1> QED BY <1>2, <1>5, <1>6, <1>7, <1>8, <1>9 DEF LogInv

\* One emitter moves, and neither takes a number nor announces an event.
Moves(p) ==
  \E r \in ProducerRecord : /\ r.pc \notin {"create", "publish"}
                            /\ producer' = [producer EXCEPT ![p] = r]

LEMMA MoveTo ==
  ASSUME NEW p \in Producers, NEW pc \in ProducerPc \ {"create", "publish"},
         At(p, pc)
  PROVE  Moves(p)
<1>1. [Idle EXCEPT !.pc = pc] \in ProducerRecord /\ [Idle EXCEPT !.pc = pc].pc = pc
  BY DEF Idle, ProducerRecord, EventTypes
<1> QED BY <1>1 DEF At, Moves

LEMMA MoveEmitting ==
  ASSUME NEW p \in Producers, NEW t \in EventTypes,
         producer' = [producer EXCEPT ![p] = Emitting(t)]
  PROVE  Moves(p)
<1>1. Emitting(t) \in ProducerRecord /\ Emitting(t).pc = "latest"
  BY DEF Emitting, ProducerRecord, ProducerPc
<1> QED BY <1>1 DEF Moves

LEMMA ProducerMoves ==
  ASSUME ProducerInv, NEW p \in Producers, Moves(p), UNCHANGED log
  PROVE  ProducerInv'
<1>1. PICK r \in ProducerRecord : /\ r.pc \notin {"create", "publish"}
                                  /\ producer' = [producer EXCEPT ![p] = r]
  BY DEF Moves
<1>2. producer' \in [Producers -> ProducerRecord]
  BY <1>1 DEF ProducerInv
<1>3. producer'[p] = r /\ \A q \in Producers \ {p} : producer'[q] = producer[q]
  BY <1>1 DEF ProducerInv
<1>4. ASSUME NEW q \in Producers
      PROVE  /\ producer'[q].pc = "create" => producer'[q].seq \in 1..Cardinality(log') + 1
             /\ producer'[q].pc = "publish" =>
                  [seq |-> producer'[q].seq, type |-> producer'[q].type, by |-> q] \in log'
  <2>1. CASE q = p
    BY <1>1, <1>3, <2>1
  <2>2. CASE q # p
    BY <1>3, <2>2 DEF ProducerInv
  <2> QED BY <2>1, <2>2
<1> QED BY <1>2, <1>4 DEF ProducerInv

\* What a step of the run does: it moves one emitter and may settle the run.
LEMMA RunMoves ==
  ASSUME StreamTyped, ProducerInv, Run
  PROVE  /\ \E p \in Producers : Moves(p)
         /\ status' \in Statuses /\ faults' \in Nat
         /\ UNCHANGED <<log, published, late, streamVars, clientVars>>
<1> DEFINE Same == /\ status' \in Statuses /\ faults' \in Nat
                   /\ UNCHANGED <<log, published, late, streamVars, clientVars>>
<1> USE DEF StreamTyped
<1>1. CASE Cancel
  <2>1. Route \in Producers /\ "run.cancelled" \in EventTypes
    BY DEF Producers, EventTypes
  <2>2. producer' = [producer EXCEPT ![Route] = Emitting("run.cancelled")]
    BY <1>1 DEF Cancel
  <2>3. Moves(Route)
    BY <2>1, <2>2, MoveEmitting
  <2>4. Same
    BY <1>1 DEF Cancel, Statuses
  <2> QED BY <2>1, <2>3, <2>4
<1>2. ASSUME NEW w \in Workers PROVE w \in Producers
  BY DEF Producers
<1> DEFINE Goes(w, pcs) == \E pc \in pcs : At(w, pc)
           Emits(w) == \E t \in EventTypes : producer' = [producer EXCEPT ![w] = Emitting(t)]
<1>3. ASSUME NEW w \in Workers, Goes(w, ProducerPc \ {"create", "publish"}) \/ Emits(w)
      PROVE  \E p \in Producers : Moves(p)
  BY <1>2, <1>3, MoveTo, MoveEmitting
<1>4. ASSUME NEW w \in Workers, Deliver(w) \/ Stall(w) \/ Crash(w)
      PROVE  Same /\ Goes(w, ProducerPc \ {"create", "publish"})
  <2>1. Same
    BY <1>4 DEF Deliver, Stall, Crash, Fault
  <2>2. At(w, "done") \/ At(w, "read") \/ At(w, "thrown")
    <3>1. CASE Deliver(w)
      BY <3>1, Zenon DEF Deliver, Start
    <3>2. CASE Stall(w)
      BY <3>2, Zenon DEF Stall, Start
    <3>3. CASE Crash(w)
      BY <3>3, Zenon DEF Crash
    <3> QED BY <1>4, <3>1, <3>2, <3>3
  <2> HIDE DEF StreamTyped
  <2>3. {"done", "read", "thrown"} \subseteq ProducerPc \ {"create", "publish"}
    BY DEF ProducerPc
  <2> QED BY <2>1, <2>2, <2>3
<1>5. ASSUME NEW w \in Workers,
             Begin(w) \/ Step(w) \/ WorkFails(w) \/ Persist(w) \/ ReadRun(w)
             \/ Commit(w) \/ FailOrphan(w) \/ Catch(w)
      PROVE  Same
  BY <1>5 DEF Begin, Step, WorkFails, Persist, ReadRun, Commit, FailOrphan, Catch, Statuses
<1> HIDE DEF StreamTyped
<1>6. ASSUME NEW w \in Workers,
             Begin(w) \/ Step(w) \/ WorkFails(w) \/ Persist(w) \/ ReadRun(w)
             \/ Commit(w) \/ FailOrphan(w) \/ Catch(w)
      PROVE  Goes(w, ProducerPc \ {"create", "publish"}) \/ Emits(w)
  <2>1. {"recover", "done", "begin", "catch", "commit", "thrown"}
          \subseteq ProducerPc \ {"create", "publish"}
    BY DEF ProducerPc
  <2>2. {"agent.step", "run.completed", "run.failed"} \subseteq EventTypes
    BY DEF EventTypes
  <2>3. CASE Begin(w)
    BY <2>1, <2>2, <2>3, Zenon DEF Begin
  <2>4. CASE Step(w)
    BY <2>1, <2>2, <2>4, Zenon DEF Step
  <2>5. CASE WorkFails(w)
    BY <2>1, <2>2, <2>5, Zenon DEF WorkFails
  <2>6. CASE Persist(w)
    BY <2>1, <2>2, <2>6, Zenon DEF Persist
  <2>7. CASE ReadRun(w)
    BY <2>1, <2>2, <2>7, Zenon DEF ReadRun
  <2>8. CASE Commit(w)
    BY <2>1, <2>2, <2>8, Zenon DEF Commit
  <2>9. CASE FailOrphan(w)
    BY <2>1, <2>2, <2>9, Zenon DEF FailOrphan
  <2>10. CASE Catch(w)
    BY <2>1, <2>2, <2>10, Zenon DEF Catch
  <2> QED BY <1>6, <2>3, <2>4, <2>5, <2>6, <2>7, <2>8, <2>9, <2>10
<1> HIDE DEF Same, Goes, Emits
<1>7. ASSUME NEW w \in Workers,
             \/ Deliver(w) \/ Stall(w) \/ Crash(w)
             \/ ReadRun(w) \/ Begin(w) \/ Step(w) \/ WorkFails(w) \/ Persist(w)
             \/ Commit(w) \/ FailOrphan(w) \/ Catch(w)
      PROVE  Same /\ \E p \in Producers : Moves(p)
  BY <1>3, <1>4, <1>5, <1>6, <1>7
<1>8. Same /\ \E p \in Producers : Moves(p)
  BY <1>1, <1>7 DEF Run, Same
<1> QED BY <1>8 DEF Same

\* The stream and the page do not notice a step of the run or of an emitter
\* that publishes nothing, nor that the log has grown.
LEMMA QuietStep ==
  ASSUME Inv, UNCHANGED <<published, late, streamVars, clientVars>>,
         status' \in Statuses, faults' \in Nat, log \subseteq log',
         Cardinality(log') \in {Cardinality(log), Cardinality(log) + 1},
         \A e \in log' \ log : e.seq = Cardinality(log) + 1
  PROVE  StreamTyped' /\ PageInv' /\ ConnInv' /\ ReadingInv'
<1> USE DEF streamVars, clientVars
<1>1. /\ Cardinality(log) \in Nat /\ Cardinality(log') \in Nat
      /\ Cardinality(log) <= Cardinality(log')
  BY LogSize DEF Inv
<1>2. /\ published' \in SUBSET (1..Cardinality(log'))
      /\ late' \in SUBSET published' /\ lost' \in SUBSET Nat
      /\ shown' \in SUBSET (1..client'.last)
  BY <1>1 DEF Inv, StreamTyped
<1>3. conn' \in ConnRecord' /\ wire' \in Seq(log')
  <2>1. conn.inbox \in Seq(log') /\ wire \in Seq(log')
    BY SeqMore DEF Inv, StreamTyped, ConnRecord
  <2>2. conn' = conn /\ wire' = wire
    OBVIOUS
  <2>3. conn = [pc |-> conn.pc, last |-> conn.last, backlog |-> conn.backlog,
                buffer |-> conn.buffer, inbox |-> conn.inbox]
        /\ conn.pc \in ConnPc /\ conn.last \in Nat
        /\ conn.backlog \in SUBSET log' /\ conn.buffer \in SUBSET log'
    BY DEF Inv, StreamTyped, ConnRecord
  <2>4. conn \in ConnRecord'
    BY <2>1, <2>3 DEF ConnRecord, ConnPc
  <2> QED BY <2>1, <2>2, <2>4
<1>4. client' \in ClientRecord'
  <2>1. client.last \in 0..Cardinality(log')
    BY <1>1 DEF Inv, StreamTyped, ClientRecord
  <2> QED BY <2>1 DEF Inv, StreamTyped, ClientRecord
<1>5. StreamTyped'
  BY <1>2, <1>3, <1>4 DEF StreamTyped
<1>6. PageInv'
  BY DEF Inv, PageInv, Passed, Skippable, Overtaken
<1>7. ConnInv'
  BY DEF Inv, ConnInv, Ahead, Skippable, Overtaken
<1>8. ReadingInv'
  BY <1>1 DEF Inv, ReadingInv, StreamTyped, ClientRecord
<1> QED BY <1>5, <1>6, <1>7, <1>8

LEMMA RunKeepsInv ==
  ASSUME Inv, Run
  PROVE  Inv'
<1>1. /\ \E p \in Producers : Moves(p)
      /\ status' \in Statuses /\ faults' \in Nat
      /\ UNCHANGED <<log, published, late, streamVars, clientVars>>
  BY RunMoves DEF Inv
<1>2. LogInv' /\ ProducerInv'
  BY <1>1, ProducerMoves DEF Inv, LogInv
<1>3. StreamTyped' /\ PageInv' /\ ConnInv' /\ ReadingInv'
  BY <1>1, QuietStep
<1> QED BY <1>2, <1>3 DEF Inv

LEMMA TakesNumber ==
  ASSUME NEW q \in ProducerRecord, NEW n \in Nat
  PROVE  LET r == [q EXCEPT !.pc = "create", !.seq = n] IN
         r \in ProducerRecord /\ r.pc = "create" /\ r.seq = n
BY DEF ProducerRecord, ProducerPc

\* getNextSequence takes the number after the last one.
LEMMA NumberingKeepsInv ==
  ASSUME Inv, NEW p \in Producers, getNextSequence(p)
  PROVE  Inv'
<1>1. /\ producer[p] \in ProducerRecord /\ UNCHANGED log
      /\ Cardinality(log) \in Nat /\ Max({e.seq : e \in log}) = Cardinality(log)
  BY LogSize DEF Inv, ProducerInv, getNextSequence
<1> DEFINE r == [producer[p] EXCEPT !.pc = "create", !.seq = Cardinality(log) + 1]
<1>2. r \in ProducerRecord /\ r.pc = "create" /\ r.seq = Cardinality(log) + 1
  <2>1. Cardinality(log) + 1 \in Nat
    BY <1>1
  <2> QED BY <1>1, <2>1, TakesNumber
<1>3. producer' = [producer EXCEPT ![p] = r]
  BY <1>1 DEF getNextSequence, Inv, ProducerInv
<1> HIDE DEF r
<1>4. /\ producer' \in [Producers -> ProducerRecord] /\ producer'[p] = r
      /\ \A q \in Producers \ {p} : producer'[q] = producer[q]
  BY <1>2, <1>3 DEF Inv, ProducerInv
<1>5. r.seq \in 1..Cardinality(log) + 1
  BY <1>1, <1>2
<1>6. ProducerInv'
  BY <1>1, <1>2, <1>4, <1>5 DEF Inv, ProducerInv
<1>7. LogInv'
  BY <1>1 DEF Inv, LogInv
<1>8. /\ UNCHANGED <<published, late, streamVars, clientVars>>
      /\ status' \in Statuses /\ faults' \in Nat
  BY DEF getNextSequence, Inv, StreamTyped
<1>9. StreamTyped' /\ PageInv' /\ ConnInv' /\ ReadingInv'
  BY <1>1, <1>8, QuietStep
<1> QED BY <1>6, <1>7, <1>9 DEF Inv

\* The catch block, the retry and the end that a throw leads to take no number.
LEMMA ThrowMoves ==
  ASSUME NEW p \in Producers, At(p, AfterThrow(p))
  PROVE  Moves(p)
<1>1. AfterThrow(p) \in {"done", "catch", "thrown"}
  BY DEF AfterThrow
<1> QED BY <1>1, MoveTo DEF ProducerPc

\* AgentEvent.create: a new event, or a throw.
LEMMA CreateDoes ==
  ASSUME Inv, NEW p \in Producers, Create(p)
  PROVE  \/ UNCHANGED log /\ Moves(p)
         \/ /\ producer[p].type \in EventTypes
            /\ LogInv' /\ Cardinality(log') = Cardinality(log) + 1
            /\ log' = log \cup {[seq |-> Cardinality(log) + 1,
                                 type |-> producer[p].type, by |-> p]}
            /\ producer[p].seq = Cardinality(log) + 1
            /\ producer' = [producer EXCEPT ![p].pc = "publish"]
<1>1. /\ producer[p].type \in EventTypes
      /\ producer[p].seq \in 1..Cardinality(log) + 1
  BY DEF Inv, ProducerInv, ProducerRecord, Create
<1>2. CASE \E e \in log : e.seq = producer[p].seq
  BY <1>2, ThrowMoves DEF Create
<1>3. CASE ~\E e \in log : e.seq = producer[p].seq
  <2>1. /\ log' = log \cup {[seq |-> producer[p].seq, type |-> producer[p].type,
                             by |-> p]}
        /\ producer' = [producer EXCEPT ![p].pc = "publish"]
    BY <1>3 DEF Create
  <2>2. LogInv' /\ producer[p].seq = Cardinality(log) + 1
        /\ Cardinality(log') = Cardinality(log) + 1
    BY <1>1, <1>3, <2>1, LogGrows DEF Inv
  <2>3. log' = log \cup {[seq |-> Cardinality(log) + 1, type |-> producer[p].type,
                          by |-> p]}
    BY <2>1, <2>2, Zenon
  <2> QED BY <1>1, <2>1, <2>2, <2>3
<1> QED BY <1>2, <1>3

LEMMA CreateKeepsInv ==
  ASSUME Inv, NEW p \in Producers, Create(p)
  PROVE  Inv'
<1>1. /\ UNCHANGED <<published, late, streamVars, clientVars>>
      /\ status' \in Statuses /\ faults' \in Nat
  BY DEF Create, Inv, StreamTyped
<1>2. CASE UNCHANGED log /\ Moves(p)
  <2>1. LogInv' /\ ProducerInv'
    BY <1>2, ProducerMoves DEF Inv, LogInv
  <2>2. StreamTyped' /\ PageInv' /\ ConnInv' /\ ReadingInv'
    BY <1>1, <1>2, QuietStep
  <2> QED BY <2>1, <2>2 DEF Inv
<1>3. CASE ~(UNCHANGED log /\ Moves(p))
  <2> DEFINE k == Cardinality(log)
             x == [seq |-> k + 1, type |-> producer[p].type, by |-> p]
             r == [producer[p] EXCEPT !.pc = "publish"]
  <2>1. /\ LogInv' /\ Cardinality(log') = k + 1 /\ log' = log \cup {x}
        /\ producer[p].seq = k + 1
        /\ producer' = [producer EXCEPT ![p].pc = "publish"]
    BY <1>3, CreateDoes
  <2>2. k \in Nat /\ producer[p] \in ProducerRecord
    BY LogSize DEF Inv, ProducerInv
  <2>3. /\ r \in ProducerRecord /\ r.pc = "publish" /\ r.seq = producer[p].seq
        /\ r.type = producer[p].type
    BY <2>2 DEF ProducerRecord, ProducerPc
  <2>4. producer' = [producer EXCEPT ![p] = r]
    BY <2>1 DEF Inv, ProducerInv
  <2>5. [seq |-> r.seq, type |-> r.type, by |-> p] \in log'
    BY <2>1, <2>3
  <2>6. x.seq = k + 1
    OBVIOUS
  <2> HIDE DEF r, x
  <2>7. /\ producer' \in [Producers -> ProducerRecord] /\ producer'[p] = r
        /\ \A q \in Producers \ {p} : producer'[q] = producer[q]
    BY <2>3, <2>4 DEF Inv, ProducerInv
  <2>8. ASSUME NEW q \in Producers
        PROVE  /\ producer'[q].pc = "create" =>
                    producer'[q].seq \in 1..Cardinality(log') + 1
               /\ producer'[q].pc = "publish" =>
                    [seq |-> producer'[q].seq, type |-> producer'[q].type,
                     by |-> q] \in log'
    <3>1. CASE q = p
      BY <2>3, <2>5, <2>7, <3>1
    <3>2. CASE q # p
      BY <2>1, <2>2, <2>7, <3>2 DEF Inv, ProducerInv
    <3> QED BY <3>1, <3>2
  <2>9. ProducerInv'
    BY <2>7, <2>8 DEF ProducerInv
  <2>10. StreamTyped' /\ PageInv' /\ ConnInv' /\ ReadingInv'
    <3>1. /\ log \subseteq log' /\ Cardinality(log') \in {k, k + 1}
          /\ \A e \in log' \ log : e.seq = k + 1
      BY <2>1, <2>6
    <3> QED BY <1>1, <3>1, QuietStep
  <2> QED BY <2>1, <2>9, <2>10 DEF Inv
<1> QED BY <1>2, <1>3

LEMMA PublishFailsKeepsInv ==
  ASSUME Inv, NEW p \in Producers, PublishFails(p)
  PROVE  Inv'
<1>1. /\ UNCHANGED <<log, published, late, streamVars, clientVars>>
      /\ status' \in Statuses /\ faults' \in Nat
  BY DEF PublishFails, Fault, Inv, StreamTyped
<1>2. Moves(p)
  BY ThrowMoves DEF PublishFails
<1>3. LogInv' /\ ProducerInv'
  BY <1>1, <1>2, ProducerMoves DEF Inv, LogInv
<1>4. StreamTyped' /\ PageInv' /\ ConnInv' /\ ReadingInv'
  BY <1>1, QuietStep
<1> QED BY <1>3, <1>4 DEF Inv

\* A number that may be skipped stays one: if it is published after all, then
\* after a later one.
LEMMA SkippableGrows ==
  ASSUME late \subseteq late', lost \subseteq lost', published \subseteq published',
         \A n \in published' \ published :
           (\E m \in published : m > n) => n \in late'
  PROVE  Skippable \subseteq Skippable'
BY DEF Skippable, Overtaken

\* The number of the event an emitter publishes is one of the log.
LEMMA PublishDoes ==
  ASSUME Inv, NEW p \in Producers, Publish(p),
         NEW e, e = [seq |-> producer[p].seq, type |-> producer[p].type, by |-> p]
  PROVE  /\ e \in log /\ e.seq = producer[p].seq /\ e.seq \in 1..Cardinality(log)
         /\ Moves(p) /\ published' = published \cup {e.seq}
         /\ late' = IF \E n \in published : n > e.seq THEN late \cup {e.seq} ELSE late
         /\ conn' = IF Subscribed THEN [conn EXCEPT !.inbox = Append(@, e)] ELSE conn
         /\ UNCHANGED <<status, log, wire, lost, clientVars, faults>>
<1>1. e \in log /\ e.seq = producer[p].seq
  BY DEF Inv, ProducerInv, Publish
<1>2. e.seq \in 1..Cardinality(log)
  BY <1>1 DEF Inv, LogInv
<1>3. Moves(p)
  <2>1. At(p, AfterEmit(producer[p].type))
    BY DEF Publish
  <2>2. AfterEmit(producer[p].type) \in ProducerPc \ {"create", "publish"}
    BY DEF AfterEmit, ProducerPc
  <2> QED BY <2>1, <2>2, MoveTo
<1>4. /\ published' = published \cup {producer[p].seq}
      /\ late' = IF \E n \in published : n > producer[p].seq
                   THEN late \cup {producer[p].seq} ELSE late
      /\ conn' = IF Subscribed THEN [conn EXCEPT !.inbox = Append(@, e)] ELSE conn
      /\ UNCHANGED <<status, log, wire, lost, clientVars, faults>>
  BY DEF Publish
<1> QED BY <1>1, <1>2, <1>3, <1>4, Zenon

LEMMA PublishKeepsInv ==
  ASSUME Inv, NEW p \in Producers, Publish(p)
  PROVE  Inv'
<1> DEFINE e == [seq |-> producer[p].seq, type |-> producer[p].type, by |-> p]
<1>1. /\ e \in log /\ e.seq \in 1..Cardinality(log)
      /\ Moves(p) /\ published' = published \cup {e.seq}
      /\ late' = IF \E n \in published : n > e.seq THEN late \cup {e.seq} ELSE late
      /\ conn' = IF Subscribed THEN [conn EXCEPT !.inbox = Append(@, e)] ELSE conn
      /\ UNCHANGED <<status, log, wire, lost, clientVars, faults>>
  BY PublishDoes
<1> HIDE DEF e
<1>2. LogInv' /\ ProducerInv'
  BY <1>1, ProducerMoves DEF Inv, LogInv
<1>3. /\ conn'.pc = conn.pc /\ conn'.last = conn.last
      /\ conn'.backlog = conn.backlog /\ conn'.buffer = conn.buffer
      /\ conn' \in ConnRecord' /\ ConnRecord' = ConnRecord
      /\ Subscribed => conn'.inbox = Append(conn.inbox, e)
  <2>1. conn \in ConnRecord /\ UNCHANGED log /\ e \in log
    BY <1>1 DEF Inv, StreamTyped
  <2>2. Append(conn.inbox, e) \in Seq(log)
    BY <2>1 DEF ConnRecord
  <2>3. ConnRecord' = ConnRecord
    BY <2>1 DEF ConnRecord
  <2>4. CASE Subscribed
    <3>1. conn' = [conn EXCEPT !.inbox = Append(conn.inbox, e)]
      BY <1>1, <2>4
    <3> QED BY <2>1, <2>2, <2>3, <3>1 DEF ConnRecord
  <2>5. CASE ~Subscribed
    BY <1>1, <2>1, <2>3, <2>5
  <2> QED BY <2>4, <2>5
<1>4. Skippable \subseteq Skippable'
  <2>1. late \subseteq late' /\ lost \subseteq lost' /\ published \subseteq published'
    BY <1>1
  <2>2. \A n \in published' \ published : (\E m \in published : m > n) => n \in late'
    BY <1>1
  <2> QED BY <2>1, <2>2, SkippableGrows
<1>5. StreamTyped'
  <2>1. /\ status' \in Statuses /\ faults' \in Nat
        /\ published' \in SUBSET (1..Cardinality(log'))
        /\ late' \in SUBSET published' /\ lost' \in SUBSET Nat
        /\ wire' \in Seq(log') /\ shown' \in SUBSET (1..client'.last)
    BY <1>1 DEF Inv, StreamTyped, clientVars
  <2>2. client' \in ClientRecord'
    BY <1>1 DEF Inv, StreamTyped, clientVars, ClientRecord
  <2> QED BY <1>3, <2>1, <2>2 DEF StreamTyped
<1>6. PageInv'
  <2>1. Passed \subseteq Passed'
    BY <1>1, <1>4 DEF Passed, clientVars
  <2>2. /\ 1..client'.last \subseteq Passed' /\ Covered(wire', Passed')
        /\ conn'.pc # "closed" => 1..conn'.last \subseteq Passed' \cup NumbersIn(wire')
    BY <1>1, <1>3, <2>1, CoveredMore DEF Inv, PageInv, clientVars
  <2> QED BY <2>2 DEF PageInv
<1>7. ASSUME conn.pc \in {"merging", "live"}
      PROVE  /\ published' \subseteq Ahead \cup NumbersIn(conn'.inbox) \cup lost
             /\ Covered(conn'.inbox, Skippable' \cup Ahead)
             /\ \A d \in conn.backlog \cup conn.buffer :
                  1..(d.seq - 1) \subseteq Skippable' \cup Ahead
  <2>1. conn'.inbox = Append(conn.inbox, e) /\ conn.inbox \in Seq(log)
    BY <1>3, <1>7 DEF Subscribed, Inv, StreamTyped, ConnRecord
  <2>2. /\ published \subseteq Ahead \cup NumbersIn(conn.inbox) \cup lost
        /\ Covered(conn.inbox, Skippable \cup Ahead)
        /\ \A d \in conn.backlog \cup conn.buffer :
             1..(d.seq - 1) \subseteq Skippable \cup Ahead
    BY <1>7 DEF Inv, ConnInv
  <2>3. \A d \in log : d.seq \in Nat
    BY LogSize DEF Inv
  <2>4. Covered(conn.inbox, Skippable' \cup Ahead)
    BY <1>4, <2>2, CoveredMore
  <2>5. lost \subseteq Skippable'
    BY <1>1 DEF Skippable
  <2>6. 1..(e.seq - 1) \subseteq (Skippable' \cup Ahead) \cup NumbersIn(conn.inbox)
    <3> SUFFICES ASSUME NEW n \in 1..(e.seq - 1)
                 PROVE  n \in (Skippable' \cup Ahead) \cup NumbersIn(conn.inbox)
      OBVIOUS
    <3>1. n \in Nat /\ e.seq > n /\ n # e.seq
      BY <1>1
    <3>2. CASE n \in published
      BY <2>2, <2>5, <3>2
    <3>3. CASE n \notin published
      <4>1. n \in Overtaken'
        BY <1>1, <3>1, <3>3 DEF Overtaken
      <4> QED BY <4>1 DEF Skippable
    <3> QED BY <3>2, <3>3
  <2>7. /\ Covered(Append(conn.inbox, e), Skippable' \cup Ahead)
        /\ NumbersIn(Append(conn.inbox, e)) = NumbersIn(conn.inbox) \cup {e.seq}
    <3> HIDE DEF Inv
    <3> QED BY <1>1, <2>1, <2>3, <2>4, <2>6, CoveredAppend
  <2> QED BY <1>1, <1>4, <2>1, <2>2, <2>7
<1>8. ConnInv'
  <2>1. Ahead' = Ahead
    BY <1>3 DEF Ahead
  <2>2. conn.pc = "live" => conn.backlog = {} /\ conn.buffer = {}
    BY DEF Inv, ConnInv
  <2>3. lost' = lost
    BY <1>1
  <2> QED BY <1>3, <1>7, <2>1, <2>2, <2>3 DEF ConnInv
<1>9. ReadingInv'
  BY <1>1 DEF Inv, ReadingInv, clientVars
<1> QED BY <1>2, <1>5, <1>6, <1>8, <1>9 DEF Inv

-----------------------------------------------------------------------------
(* The stream *)

\* What a step of the stream has to show: the emitters and the page stand still.
LEMMA ServeFrame ==
  ASSUME Inv, UNCHANGED <<emitVars, clientVars>>, faults' \in Nat,
         lost \subseteq lost', lost' \subseteq Nat
  PROVE  /\ LogInv' /\ ProducerInv' /\ ReadingInv'
         /\ Skippable \subseteq Skippable' /\ Passed \subseteq Passed'
         /\ 1..client'.last \subseteq Passed'
         /\ conn' \in ConnRecord /\ wire' \in Seq(log) => StreamTyped'
<1>1. LogInv' /\ ProducerInv' /\ ReadingInv'
  BY DEF Inv, LogInv, ProducerInv, ReadingInv, emitVars, clientVars
<1>2. Skippable \subseteq Skippable' /\ Passed \subseteq Passed'
  BY DEF Skippable, Passed, Overtaken, emitVars, clientVars
<1>3. 1..client'.last \subseteq Passed'
  BY <1>2 DEF Inv, PageInv, clientVars
<1>4. ASSUME conn' \in ConnRecord, wire' \in Seq(log) PROVE StreamTyped'
  <2>1. log' = log
    BY DEF emitVars
  <2>2. ConnRecord' = ConnRecord /\ ClientRecord' = ClientRecord
    BY <2>1 DEF ConnRecord, ClientRecord
  <2> QED BY <1>4, <2>1, <2>2 DEF Inv, StreamTyped, emitVars, clientVars
<1> QED BY <1>1, <1>2, <1>3, <1>4

LEMMA ClosedConn ==
  /\ Closed \in ConnRecord /\ Closed.pc = "closed"
  /\ \A n \in Nat :
       /\ [Closed EXCEPT !.pc = "subscribing", !.last = n] \in ConnRecord
       /\ [Closed EXCEPT !.pc = "subscribing", !.last = n].pc = "subscribing"
       /\ [Closed EXCEPT !.pc = "subscribing", !.last = n].last = n
<1>1. Closed \in ConnRecord /\ Closed.pc = "closed"
  BY DEF Closed, ConnRecord, ConnPc
<1>2. ASSUME NEW n \in Nat, NEW c \in ConnRecord
      PROVE  /\ [c EXCEPT !.pc = "subscribing", !.last = n] \in ConnRecord
             /\ [c EXCEPT !.pc = "subscribing", !.last = n].pc = "subscribing"
             /\ [c EXCEPT !.pc = "subscribing", !.last = n].last = n
  BY DEF ConnRecord, ConnPc
<1> QED BY <1>1, <1>2

LEMMA SubscribeKeepsInv ==
  ASSUME Inv, Subscribe
  PROVE  Inv'
<1>1. /\ UNCHANGED <<emitVars, clientVars, wire, lost>> /\ faults' \in Nat
      /\ conn \in ConnRecord /\ conn.pc = "subscribing"
      /\ conn' = [conn EXCEPT !.pc = "loading"]
  BY DEF Subscribe, Inv, StreamTyped
<1>2. conn' \in ConnRecord /\ conn'.pc = "loading" /\ conn'.last = conn.last
  BY <1>1 DEF ConnRecord, ConnPc
<1>3. wire' \in Seq(log) /\ wire' = wire /\ lost \subseteq lost' /\ lost' \subseteq Nat
  BY <1>1 DEF Inv, StreamTyped
<1>4. /\ LogInv' /\ ProducerInv' /\ ReadingInv' /\ StreamTyped'
      /\ Passed \subseteq Passed' /\ 1..client'.last \subseteq Passed'
  BY <1>1, <1>2, <1>3, ServeFrame
<1>5. PageInv'
  BY <1>1, <1>2, <1>3, <1>4, CoveredMore DEF Inv, PageInv
<1>6. ConnInv'
  BY <1>2 DEF ConnInv
<1> QED BY <1>4, <1>5, <1>6 DEF Inv

\* Every number of the log is written already or in the backlog the query
\* returns.
LEMMA LoadEventsKeepsInv ==
  ASSUME Inv, LoadEvents
  PROVE  Inv'
<1> DEFINE B == {e \in log : e.seq > conn.last}
<1>1. /\ UNCHANGED <<emitVars, clientVars, wire, lost>> /\ faults' \in Nat
      /\ conn \in ConnRecord /\ conn.pc = "loading"
      /\ conn' = [conn EXCEPT !.pc = "merging", !.backlog = B]
  BY DEF LoadEvents, Inv, StreamTyped
<1>2. B \in SUBSET log
  OBVIOUS
<1>3. /\ conn' \in ConnRecord /\ conn'.pc = "merging" /\ conn'.last = conn.last
      /\ conn'.backlog = B /\ conn'.buffer = conn.buffer
      /\ conn'.inbox = conn.inbox
  <2> HIDE DEF B
  <2> QED BY <1>1, <1>2 DEF ConnRecord, ConnPc
<1>4. wire' \in Seq(log) /\ wire' = wire /\ lost \subseteq lost' /\ lost' \subseteq Nat
  BY <1>1 DEF Inv, StreamTyped
<1>5. /\ LogInv' /\ ProducerInv' /\ ReadingInv' /\ StreamTyped'
      /\ Passed \subseteq Passed' /\ 1..client'.last \subseteq Passed'
  BY <1>1, <1>3, <1>4, ServeFrame
<1>6. PageInv'
  BY <1>1, <1>3, <1>4, <1>5, CoveredMore DEF Inv, PageInv
<1>7. 1..Cardinality(log) \subseteq Ahead'
  <2> SUFFICES ASSUME NEW n \in 1..Cardinality(log) PROVE n \in Ahead'
    OBVIOUS
  <2>1. n \in Nat /\ n >= 1 /\ conn.last \in Nat
    BY <1>1, LogSize DEF Inv, ConnRecord
  <2>2. PICK e \in log : e.seq = n
    BY DEF Inv, LogInv
  <2>3. CASE n <= conn.last
    BY <1>3, <2>1, <2>3 DEF Ahead
  <2>4. CASE ~(n <= conn.last)
    <3>1. e \in B
      BY <2>1, <2>2, <2>4
    <3> HIDE DEF B
    <3> QED BY <1>3, <2>2, <3>1 DEF Ahead, Numbers
  <2> QED BY <2>3, <2>4
<1>8. \A e \in log : 1..(e.seq - 1) \subseteq 1..Cardinality(log)
  BY LogSize DEF Inv, LogInv
<1>9. ConnInv'
  <2>1. published' \subseteq Ahead'
    BY <1>1, <1>7 DEF Inv, StreamTyped, emitVars
  <2>2. conn.inbox \in Seq(log) /\ conn.buffer \in SUBSET log
    BY <1>1 DEF ConnRecord
  <2>3. Covered(conn.inbox, Ahead')
    <3>1. \A i \in 1..Len(conn.inbox) : conn.inbox[i] \in log
      BY <2>2
    <3> HIDE DEF B
    <3> QED BY <1>7, <1>8, <3>1 DEF Covered
  <2>4. Covered(conn'.inbox, (Skippable' \cup Ahead'))
    BY <1>3, <2>3, CoveredMore
  <2>5. \A e \in conn'.backlog \cup conn'.buffer :
          1..(e.seq - 1) \subseteq Skippable' \cup Ahead'
    BY <1>2, <1>3, <1>7, <1>8, <2>2
  <2> HIDE DEF B
  <2> QED BY <1>3, <2>1, <2>4, <2>5 DEF ConnInv
<1> QED BY <1>5, <1>6, <1>9 DEF Inv

\* Head of the inbox: once the stream is live it is written unless it has been;
\* before, it is held.
LEMMA MessageKeepsInv ==
  ASSUME Inv, Message
  PROVE  Inv'
<1> DEFINE e == Head(conn.inbox)
           written == conn.pc = "live" /\ e.seq > conn.last
           last == IF written THEN e.seq ELSE conn.last
           buffer == IF conn.pc = "live" THEN conn.buffer ELSE conn.buffer \cup {e}
<1>1. /\ UNCHANGED <<emitVars, clientVars, lost>> /\ faults' \in Nat
      /\ conn \in ConnRecord /\ conn.inbox # <<>> /\ wire \in Seq(log)
      /\ wire' = IF written THEN Append(wire, e) ELSE wire
      /\ conn' = [conn EXCEPT !.inbox = Tail(conn.inbox), !.last = last,
                              !.buffer = buffer]
  BY DEF Message, Inv, StreamTyped
<1>2. /\ conn.inbox \in Seq(log) /\ conn.pc \in ConnPc /\ conn.last \in Nat
      /\ conn.backlog \in SUBSET log /\ conn.buffer \in SUBSET log
  BY <1>1 DEF ConnRecord
<1>3. e \in log /\ Tail(conn.inbox) \in Seq(log)
  BY <1>1, <1>2
<1>4. \A d \in log : d.seq \in Nat \ {0}
  BY LogSize DEF Inv
<1> HIDE DEF e
<1>5. last \in Nat /\ buffer \in SUBSET log
  BY <1>2, <1>3, <1>4
<1>6. /\ conn' \in ConnRecord /\ conn'.pc = conn.pc /\ conn'.last = last
      /\ conn'.backlog = conn.backlog /\ conn'.buffer = buffer
      /\ conn'.inbox = Tail(conn.inbox)
  <2> HIDE DEF last, buffer, written
  <2> QED BY <1>1, <1>3, <1>5 DEF ConnRecord
<1>7. wire' \in Seq(log) /\ lost \subseteq lost' /\ lost' \subseteq Nat
  BY <1>1, <1>3 DEF Inv, StreamTyped
<1>8. /\ LogInv' /\ ProducerInv' /\ ReadingInv' /\ StreamTyped'
      /\ Skippable \subseteq Skippable'
      /\ Passed \subseteq Passed' /\ 1..client'.last \subseteq Passed'
  BY <1>1, <1>6, <1>7, ServeFrame
<1>9. ASSUME conn.pc \in {"merging", "live"}
      PROVE  /\ published \subseteq Ahead \cup NumbersIn(conn.inbox) \cup lost
             /\ Covered(conn.inbox, Skippable \cup Ahead)
             /\ \A d \in conn.backlog \cup conn.buffer :
                  1..(d.seq - 1) \subseteq Skippable \cup Ahead
             /\ 1..(e.seq - 1) \subseteq Skippable \cup Ahead
  <2>1. /\ published \subseteq Ahead \cup NumbersIn(conn.inbox) \cup lost
        /\ Covered(conn.inbox, Skippable \cup Ahead)
        /\ \A d \in conn.backlog \cup conn.buffer :
             1..(d.seq - 1) \subseteq Skippable \cup Ahead
    BY <1>9 DEF Inv, ConnInv
  <2>2. 1..(Head(conn.inbox).seq - 1) \subseteq Skippable \cup Ahead
    <3>1. conn.inbox[1] = Head(conn.inbox) /\ 1 \in 1..Len(conn.inbox)
      BY <1>1, <1>2
    <3> QED BY <2>1, <3>1 DEF Covered
  <2> QED BY <2>1, <2>2 DEF e
<1>10. conn.pc = "live" => conn.backlog = {} /\ conn.buffer = {}
  BY DEF Inv, ConnInv
<1>11. PageInv'
  <2>1. /\ Covered(wire, Passed')
        /\ conn.pc # "closed" => 1..conn.last \subseteq Passed' \cup NumbersIn(wire)
    BY <1>8, CoveredMore DEF Inv, PageInv
  <2>2. CASE ~written
    BY <1>1, <1>6, <1>8, <2>1, <2>2 DEF PageInv
  <2>3. CASE written
    <3>1. 1..(e.seq - 1) \subseteq Passed' \cup NumbersIn(wire)
      <4>1. Ahead = 1..conn.last
        BY <1>10, <2>3 DEF Ahead, Numbers
      <4>2. Skippable \subseteq Passed'
        BY <1>8 DEF Passed
      <4>3. conn.pc = "live"
        BY <2>3
      <4> QED BY <1>9, <2>1, <4>1, <4>2, <4>3
    <3>2. /\ Covered(Append(wire, e), Passed')
          /\ NumbersIn(Append(wire, e)) = NumbersIn(wire) \cup {e.seq}
      BY <1>1, <1>3, <1>4, <2>1, <3>1, CoveredAppend
    <3>3. wire' = Append(wire, e) /\ conn'.last = e.seq
      BY <1>1, <1>6, <2>3
    <3>4. 1..e.seq \subseteq 1..(e.seq - 1) \cup {e.seq}
      BY <1>3, <1>4
    <3> QED BY <1>8, <3>1, <3>2, <3>3, <3>4 DEF PageInv
  <2> QED BY <2>2, <2>3
<1>12. ConnInv'
  <2> SUFFICES ASSUME conn.pc \in {"merging", "live"} PROVE ConnInv'
    BY <1>6 DEF ConnInv
  <2>1. Ahead \subseteq Ahead' /\ e.seq \in Ahead'
    <3>1. conn.last <= last
      BY <1>2, <1>3, <1>4
    <3>2. 1..conn.last \subseteq 1..last
      BY <1>2, <1>5, <3>1
    <3>3. conn.buffer \subseteq buffer
      OBVIOUS
    <3>4. Ahead \subseteq Ahead'
      BY <1>6, <3>2, <3>3 DEF Ahead, Numbers
    <3>5. CASE conn.pc = "live"
      <4>1. e.seq \in 1..last
        BY <1>2, <1>3, <1>4, <3>5
      <4> QED BY <1>6, <3>4, <4>1 DEF Ahead
    <3>6. CASE conn.pc # "live"
      BY <1>6, <3>4, <3>6 DEF Ahead, Numbers
    <3> QED BY <3>4, <3>5, <3>6
  <2> HIDE DEF last, written
  <2>2. /\ Covered(Tail(conn.inbox), Skippable' \cup Ahead')
        /\ NumbersIn(conn.inbox) \subseteq {e.seq} \cup NumbersIn(Tail(conn.inbox))
    <3>1. Skippable \cup Ahead \subseteq Skippable' \cup Ahead'
      BY <1>8, <2>1
    <3>2. Head(conn.inbox).seq \in Skippable' \cup Ahead'
      BY <2>1 DEF e
    <3>3. Covered(conn.inbox, Skippable \cup Ahead)
      BY <1>9
    <3>4. \A d \in log : d.seq \in Nat
      BY <1>4
    <3> QED BY <1>1, <1>2, <3>1, <3>2, <3>3, <3>4, CoveredTail DEF e
  <2>3. published' \subseteq Ahead' \cup NumbersIn(conn'.inbox) \cup lost'
    BY <1>1, <1>6, <1>9, <2>1, <2>2 DEF emitVars
  <2>4. \A d \in conn'.backlog \cup conn'.buffer :
          1..(d.seq - 1) \subseteq Skippable' \cup Ahead'
    BY <1>6, <1>8, <1>9, <2>1
  <2>5. conn'.pc = "live" => conn'.backlog = {} /\ conn'.buffer = {}
    BY <1>6, <1>10
  <2> HIDE DEF buffer
  <2> QED BY <1>6, <2>2, <2>3, <2>4, <2>5 DEF ConnInv
<1> QED BY <1>8, <1>11, <1>12 DEF Inv

\* The last of the sorted events has the largest number.
LEMMA LastInOrder ==
  ASSUME NEW S, Numbered(S)
  PROVE  LET s == InOrder(S) IN
         IF s = <<>> THEN S = {}
         ELSE s[Len(s)] \in S /\ \A e \in S : e.seq <= s[Len(s)].seq
<1> DEFINE s == InOrder(S)
<1>1. /\ s \in Seq(S)
      /\ \A e \in S : \E i \in 1..Len(s) : s[i] = e
      /\ \A i, j \in 1..Len(s) : i < j => s[i].seq < s[j].seq
  BY InOrderIs
<1>2. \A e \in S : e.seq \in Nat
  BY DEF Numbered
<1> HIDE DEF s
<1>3. s = <<>> => S = {}
  BY <1>1
<1>4. ASSUME s # <<>>
      PROVE  s[Len(s)] \in S /\ \A e \in S : e.seq <= s[Len(s)].seq
  <2>1. Len(s) \in Nat \ {0} /\ Len(s) \in 1..Len(s) /\ s[Len(s)] \in S
    BY <1>1, <1>4
  <2>2. ASSUME NEW e \in S PROVE e.seq <= s[Len(s)].seq
    <3>1. PICK i \in 1..Len(s) : s[i] = e
      BY <1>1
    <3>2. CASE i = Len(s)
      BY <1>2, <3>1, <3>2
    <3>3. CASE i # Len(s)
      <4>1. i < Len(s)
        BY <2>1, <3>3
      <4>2. s[i].seq < s[Len(s)].seq
        BY <1>1, <2>1, <4>1
      <4> QED BY <1>2, <2>1, <3>1, <4>2
    <3> QED BY <3>2, <3>3
  <2> QED BY <2>1, <2>2
<1> QED BY <1>3, <1>4 DEF s

\* What was loaded and what was held meanwhile are written in order: nothing
\* that the page may not skip falls between them.
LEMMA MergeKeepsInv ==
  ASSUME Inv, Merge
  PROVE  Inv'
<1> DEFINE held == conn.backlog \cup conn.buffer
           S == {e \in held : e.seq > conn.last}
           due == InOrder(S)
           last == IF due = <<>> THEN conn.last ELSE due[Len(due)].seq
           A == Passed \cup NumbersIn(wire)
<1>1. /\ UNCHANGED <<emitVars, clientVars, lost>> /\ faults' \in Nat
      /\ conn \in ConnRecord /\ conn.pc = "merging" /\ wire \in Seq(log)
      /\ wire' = wire \o due
      /\ conn' = [conn EXCEPT !.pc = "live", !.backlog = {}, !.buffer = {},
                              !.last = last]
  BY DEF Merge, Write, Inv, StreamTyped
<1>2. /\ conn.inbox \in Seq(log) /\ conn.last \in Nat /\ held \in SUBSET log
  BY <1>1 DEF ConnRecord
<1>3. \A d \in log : d.seq \in Nat
  BY LogSize DEF Inv
<1>4. S \in SUBSET log /\ Numbered(S)
  <2>1. S \in SUBSET log /\ IsFiniteSet(log)
    BY <1>2 DEF Inv, LogInv
  <2>2. IsFiniteSet(S)
    BY <2>1, FS_Subset
  <2> QED BY <1>3, <2>1, <2>2 DEF Numbered, Inv, LogInv
<1>5. /\ published \subseteq Ahead \cup NumbersIn(conn.inbox) \cup lost
      /\ Covered(conn.inbox, Skippable \cup Ahead)
      /\ \A e \in held : 1..(e.seq - 1) \subseteq Skippable \cup Ahead
  BY <1>1 DEF Inv, ConnInv
<1>6. Covered(wire, Passed) /\ 1..conn.last \subseteq A
  BY <1>1 DEF Inv, PageInv
<1>7. Numbers(held) \subseteq (1..conn.last) \cup Numbers(S)
  <2> SUFFICES ASSUME NEW d \in held PROVE d.seq \in (1..conn.last) \cup Numbers(S)
    BY DEF Numbers
  <2>1. d.seq \in Nat \ {0}
    BY <1>2, LogSize DEF Inv
  <2> QED BY <1>2, <2>1 DEF Numbers
<1>8. Skippable \cup Ahead \subseteq A \cup Numbers(S)
  BY <1>6, <1>7 DEF Ahead, Passed
<1>9. \A e \in S : 1..(e.seq - 1) \subseteq A \cup Numbers(S)
  BY <1>5, <1>8
<1> HIDE DEF A
<1>10. Covered(due, A) /\ NumbersIn(due) = Numbers(S) /\ due \in Seq(S)
  <2> HIDE DEF S
  <2> QED BY <1>4, <1>9, CoveredInOrder
<1>11. IF due = <<>> THEN S = {}
       ELSE due[Len(due)] \in S /\ \A e \in S : e.seq <= due[Len(due)].seq
  BY <1>4, LastInOrder, Zenon
<1> HIDE DEF due
<1>12. /\ last \in Nat /\ conn.last <= last
       /\ \A e \in S : e.seq <= last
       /\ last = conn.last \/ \E e \in S : e.seq = last
  <2>1. CASE due = <<>>
    BY <1>2, <1>11, <2>1
  <2>2. CASE due # <<>>
    <3>1. due[Len(due)] \in S /\ \A e \in S : e.seq <= due[Len(due)].seq
      BY <1>11, <2>2
    <3>2. last = due[Len(due)].seq /\ last \in Nat /\ conn.last < last
      BY <1>2, <1>3, <1>4, <2>2, <3>1
    <3> HIDE DEF last
    <3> QED BY <1>2, <3>1, <3>2
  <2> QED BY <2>1, <2>2
<1> HIDE DEF last, S
<1>13. /\ conn' \in ConnRecord /\ conn'.pc = "live" /\ conn'.last = last
       /\ conn'.backlog = {} /\ conn'.buffer = {}
       /\ conn'.inbox = conn.inbox
  BY <1>1, <1>12 DEF ConnRecord, ConnPc
<1>14. due \in Seq(log)
  BY <1>4, <1>10, SeqMore
<1>15. /\ wire' \in Seq(log) /\ Covered(wire', Passed)
       /\ NumbersIn(wire') = NumbersIn(wire) \cup Numbers(S)
  BY <1>1, <1>3, <1>6, <1>10, <1>14, CoveredConcat DEF A
<1>16. /\ LogInv' /\ ProducerInv' /\ ReadingInv' /\ StreamTyped'
       /\ Skippable \subseteq Skippable'
       /\ Passed \subseteq Passed' /\ 1..client'.last \subseteq Passed'
  <2>1. lost \subseteq lost' /\ lost' \subseteq Nat
    BY <1>1 DEF Inv, StreamTyped
  <2> QED BY <1>1, <1>13, <1>15, <2>1, ServeFrame
<1>17. PageInv'
  <2>1. 1..last \subseteq A \cup Numbers(S)
    <3>1. CASE last = conn.last
      BY <1>6, <3>1
    <3>2. ASSUME NEW e \in S, e.seq = last PROVE 1..last \subseteq A \cup Numbers(S)
      <4>1. 1..last \subseteq 1..(e.seq - 1) \cup {e.seq}
        BY <1>12, <3>2
      <4>2. e.seq \in Numbers(S)
        BY DEF Numbers
      <4> QED BY <1>9, <4>1, <4>2
    <3> QED BY <1>12, <3>1, <3>2
  <2>2. 1..conn'.last \subseteq Passed' \cup NumbersIn(wire')
    BY <1>13, <1>15, <1>16, <2>1 DEF A
  <2> QED BY <1>15, <1>16, <2>2, CoveredMore DEF PageInv
<1>18. ConnInv'
  <2>1. Ahead \subseteq Ahead'
    <3>1. 1..conn.last \subseteq 1..last
      BY <1>2, <1>12
    <3>2. Numbers(S) \subseteq 1..last
      <4>1. \A e \in S : e.seq \in Nat \ {0} /\ e.seq <= last
        BY <1>4, <1>12, LogSize DEF Inv
      <4> QED BY <1>12, <4>1 DEF Numbers
    <3> QED BY <1>7, <1>13, <3>1, <3>2 DEF Ahead
  <2>2. /\ published' \subseteq Ahead' \cup NumbersIn(conn'.inbox) \cup lost'
        /\ Covered(conn'.inbox, (Skippable' \cup Ahead'))
    <3>1. Skippable \cup Ahead \subseteq Skippable' \cup Ahead'
      BY <1>16, <2>1
    <3>2. Covered(conn.inbox, Skippable' \cup Ahead')
      BY <1>5, <3>1, CoveredMore
    <3> QED BY <1>1, <1>5, <1>13, <2>1, <3>2 DEF emitVars
  <2> QED BY <1>13, <2>2 DEF ConnInv
<1> QED BY <1>16, <1>17, <1>18 DEF Inv

\* A dropped message is one the page may skip.
LEMMA MessageLostKeepsInv ==
  ASSUME Inv, MessageLost
  PROVE  Inv'
<1> DEFINE e == Head(conn.inbox)
<1>1. /\ UNCHANGED <<emitVars, clientVars, wire>> /\ faults' \in Nat
      /\ conn \in ConnRecord /\ conn.inbox # <<>> /\ wire \in Seq(log)
      /\ lost' = lost \cup {e.seq} /\ lost \subseteq Nat
      /\ conn' = [conn EXCEPT !.inbox = Tail(conn.inbox)]
  BY DEF MessageLost, Fault, Inv, StreamTyped
<1>2. conn.inbox \in Seq(log)
  BY <1>1 DEF ConnRecord
<1>3. e \in log /\ Tail(conn.inbox) \in Seq(log)
  BY <1>1, <1>2
<1>4. \A d \in log : d.seq \in Nat
  BY LogSize DEF Inv
<1>5. lost \subseteq lost' /\ lost' \subseteq Nat
  BY <1>1, <1>3, <1>4
<1>6. /\ conn' \in ConnRecord /\ conn'.pc = conn.pc /\ conn'.last = conn.last
      /\ conn'.backlog = conn.backlog /\ conn'.buffer = conn.buffer
      /\ conn'.inbox = Tail(conn.inbox)
  BY <1>1, <1>3 DEF ConnRecord
<1>7. /\ LogInv' /\ ProducerInv' /\ ReadingInv' /\ StreamTyped'
      /\ Skippable \subseteq Skippable'
      /\ Passed \subseteq Passed' /\ 1..client'.last \subseteq Passed'
  BY <1>1, <1>5, <1>6, ServeFrame
<1>8. PageInv'
  BY <1>1, <1>6, <1>7, CoveredMore DEF Inv, PageInv
<1>9. ConnInv'
  <2> SUFFICES ASSUME conn.pc \in {"merging", "live"} PROVE ConnInv'
    BY <1>6 DEF ConnInv
  <2>1. /\ published \subseteq Ahead \cup NumbersIn(conn.inbox) \cup lost
        /\ Covered(conn.inbox, Skippable \cup Ahead)
        /\ \A d \in conn.backlog \cup conn.buffer :
             1..(d.seq - 1) \subseteq Skippable \cup Ahead
        /\ conn.pc = "live" => conn.backlog = {} /\ conn.buffer = {}
    BY DEF Inv, ConnInv
  <2>2. Ahead' = Ahead /\ e.seq \in lost' /\ e.seq \in Skippable'
    BY <1>1, <1>6 DEF Ahead, Skippable
  <2>3. /\ Covered(Tail(conn.inbox), Skippable' \cup Ahead)
        /\ NumbersIn(conn.inbox) \subseteq {e.seq} \cup NumbersIn(Tail(conn.inbox))
    <3> DEFINE B == Skippable' \cup Ahead
    <3>1. Skippable \cup Ahead \subseteq B
      BY <1>7
    <3>2. Head(conn.inbox).seq \in B
      BY <2>2
    <3>3. Covered(conn.inbox, Skippable \cup Ahead) /\ conn.inbox # <<>>
      BY <1>1, <2>1
    <3> HIDE DEF B
    <3>4. /\ Covered(Tail(conn.inbox), B)
          /\ NumbersIn(conn.inbox) \subseteq {e.seq} \cup NumbersIn(Tail(conn.inbox))
      BY <1>2, <1>4, <3>1, <3>2, <3>3, CoveredTail
    <3> QED BY <3>4 DEF B
  <2> HIDE DEF e
  <2> QED BY <1>1, <1>5, <1>6, <1>7, <2>1, <2>2, <2>3 DEF ConnInv, emitVars
<1> QED BY <1>7, <1>8, <1>9 DEF Inv

LEMMA StreamFailsKeepsInv ==
  ASSUME Inv, StreamFails
  PROVE  Inv'
<1>1. /\ UNCHANGED <<emitVars, clientVars, wire, lost>> /\ faults' \in Nat
      /\ conn' = Closed /\ wire' \in Seq(log) /\ lost \subseteq lost' /\ lost' \subseteq Nat
  BY DEF StreamFails, Fault, Inv, StreamTyped
<1>2. conn' \in ConnRecord /\ conn'.pc = "closed"
  BY <1>1, ClosedConn
<1>3. /\ LogInv' /\ ProducerInv' /\ ReadingInv' /\ StreamTyped'
      /\ Passed \subseteq Passed' /\ 1..client'.last \subseteq Passed'
  BY <1>1, <1>2, ServeFrame
<1>4. PageInv'
  BY <1>1, <1>2, <1>3, CoveredMore DEF Inv, PageInv
<1>5. ConnInv'
  BY <1>2 DEF ConnInv
<1> QED BY <1>3, <1>4, <1>5 DEF Inv

-----------------------------------------------------------------------------
(* The page *)

Reading == {"connect", "reading", "backoff"}

\* What a step that shows nothing has to show: the emitters stand still, and a
\* page that was done reading does not start again.
LEMMA PageFrame ==
  ASSUME Inv, UNCHANGED <<emitVars, lost, shown>>, faults' \in Nat,
         client' \in ClientRecord, client'.last = client.last,
         client'.pc \in Reading => client.pc \in Reading
  PROVE  /\ LogInv' /\ ProducerInv' /\ ReadingInv'
         /\ Skippable' = Skippable /\ Passed' = Passed
         /\ 1..client'.last \subseteq Passed'
         /\ conn' \in ConnRecord /\ wire' \in Seq(log) => StreamTyped'
<1>1. LogInv' /\ ProducerInv'
  BY DEF Inv, LogInv, ProducerInv, emitVars
<1>2. ReadingInv'
  BY DEF Inv, ReadingInv, Reading, emitVars
<1>3. Skippable' = Skippable /\ Passed' = Passed
  BY DEF Skippable, Passed, Overtaken, emitVars
<1>4. 1..client'.last \subseteq Passed'
  BY <1>3 DEF Inv, PageInv
<1>5. ASSUME conn' \in ConnRecord, wire' \in Seq(log) PROVE StreamTyped'
  <2>1. log' = log
    BY DEF emitVars
  <2>2. ConnRecord' = ConnRecord /\ ClientRecord' = ClientRecord
    BY <2>1 DEF ConnRecord, ClientRecord
  <2> QED BY <1>5, <2>1, <2>2 DEF Inv, StreamTyped, emitVars
<1> QED BY <1>1, <1>2, <1>3, <1>4, <1>5

\* The connection stays as it is.
LEMMA StaysKeepsInv ==
  ASSUME Inv, UNCHANGED <<emitVars, lost, shown, conn, wire>>, faults' \in Nat,
         client' \in ClientRecord, client'.last = client.last,
         client'.pc \in Reading => client.pc \in Reading
  PROVE  Inv'
<1>1. conn' \in ConnRecord /\ wire' \in Seq(log)
  BY DEF Inv, StreamTyped
<1>2. /\ LogInv' /\ ProducerInv' /\ ReadingInv' /\ StreamTyped'
      /\ Skippable' = Skippable /\ Passed' = Passed
      /\ 1..client'.last \subseteq Passed'
  BY <1>1, PageFrame
<1>3. PageInv'
  BY <1>2 DEF Inv, PageInv
<1>4. ConnInv'
  BY <1>2 DEF Inv, ConnInv, Ahead, emitVars
<1> QED BY <1>2, <1>3, <1>4 DEF Inv

\* The connection is closed, and what was on the wire is gone.
LEMMA ClosesKeepsInv ==
  ASSUME Inv, UNCHANGED <<emitVars, lost, shown>>, faults' \in Nat,
         conn' = Closed, wire' = <<>>,
         client' \in ClientRecord, client'.last = client.last,
         client'.pc \in Reading => client.pc \in Reading
  PROVE  Inv'
<1>1. conn' \in ConnRecord /\ wire' \in Seq(log) /\ conn'.pc = "closed"
  <2>1. Closed \in ConnRecord /\ Closed.pc = "closed"
    BY ClosedConn
  <2> QED BY <2>1
<1>2. /\ LogInv' /\ ProducerInv' /\ ReadingInv' /\ StreamTyped'
      /\ 1..client'.last \subseteq Passed'
  BY <1>1, PageFrame
<1>3. PageInv' /\ ConnInv'
  BY <1>1, <1>2 DEF PageInv, ConnInv, Covered
<1> QED BY <1>2, <1>3 DEF Inv

LEMMA ClientGoes ==
  ASSUME NEW c \in ClientRecord, NEW pc \in ClientPc
  PROVE  /\ [c EXCEPT !.pc = pc] \in ClientRecord
         /\ [c EXCEPT !.pc = pc].pc = pc /\ [c EXCEPT !.pc = pc].last = c.last
BY DEF ClientRecord

LEMMA RetryIs ==
  ASSUME client \in ClientRecord
  PROVE  Retry \in ClientRecord /\ Retry.last = client.last
<1>1. "poll" \in ClientPc /\ "backoff" \in ClientPc
  BY DEF ClientPc
<1>2. CASE client.reconnects >= MaxReconnects
  <2>1. Retry = [client EXCEPT !.pc = "poll"]
    BY <1>2 DEF Retry
  <2> QED BY <1>1, <2>1, ClientGoes
<1>3. CASE ~(client.reconnects >= MaxReconnects)
  <2> DEFINE c == [client EXCEPT !.pc = "backoff"]
             d == [c EXCEPT !.reconnects = client.reconnects + 1]
  <2>1. Retry = d
    BY <1>3 DEF Retry
  <2>2. c \in ClientRecord /\ c.last = client.last
    BY <1>1, ClientGoes
  <2>3. client.reconnects + 1 \in Nat
    BY DEF ClientRecord
  <2> HIDE DEF c
  <2>4. d \in ClientRecord /\ d.last = client.last
    BY <2>2, <2>3 DEF ClientRecord
  <2> QED BY <2>1, <2>4
<1> QED BY <1>2, <1>3

\* The steps of the page that show nothing and leave the connection alone.
LEMMA WaitingKeepsInv ==
  ASSUME Inv,
         \/ EndOfStream \/ BackoffEnds \/ FetchDetail \/ Poll
         \/ ConnectFails \/ ConnectRefused \/ GetRunFails
  PROVE  Inv'
<1>1. client \in ClientRecord /\ status \in Statuses /\ faults \in Nat
  BY DEF Inv, StreamTyped
<1>2. UNCHANGED <<emitVars, lost, shown, conn, wire>> /\ faults' \in Nat
  BY <1>1 DEF EndOfStream, BackoffEnds, FetchDetail, Poll, ConnectFails,
    ConnectRefused, GetRunFails, Fault, streamVars
<1>3. {"connect", "returned", "timedOut", "poll", "rejected"} \subseteq ClientPc
  BY DEF ClientPc, Finished
<1>4. CASE EndOfStream \/ ConnectFails
  <2>1. client' = Retry /\ client.pc \in Reading
    BY <1>4 DEF EndOfStream, ConnectFails, Reading
  <2> QED BY <1>1, <1>2, <2>1, RetryIs, StaysKeepsInv
<1>5. CASE BackoffEnds
  <2>1. client' = [client EXCEPT !.pc = "connect"] /\ client.pc \in Reading
    BY <1>5 DEF BackoffEnds, Reading
  <2>2. client' \in ClientRecord /\ client'.last = client.last
    BY <1>1, <1>3, <2>1, ClientGoes
  <2> QED BY <1>2, <2>1, <2>2, StaysKeepsInv
<1>6. CASE ConnectRefused \/ GetRunFails
  <2>1. client' = [client EXCEPT !.pc = "rejected"]
    BY <1>6 DEF ConnectRefused, GetRunFails
  <2>2. client' \in ClientRecord /\ client'.last = client.last /\ client'.pc = "rejected"
    BY <1>1, <1>3, <2>1, ClientGoes
  <2> QED BY <1>2, <2>2, StaysKeepsInv DEF Reading
<1>7. CASE FetchDetail
  <2> DEFINE c == [client EXCEPT !.pc = "returned"]
             d == [c EXCEPT !.detail = status]
  <2>1. client' = d
    BY <1>7 DEF FetchDetail, getRun
  <2>2. c \in ClientRecord /\ c.last = client.last /\ c.pc = "returned"
    BY <1>1, <1>3, ClientGoes
  <2> HIDE DEF c
  <2>3. d \in ClientRecord /\ d.last = client.last /\ d.pc = "returned"
    BY <1>1, <2>2 DEF ClientRecord
  <2> HIDE DEF d
  <2> QED BY <1>2, <2>1, <2>3, StaysKeepsInv DEF Reading
<1>8. CASE Poll
  <2> DEFINE pc == CASE getRun \in TERMINAL_RUN_STATUSES -> "returned"
                     [] client.polls + 1 >= MaxPolls -> "timedOut"
                     [] OTHER -> "poll"
  <2>1. pc \in {"returned", "timedOut", "poll"}
    OBVIOUS
  <2> DEFINE c == [client EXCEPT !.detail = status]
             d == [c EXCEPT !.polls = client.polls + 1]
             f == [d EXCEPT !.pc = pc]
  <2>2. client' = f
    BY <1>8 DEF Poll, getRun
  <2> HIDE DEF pc
  <2>3. c \in ClientRecord /\ c.last = client.last /\ client.polls + 1 \in Nat
    BY <1>1 DEF ClientRecord
  <2> HIDE DEF c
  <2>4. d \in ClientRecord /\ d.last = client.last
    BY <2>3 DEF ClientRecord
  <2> HIDE DEF d
  <2>5. f \in ClientRecord /\ f.last = client.last /\ f.pc = pc
    BY <1>3, <2>1, <2>4, ClientGoes
  <2> HIDE DEF f
  <2> QED BY <1>2, <2>1, <2>2, <2>5, StaysKeepsInv DEF Reading
<1> QED BY <1>4, <1>5, <1>6, <1>7, <1>8

LEMMA LeavingKeepsInv ==
  ASSUME Inv, Break \/ Abort
  PROVE  Inv'
<1>1. client \in ClientRecord /\ faults \in Nat
  BY DEF Inv, StreamTyped
<1>2. /\ UNCHANGED <<emitVars, lost, shown>> /\ faults' \in Nat
      /\ conn' = Closed /\ wire' = <<>>
  BY <1>1 DEF Break, Abort, Fault
<1>3. CASE Break
  <2>1. client' = Retry /\ client.pc \in Reading
    BY <1>3 DEF Break, Reading
  <2> QED BY <1>1, <1>2, <2>1, RetryIs, ClosesKeepsInv
<1>4. CASE Abort
  <2>1. client' = [client EXCEPT !.pc = "aborted"] /\ "aborted" \in ClientPc
    BY <1>4 DEF Abort, ClientPc, Finished
  <2>2. client' \in ClientRecord /\ client'.last = client.last /\ client'.pc = "aborted"
    BY <1>1, <2>1, ClientGoes
  <2> QED BY <1>2, <2>2, ClosesKeepsInv DEF Reading
<1> QED BY <1>3, <1>4

\* The page asks for what comes after the last event it has shown.
LEMMA ConnectKeepsInv ==
  ASSUME Inv, Connect
  PROVE  Inv'
<1>1. /\ UNCHANGED <<emitVars, lost, shown, wire>> /\ faults' \in Nat
      /\ client \in ClientRecord /\ wire' \in Seq(log)
      /\ client.pc = "connect" /\ client' = [client EXCEPT !.pc = "reading"]
      /\ conn' = [Closed EXCEPT !.pc = "subscribing", !.last = client.last]
  BY DEF Connect, Inv, StreamTyped
<1>2. client.last \in Nat
  BY <1>1, LogSize DEF ClientRecord, Inv
<1>3. conn' \in ConnRecord /\ conn'.pc = "subscribing" /\ conn'.last = client.last
  BY <1>1, <1>2, ClosedConn
<1>4. client' \in ClientRecord /\ client'.last = client.last
  <2>1. "reading" \in ClientPc
    BY DEF ClientPc
  <2> QED BY <1>1, <2>1, ClientGoes
<1>5. /\ LogInv' /\ ProducerInv' /\ ReadingInv' /\ StreamTyped' /\ Passed' = Passed
      /\ 1..client'.last \subseteq Passed'
  BY <1>1, <1>3, <1>4, PageFrame DEF Reading
<1>6. PageInv'
  BY <1>1, <1>3, <1>4, <1>5 DEF Inv, PageInv
<1>7. ConnInv'
  BY <1>3 DEF ConnInv
<1> QED BY <1>5, <1>6, <1>7 DEF Inv

\* dispatchFrame: what lies between the last event shown and the one on top of
\* the wire may be skipped.
LEMMA ReadFrameKeepsInv ==
  ASSUME Inv, ReadFrame
  PROVE  Inv'
<1> DEFINE e == Head(wire)
           ends == e.type \in TERMINAL_EVENT_TYPES
           c == [client EXCEPT !.last = e.seq]
           d == [c EXCEPT !.pc = IF ends THEN "detail" ELSE "reading"]
<1>1. /\ UNCHANGED <<emitVars, lost>> /\ faults' \in Nat
      /\ client \in ClientRecord /\ conn \in ConnRecord
      /\ wire \in Seq(log) /\ wire # <<>>
      /\ Covered(wire, Passed)
      /\ 1..client.last \subseteq Passed
      /\ conn.pc # "closed" => 1..conn.last \subseteq Passed \cup NumbersIn(wire)
  BY DEF ReadFrame, Inv, StreamTyped, PageInv
<1>2. \/ /\ e.seq <= client.last
         /\ wire' = Tail(wire) /\ UNCHANGED <<conn, clientVars>>
      \/ /\ ~(e.seq <= client.last)
         /\ shown' = shown \cup {e.seq} /\ client' = d
         /\ wire' = (IF ends THEN <<>> ELSE Tail(wire))
         /\ conn' = (IF ends THEN Closed ELSE conn)
  BY DEF ReadFrame
<1>3. \A x \in log : x.seq \in Nat \ {0} /\ x.seq \in 1..Cardinality(log)
  BY LogSize DEF Inv, LogInv
<1>4. /\ e \in log /\ Tail(wire) \in Seq(log)
      /\ 1..(e.seq - 1) \subseteq Passed
      /\ NumbersIn(wire) \subseteq {e.seq} \cup NumbersIn(Tail(wire))
      /\ Covered(Tail(wire), Passed \cup {e.seq})
  <2> DEFINE B == Passed \cup {e.seq}
  <2>1. \A x \in log : x.seq \in Nat
    BY <1>3
  <2>2. Passed \subseteq B /\ Head(wire).seq \in B
    OBVIOUS
  <2> HIDE DEF B
  <2>3. /\ Head(wire) \in log /\ Tail(wire) \in Seq(log)
        /\ 1..(Head(wire).seq - 1) \subseteq Passed
        /\ NumbersIn(wire) \subseteq {Head(wire).seq} \cup NumbersIn(Tail(wire))
        /\ Covered(Tail(wire), B)
    BY <1>1, <2>1, <2>2, CoveredTail
  <2> QED BY <2>3 DEF B
<1> HIDE DEF e
<1>5. client.last \in Nat /\ shown \in SUBSET (1..client.last) /\ e.seq \in Nat
  BY <1>1, <1>3, <1>4, LogSize DEF Inv, StreamTyped, ClientRecord
<1>6. LogInv' /\ ProducerInv' /\ Skippable' = Skippable
  BY <1>1 DEF Inv, LogInv, ProducerInv, Skippable, Overtaken, emitVars
<1>7. ASSUME conn' \in ConnRecord, wire' \in Seq(log), client' \in ClientRecord,
             shown' \in SUBSET (1..client'.last)
      PROVE  StreamTyped'
  <2>1. log' = log
    BY <1>1 DEF emitVars
  <2>2. ConnRecord' = ConnRecord /\ ClientRecord' = ClientRecord
    BY <2>1 DEF ConnRecord, ClientRecord
  <2> QED BY <1>1, <1>7, <2>1, <2>2 DEF Inv, StreamTyped, emitVars
<1>8. CASE e.seq <= client.last
  <2>1. wire' = Tail(wire) /\ UNCHANGED <<conn, client, shown>>
    BY <1>2, <1>8 DEF clientVars
  <2>2. Passed' = Passed
    BY <1>6, <2>1 DEF Passed
  <2>3. e.seq \in Passed
    BY <1>1, <1>3, <1>4, <1>5, <1>8
  <2>4. Covered(wire', Passed')
    BY <1>4, <2>1, <2>2, <2>3, CoveredMore
  <2>5. PageInv'
    BY <1>1, <1>4, <2>1, <2>2, <2>3, <2>4 DEF PageInv
  <2>6. ConnInv'
    BY <1>1, <1>6, <2>1 DEF Inv, ConnInv, Ahead, emitVars
  <2>7. StreamTyped'
    BY <1>1, <1>4, <1>5, <1>7, <2>1
  <2>8. ReadingInv'
    BY <1>1, <2>1 DEF Inv, ReadingInv, emitVars
  <2> QED BY <1>6, <2>5, <2>6, <2>7, <2>8 DEF Inv
<1>9. CASE ~(e.seq <= client.last)
  <2>1. /\ shown' = shown \cup {e.seq} /\ client' = d
        /\ wire' = (IF ends THEN <<>> ELSE Tail(wire))
        /\ conn' = (IF ends THEN Closed ELSE conn)
    BY <1>2, <1>9
  <2>2. c \in ClientRecord /\ c.last = e.seq
    <3>1. e.seq \in 0..Cardinality(log)
      BY <1>3, <1>4
    <3> QED BY <1>1, <3>1 DEF ClientRecord
  <2> HIDE DEF c
  <2>3. /\ d \in ClientRecord /\ d.last = e.seq
        /\ d.pc = IF ends THEN "detail" ELSE "reading"
    <3>1. (IF ends THEN "detail" ELSE "reading") \in ClientPc
      BY DEF ClientPc
    <3> QED BY <2>2, <3>1, ClientGoes
  <2> HIDE DEF d, ends
  <2>4. Passed' = Passed \cup {e.seq}
    BY <1>6, <2>1 DEF Passed
  <2>5. 1..client'.last \subseteq Passed'
    <3>1. 1..e.seq \subseteq 1..(e.seq - 1) \cup {e.seq}
      BY <1>5
    <3> QED BY <1>4, <2>1, <2>3, <2>4, <3>1
  <2>6. /\ conn' \in ConnRecord /\ wire' \in Seq(log)
        /\ Covered(wire', Passed')
        /\ conn'.pc # "closed" => 1..conn'.last \subseteq Passed' \cup NumbersIn(wire')
    <3>1. CASE ends
      <4>1. Closed \in ConnRecord /\ Closed.pc = "closed" /\ conn' = Closed /\ wire' = <<>>
        BY <2>1, <3>1, ClosedConn
      <4> QED BY <4>1 DEF Covered
    <3>2. CASE ~ends
      BY <1>1, <1>4, <2>1, <2>4, <3>2
    <3> QED BY <3>1, <3>2
  <2>7. PageInv'
    BY <2>5, <2>6 DEF PageInv
  <2>8. ConnInv'
    <3>1. CASE ends
      <4>1. conn'.pc = "closed"
        BY <2>1, <3>1, ClosedConn
      <4> QED BY <4>1 DEF ConnInv
    <3>2. CASE ~ends
      BY <1>1, <1>6, <2>1, <3>2 DEF Inv, ConnInv, Ahead, emitVars
    <3> QED BY <3>1, <3>2
  <2>9. StreamTyped'
    <3>1. shown' \in SUBSET (1..client'.last)
      <4>1. client.last < e.seq /\ e.seq >= 1
        BY <1>3, <1>4, <1>5, <1>9
      <4>2. 1..client.last \subseteq 1..e.seq /\ e.seq \in 1..e.seq
        BY <1>5, <4>1
      <4>3. client'.last = e.seq /\ shown' = shown \cup {e.seq}
        BY <2>1, <2>3
      <4> QED BY <1>5, <4>2, <4>3
    <3> QED BY <1>7, <2>1, <2>3, <2>6, <3>1
  <2>10. ReadingInv'
    <3>1. CASE ends
      BY <2>1, <2>3, <3>1 DEF ReadingInv
    <3>2. CASE ~ends
      <4>1. \A x \in log : x.seq = e.seq => x = e
        BY <1>4 DEF Inv, LogInv
      <4>2. e.type \notin TERMINAL_EVENT_TYPES
        BY <3>2 DEF ends
      <4> QED BY <1>1, <2>1, <2>3, <4>1, <4>2 DEF ReadingInv, emitVars
    <3> QED BY <3>1, <3>2
  <2> QED BY <1>6, <2>7, <2>8, <2>9, <2>10 DEF Inv
<1> QED BY <1>8, <1>9

-----------------------------------------------------------------------------
(* The invariant holds *)

LEMMA InitInv == Init => Inv
<1> SUFFICES ASSUME Init PROVE Inv
  OBVIOUS
<1>1. /\ status = "queued" /\ log = {Created} /\ published = {1} /\ late = {}
      /\ producer = [p \in Producers |-> Idle]
      /\ conn = Closed /\ wire = <<>> /\ lost = {}
      /\ client = [pc |-> "connect", last |-> 0, reconnects |-> 0, polls |-> 0,
                   detail |-> "queued"]
      /\ shown = {} /\ faults = 0
  BY DEF Init
<1>2. /\ Created \in EventRecord /\ Created.seq = 1
      /\ Created.type = "run.created"
  BY DEF Created, EventRecord, EventTypes, Producers
<1>3. IsFiniteSet(log) /\ Cardinality(log) = 1
  BY <1>1, FS_Singleton
<1>4. LogInv
  <2>1. \A n : n \in 1..1 <=> n = 1
    OBVIOUS
  <2>2. 1..Cardinality(log) = 1..1
    BY <1>3
  <2>3. \A e : e \in log <=> e = Created
    BY <1>1
  <2> QED BY <1>2, <1>3, <2>1, <2>2, <2>3 DEF LogInv
<1>5. Idle \in ProducerRecord /\ Idle.pc = "idle"
  BY DEF Idle, ProducerRecord, ProducerPc, EventTypes
<1>6. ProducerInv
  BY <1>1, <1>5 DEF ProducerInv
<1>7. StreamTyped
  <2>1. conn \in ConnRecord
    BY <1>1, ClosedConn, Zenon
  <2>2. client \in ClientRecord
    BY <1>1, <1>3 DEF ClientRecord, ClientPc, Statuses
  <2>3. client.last = 0
    BY <1>1
  <2> QED BY <1>1, <1>3, <2>1, <2>2, <2>3 DEF StreamTyped, Statuses
<1>8. Closed.pc = "closed"
  BY DEF Closed
<1>9. PageInv /\ ConnInv /\ ReadingInv
  <2>1. client.last = 0 /\ conn.pc = "closed" /\ wire = <<>>
    BY <1>1, <1>8
  <2>2. \A e \in log : e.seq # client.last
    BY <1>1, <1>2, <2>1
  <2> QED BY <2>1, <2>2 DEF PageInv, ConnInv, ReadingInv, Covered
<1> QED BY <1>4, <1>6, <1>7, <1>9 DEF Inv

LEMMA NextInv == Inv /\ [Next]_vars => Inv'
<1> SUFFICES ASSUME Inv, [Next]_vars PROVE Inv'
  OBVIOUS
<1>1. CASE Emission
  BY <1>1, NumberingKeepsInv, CreateKeepsInv, PublishKeepsInv, PublishFailsKeepsInv
    DEF Emission
<1>2. CASE Run
  BY <1>2, RunKeepsInv
<1>3. CASE Serve
  BY <1>3, SubscribeKeepsInv, LoadEventsKeepsInv, MergeKeepsInv, MessageKeepsInv
    DEF Serve
<1>4. CASE Watch
  BY <1>4, ConnectKeepsInv, ReadFrameKeepsInv, WaitingKeepsInv DEF Watch
<1>5. CASE Trouble
  BY <1>5, MessageLostKeepsInv, StreamFailsKeepsInv, WaitingKeepsInv, LeavingKeepsInv
    DEF Trouble
<1>6. CASE UNCHANGED vars
  <2>1. UNCHANGED <<status, log, producer, published, late, conn, wire, client,
                    shown, lost, faults>>
    BY <1>6 DEF vars
  <2>2. LogInv' /\ ProducerInv'
    BY <2>1 DEF Inv, LogInv, ProducerInv
  <2>3. StreamTyped'
    <3>1. ConnRecord' = ConnRecord /\ ClientRecord' = ClientRecord
      BY <2>1 DEF ConnRecord, ClientRecord
    <3> QED BY <2>1, <3>1 DEF Inv, StreamTyped
  <2>4. Skippable' = Skippable /\ Passed' = Passed /\ Ahead' = Ahead
    BY <2>1 DEF Passed, Skippable, Overtaken, Ahead
  <2>5. PageInv'
    BY <2>1, <2>4 DEF Inv, PageInv
  <2>6. ConnInv'
    BY <2>1, <2>4 DEF Inv, ConnInv
  <2>7. ReadingInv'
    BY <2>1 DEF Inv, ReadingInv
  <2> QED BY <2>2, <2>3, <2>5, <2>6, <2>7 DEF Inv
<1> QED BY <1>1, <1>2, <1>3, <1>4, <1>5, <1>6 DEF Next

\* The log is dense and every emitter, connection and page agrees with it,
\* whatever the interleaving of the emitters, the stream and the failures.
THEOREM Consistent == Spec => []Inv
<1> QED BY InitInv, NextInv, PTL DEF Spec

\* streamAgentRunEvents and the page lose no event between them: one that the
\* page has passed over was not published, or published after a later number,
\* or dropped by Redis.
THEOREM NothingFallsBetween == Spec => []GapsComeFromPublishers
<1>1. Inv => GapsComeFromPublishers
  BY DEF Inv, PageInv, Passed, Skippable, Overtaken, GapsComeFromPublishers
<1> QED BY <1>1, Consistent, PTL

-----------------------------------------------------------------------------
(* The refinement of EventFeed *)

FeedLog == [n \in 1..Cardinality(log) |-> TypeAt(n)]

LEMMA TypeAtIs ==
  ASSUME LogInv, NEW e \in log
  PROVE  TypeAt(e.seq) = e.type
<1>1. {x.type : x \in {d \in log : d.seq = e.seq}} = {e.type}
  BY DEF LogInv
<1> QED BY <1>1 DEF TypeAt

FeedLogOK ==
  /\ FeedLog \in Seq(EventTypes) /\ Len(FeedLog) = Cardinality(log)
  /\ \A e \in log : FeedLog[e.seq] = e.type

LEMMA FeedLogIs == LogInv => FeedLogOK
<1> SUFFICES ASSUME LogInv PROVE FeedLogOK
  OBVIOUS
<1>1. Cardinality(log) \in Nat /\ \A e \in log : e.type \in EventTypes
  BY LogSize
<1>2. \A n \in 1..Cardinality(log) : TypeAt(n) \in EventTypes
  BY <1>1, TypeAtIs DEF LogInv
<1>3. FeedLog \in [1..Cardinality(log) -> EventTypes]
  BY <1>2 DEF FeedLog
<1>4. \A e \in log : FeedLog[e.seq] = e.type
  BY TypeAtIs DEF LogInv, FeedLog
<1> QED BY <1>1, <1>3, <1>4 DEF FeedLogOK

LEMMA FeedLogIsNext == LogInv' => FeedLogOK'
BY FeedLogIs, PTL

\* The initial log is that of the feed.
LEMMA InitFeed == Init => Feed!Init
<1> SUFFICES ASSUME Init PROVE Feed!Init
  OBVIOUS
<1>1. LogInv /\ log = {Created} /\ shown = {} /\ client.last = 0
  BY InitInv DEF Inv, Init
<1>2. Cardinality(log) = 1
  BY <1>1, FS_Singleton
<1>3. FeedLog \in Seq(EventTypes) /\ Len(FeedLog) = 1 /\ FeedLog[1] = "run.created"
  BY <1>1, <1>2, FeedLogIs DEF Created, FeedLogOK
<1>4. FeedLog = <<"run.created">>
  BY <1>3
<1> QED BY <1>1, <1>4 DEF Feed!Init, FeedLog

\* AgentEvent.create records the next event, or nothing.
LEMMA CreateRecords ==
  ASSUME Inv, NEW p \in Producers, Create(p)
  PROVE  [Feed!Next]_(Feed!feedVars)
<1>1. UNCHANGED <<shown, client>>
  BY DEF Create, clientVars
<1>2. CASE UNCHANGED log
  <2>1. FeedLog' = FeedLog
    BY <1>2 DEF FeedLog, TypeAt
  <2> QED BY <1>1, <2>1 DEF Feed!feedVars, FeedLog
<1>3. CASE ~UNCHANGED log
  <2> DEFINE t == producer[p].type
             x == [seq |-> Cardinality(log) + 1, type |-> t, by |-> p]
  <2>1. /\ t \in EventTypes /\ LogInv'
        /\ Cardinality(log') = Cardinality(log) + 1 /\ log' = log \cup {x}
    BY <1>3, CreateDoes
  <2>2. x.seq = Cardinality(log) + 1 /\ x.type = t
    OBVIOUS
  <2> HIDE DEF x, t
  <2>3. /\ FeedLog \in Seq(EventTypes) /\ Len(FeedLog) = Cardinality(log)
        /\ \A e \in log : FeedLog[e.seq] = e.type
    BY FeedLogIs DEF Inv, FeedLogOK
  <2>4. /\ FeedLog' \in Seq(EventTypes) /\ Len(FeedLog') = Cardinality(log')
        /\ \A e \in log' : FeedLog'[e.seq] = e.type
    BY <2>1, FeedLogIsNext DEF FeedLogOK
  <2>5. \A n \in 1..Len(FeedLog) : FeedLog'[n] = FeedLog[n]
    <3> TAKE n \in 1..Len(FeedLog)
    <3>1. PICK e \in log : e.seq = n
      BY <2>3 DEF Inv, LogInv
    <3> QED BY <2>1, <2>3, <2>4, <3>1
  <2>6. FeedLog'[Len(FeedLog) + 1] = t
    BY <2>1, <2>2, <2>3, <2>4
  <2>7. FeedLog' = Append(FeedLog, t)
    <3>1. Len(FeedLog') = Len(FeedLog) + 1
      BY <2>1, <2>3, <2>4
    <3> QED BY <2>1, <2>3, <2>4, <2>5, <2>6, <3>1
  <2>8. Feed!Record(t)
    BY <1>1, <2>7 DEF Feed!Record, FeedLog
  <2> QED BY <2>1, <2>8 DEF Feed!Next
<1> QED BY <1>2, <1>3

\* A frame that is not a repetition is shown: a later event of the log, and
\* nothing terminal has been shown before.
LEMMA ReadFrameShows ==
  ASSUME Inv, ReadFrame
  PROVE  [Feed!Next]_(Feed!feedVars)
<1> DEFINE e == Head(wire)
<1>1. /\ e \in log /\ UNCHANGED log
      /\ client \in ClientRecord /\ client.pc = "reading"
  BY DEF Inv, StreamTyped, ReadFrame, emitVars
<1>2. \/ UNCHANGED <<client, shown>>
      \/ /\ ~(e.seq <= client.last) /\ shown' = shown \cup {e.seq}
         /\ client' = [client EXCEPT !.last = e.seq,
              !.pc = IF e.type \in TERMINAL_EVENT_TYPES THEN "detail" ELSE "reading"]
  BY DEF ReadFrame, clientVars
<1> HIDE DEF e
<1>3. FeedLog' = FeedLog
  BY <1>1 DEF FeedLog, TypeAt
<1>4. CASE UNCHANGED <<client, shown>>
  BY <1>3, <1>4 DEF Feed!feedVars, FeedLog
<1>5. CASE ~UNCHANGED <<client, shown>>
  <2>1. ~(e.seq <= client.last) /\ shown' = shown \cup {e.seq} /\ client'.last = e.seq
    BY <1>1, <1>2, <1>5 DEF ClientRecord
  <2>2. /\ FeedLog \in Seq(EventTypes) /\ Len(FeedLog) = Cardinality(log)
        /\ \A d \in log : FeedLog[d.seq] = d.type
    BY FeedLogIs DEF Inv, FeedLogOK
  <2>3. client.last \in 0..Cardinality(log) /\ e.seq \in 1..Cardinality(log)
        /\ Cardinality(log) \in Nat
    BY <1>1, LogSize DEF ClientRecord, Inv, LogInv
  <2>4. e.seq \in client.last + 1 .. Len(FeedLog)
    BY <2>1, <2>2, <2>3
  <2>5. client.last > 0 => FeedLog[client.last] \notin TERMINAL_EVENT_TYPES
    <3> SUFFICES ASSUME client.last > 0
                 PROVE  FeedLog[client.last] \notin TERMINAL_EVENT_TYPES
      OBVIOUS
    <3>1. client.last \in 1..Cardinality(log)
      BY <2>3
    <3>2. PICK d \in log : d.seq = client.last
      BY <3>1 DEF Inv, LogInv
    <3>3. d.type \notin TERMINAL_EVENT_TYPES
      BY <1>1, <3>2 DEF Inv, ReadingInv
    <3> QED BY <2>2, <3>2, <3>3
  <2>6. Feed!Show(e.seq)
    BY <1>3, <2>1, <2>4, <2>5 DEF Feed!Show, Feed!Ended, FeedLog
  <2>7. e.seq \in 1..Len(FeedLog)
    BY <2>2, <2>3
  <2> QED BY <2>6, <2>7 DEF Feed!Next, FeedLog
<1> QED BY <1>4, <1>5

\* Every other step leaves the log, the last number and what is shown alone.
LEMMA FeedStutters ==
  ASSUME UNCHANGED <<log, shown>>, client'.last = client.last
  PROVE  UNCHANGED Feed!feedVars
BY DEF Feed!feedVars, TypeAt

LEMMA NextFeed == Inv /\ [Next]_vars => [Feed!Next]_(Feed!feedVars)
<1> SUFFICES ASSUME Inv, [Next]_vars PROVE [Feed!Next]_(Feed!feedVars)
  OBVIOUS
<1>1. client \in ClientRecord
  BY DEF Inv, StreamTyped
<1>2. CASE Emission
  <2>1. PICK p \in Producers :
          getNextSequence(p) \/ Create(p) \/ Publish(p) \/ PublishFails(p)
    BY <1>2 DEF Emission
  <2>2. CASE Create(p)
    BY <2>2, CreateRecords
  <2>3. CASE getNextSequence(p) \/ Publish(p) \/ PublishFails(p)
    <3>1. UNCHANGED <<log, shown, client>>
      BY <2>3 DEF getNextSequence, Publish, PublishFails, clientVars
    <3> QED BY <3>1, FeedStutters
  <2> QED BY <2>1, <2>2, <2>3
<1>3. CASE Run
  <2>1. UNCHANGED <<log, shown, client>>
    BY <1>3, RunMoves DEF Inv, clientVars
  <2> QED BY <2>1, FeedStutters
<1>4. CASE Serve \/ MessageLost \/ StreamFails
  <2>1. UNCHANGED <<log, shown, client>>
    BY <1>4 DEF Serve, Subscribe, LoadEvents, Merge, Message, MessageLost,
      StreamFails, emitVars, clientVars
  <2> QED BY <2>1, FeedStutters
<1>5. CASE ReadFrame
  BY <1>5, ReadFrameShows
<1>6. CASE \/ EndOfStream \/ BackoffEnds \/ FetchDetail \/ Poll \/ Connect
           \/ ConnectFails \/ ConnectRefused \/ GetRunFails \/ Break \/ Abort
  <2>1. UNCHANGED <<log, shown>>
    BY <1>6 DEF EndOfStream, BackoffEnds, FetchDetail, Poll, Connect, ConnectFails,
      ConnectRefused, GetRunFails, Break, Abort, emitVars
  <2>2. client'.last = client.last
    <3>1. CASE EndOfStream \/ ConnectFails \/ Break
      <4>1. client' = Retry
        BY <3>1 DEF EndOfStream, ConnectFails, Break
      <4> QED BY <1>1, <4>1, RetryIs
    <3>2. CASE \/ BackoffEnds \/ FetchDetail \/ Poll \/ Connect
               \/ ConnectRefused \/ GetRunFails \/ Abort
      BY <1>1, <3>2 DEF BackoffEnds, FetchDetail, Poll, Connect,
        ConnectRefused, GetRunFails, Abort, ClientRecord
    <3> QED BY <1>6, <3>1, <3>2
  <2> QED BY <2>1, <2>2, FeedStutters
<1>7. CASE UNCHANGED vars
  BY <1>7, FeedStutters DEF vars
<1> QED BY <1>2, <1>3, <1>4, <1>5, <1>6, <1>7 DEF Next, Watch, Trouble

\* The log and the page implement EventFeed: dense numbers, shown in their
\* order and once, and nothing after a terminal event.
THEOREM KeepsTheFeed == Spec => FeedSpec
<1> QED BY InitFeed, NextFeed, Consistent, PTL DEF Spec, FeedSpec, Feed!Spec
=============================================================================
