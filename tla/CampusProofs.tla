---------------------------- MODULE CampusProofs ----------------------------
(***************************************************************************)
(* The safety of Campus, for all values of its constants: however often    *)
(* the switch drops the port and the client is killed, and whatever is on  *)
(* the way between them.  The queues have no bound, as each killed client  *)
(* may leave a message behind; what the proofs count is the frames that    *)
(* the messages on the way can still bring.                                *)
(***************************************************************************)
EXTENDS Campus, OpenSessionProofs, WellFoundedInduction

-----------------------------------------------------------------------------
(* Induction                                                                *)

\* A set that holds the first number and the successor of each of its members,
\* up to the last, holds them all: the least that it did not hold would have a
\* predecessor that it holds.
LEMMA UpTo ==
    ASSUME NEW first \in Nat, NEW last \in Nat, NEW P,
           first <= last => first \in P,
           \A n \in first..last : n < last /\ n \in P => n + 1 \in P
    PROVE  \A n \in first..last : n \in P
<1> DEFINE T == {n \in first..last : n \notin P}
           R == OpToRel(<, Nat)
<1> SUFFICES ASSUME T # {} PROVE FALSE
  OBVIOUS
<1>1. PICK m \in T : \A k \in T : m <= k
  <2>1. IsWellFoundedOn(R, Nat)
    BY NatLessThanWellFounded
  <2>2. \A x, y \in Nat : x < y => <<x, y>> \in R
    BY DEF OpToRel
  <2>3. T \subseteq Nat
    OBVIOUS
  <2> HIDE DEF R, T
  <2>4. PICK m \in T : \A k \in T : ~(<<k, m>> \in R)
    BY <2>1, <2>3, WFMin
  <2>5. \A k \in T : ~(k < m)
    BY <2>2, <2>3, <2>4, Zenon
  <2> QED
    BY <2>3, <2>5
<1>2. CASE m = first
  BY <1>2
<1>3. CASE m # first
  <2>1. m - 1 \in first..last /\ m - 1 < last
    BY <1>3
  <2>2. m - 1 \in P
    BY <1>1, <2>1
  <2> QED
    BY <2>1, <2>2
<1> QED
  BY <1>2, <1>3

-----------------------------------------------------------------------------
(* The load of a queue                                                      *)

Starts == {"startM", "startB"}

\* The frames that a message to the switch can still cause: a Start brings a
\* request, and a FAILURE when the port is closed again; a Logoff that closes
\* the port only brings the FAILURE that was counted with the port.
Weight(m) ==
    IF m \in Starts THEN 2 ELSE IF m \in {"respId", "respMd5"} THEN 1 ELSE 0

Load(q) ==
    LET sum[i \in 0..Len(q)] == IF i = 0 THEN 0 ELSE sum[i - 1] + Weight(q[i])
    IN  sum[Len(q)]

\* A function that adds up the weights of q.
Adds(sum, q) ==
    /\ sum \in [0..Len(q) -> Nat]
    /\ sum[0] = 0
    /\ \A i \in 1..Len(q) : sum[i] = sum[i - 1] + Weight(q[i])

LEMMA WeightType == \A m : Weight(m) \in Nat
BY DEF Weight

\* There is such a function, whatever q is, and Load is its last value.
LEMMA Added ==
    ASSUME NEW S, NEW q \in Seq(S)
    PROVE  \E sum : Adds(sum, q) /\ Load(q) = sum[Len(q)]
<1> DEFINE N == Len(q)
           F(f, i) == IF i = 0 THEN 0 ELSE f[i - 1] + Weight(q[i])
           Upto(m) == \E f \in [0..m -> Nat] : f = [i \in 0..m |-> F(f, i)]
           P == {m \in 0..N : Upto(m)}
<1>1. N \in Nat
  OBVIOUS
<1>2. 0 \in P
  <2> DEFINE g == [i \in 0..0 |-> 0]
  <2>1. g = [i \in 0..0 |-> F(g, i)] /\ g \in [0..0 -> Nat]
    OBVIOUS
  <2> HIDE DEF g
  <2>2. Upto(0)
    BY <2>1
  <2>3. 0 \in 0..N
    BY <1>1
  <2> HIDE DEF Upto, N
  <2> QED
    BY <2>2, <2>3
<1>3. \A m \in 0..N : m < N /\ m \in P => m + 1 \in P
  <2> SUFFICES ASSUME NEW m \in 0..N, m < N, Upto(m) PROVE Upto(m + 1)
    <3> HIDE DEF Upto, N
    <3>1. \A m \in 0..N : m < N => m + 1 \in 0..N
      BY <1>1
    <3> QED
      BY <3>1
  <2>1. PICK f \in [0..m -> Nat] : f = [i \in 0..m |-> F(f, i)]
    OBVIOUS
  <2> DEFINE g == [i \in 0..(m + 1) |-> IF i = 0 THEN 0 ELSE f[i - 1] + Weight(q[i])]
  <2>2. \A i \in 0..m : f[i] = g[i]
    BY <2>1
  <2>3. \A i \in 0..(m + 1) : g[i] = F(g, i) /\ g[i] \in Nat
    <3> TAKE i \in 0..(m + 1)
    <3>1. CASE i = 0
      BY <3>1
    <3>2. CASE i # 0
      <4>1. i - 1 \in 0..m
        BY <3>2
      <4>2. f[i - 1] = g[i - 1] /\ f[i - 1] \in Nat
        BY <2>2, <4>1
      <4>3. g[i] = f[i - 1] + Weight(q[i])
        BY <3>2
      <4>4. Weight(q[i]) \in Nat
        BY WeightType
      <4>5. g[i] \in Nat
        BY <4>2, <4>3, <4>4
      <4> HIDE DEF g
      <4> QED
        BY <3>2, <4>2, <4>3, <4>5
    <3> QED
      BY <3>1, <3>2
  <2>4. g = [i \in 0..(m + 1) |-> g[i]]
    OBVIOUS
  <2> HIDE DEF g
  <2>5. g = [i \in 0..(m + 1) |-> F(g, i)]
    BY <2>3, <2>4, Zenon
  <2>6. g \in [0..(m + 1) -> Nat]
    BY <2>3, <2>4
  <2> QED
    BY <2>5, <2>6
<1>4. N \in P
  <2> HIDE DEF P, N
  <2>1. \A m \in 0..N : m \in P
    BY <1>1, <1>2, <1>3, UpTo
  <2> QED
    BY <1>1, <2>1
<1>5. Load(q) = (CHOOSE f : f = [i \in 0..N |-> F(f, i)])[N]
  BY DEF Load
<1>6. PICK f \in [0..N -> Nat] : f = [i \in 0..N |-> F(f, i)]
  BY <1>4
<1> DEFINE h == CHOOSE x : x = [i \in 0..N |-> F(x, i)]
<1>7. h = [i \in 0..N |-> F(h, i)]
  BY <1>6
<1>8. \A i \in 0..N : h[i] = F(h, i)
  <2> HIDE DEF h
  <2> QED
    BY <1>7
<1>9. \A i \in 0..N : h[i] \in Nat
  <2> DEFINE R == {i \in 0..N : h[i] \in Nat}
  <2> HIDE DEF h
  <2>1. 0 \in R
    BY <1>1, <1>8
  <2>2. \A i \in 0..N : i < N /\ i \in R => i + 1 \in R
    <3> SUFFICES ASSUME NEW i \in 0..N, i < N, h[i] \in Nat PROVE h[i + 1] \in Nat
      BY <1>1
    <3>1. i + 1 \in 0..N /\ i + 1 # 0 /\ (i + 1) - 1 = i
      BY <1>1
    <3>2. h[i + 1] = h[i] + Weight(q[i + 1])
      BY <1>8, <3>1
    <3> QED
      BY <3>2, WeightType
  <2>3. \A i \in 0..N : i \in R
    <3> HIDE DEF R, N
    <3> QED
      BY <1>1, <2>1, <2>2, UpTo
  <2> QED
    BY <2>3
<1>10. Adds(h, q)
  <2> HIDE DEF h
  <2>1. h \in [0..N -> Nat]
    BY <1>7, <1>9
  <2>2. \A i \in 1..N : h[i] = h[i - 1] + Weight(q[i])
    BY <1>8
  <2>3. h[0] = 0
    BY <1>1, <1>8
  <2> QED
    BY <2>1, <2>2, <2>3 DEF Adds
<1> QED
  BY <1>5, <1>10

\* Two such functions agree, so Load does not depend on the choice.
LEMMA Unique ==
    ASSUME NEW S, NEW q \in Seq(S), NEW sum, Adds(sum, q)
    PROVE  Load(q) = sum[Len(q)]
<1> DEFINE N == Len(q)
<1>1. PICK f : Adds(f, q) /\ Load(q) = f[N]
  BY Added
<1> DEFINE P == {i \in 0..N : f[i] = sum[i]}
<1>2. N \in Nat
  OBVIOUS
<1>3. 0 \in P
  BY <1>1, <1>2 DEF Adds
<1>4. \A i \in 0..N : i < N /\ i \in P => i + 1 \in P
  <2> SUFFICES ASSUME NEW i \in 0..N, i < N, f[i] = sum[i]
               PROVE  i + 1 \in 0..N /\ f[i + 1] = sum[i + 1]
    OBVIOUS
  <2>1. i + 1 \in 1..N /\ (i + 1) - 1 = i
    BY <1>2
  <2>2. f[i + 1] = f[i] + Weight(q[i + 1]) /\ sum[i + 1] = sum[i] + Weight(q[i + 1])
    BY <1>1, <2>1 DEF Adds
  <2> QED
    BY <2>1, <2>2
<1>5. \A i \in 0..N : i \in P
  <2> HIDE DEF P, N
  <2> QED
    BY <1>2, <1>3, <1>4, UpTo
<1> QED
  BY <1>1, <1>2, <1>5

\* From a member on, the sum is at least its weight.
LEMMA Above ==
    ASSUME NEW S, NEW q \in Seq(S), NEW sum, Adds(sum, q),
           NEW i \in 1..Len(q), NEW j \in i..Len(q)
    PROVE  sum[j] >= Weight(q[i])
<1> DEFINE N == Len(q)
           P == {k \in i..N : sum[k] >= Weight(q[i])}
<1>1. N \in Nat /\ i \in Nat /\ i <= N
  OBVIOUS
<1>2. \A k \in 1..N : /\ sum[k] = sum[k - 1] + Weight(q[k])
                      /\ sum[k - 1] \in Nat /\ sum[k] \in Nat
                      /\ Weight(q[k]) \in Nat
  <2> TAKE k \in 1..N
  <2>1. k - 1 \in 0..N /\ k \in 0..N
    OBVIOUS
  <2> QED
    BY <2>1, WeightType DEF Adds
<1>3. i \in P
  BY <1>1, <1>2
<1>4. \A k \in i..N : k < N /\ k \in P => k + 1 \in P
  <2> SUFFICES ASSUME NEW k \in i..N, k < N, sum[k] >= Weight(q[i])
               PROVE  k + 1 \in i..N /\ sum[k + 1] >= Weight(q[i])
    OBVIOUS
  <2>1. k + 1 \in 1..N /\ (k + 1) - 1 = k
    BY <1>1
  <2>2. sum[k + 1] >= sum[k] /\ sum[k] \in Nat /\ sum[k + 1] \in Nat
    BY <1>2, <2>1
  <2>3. Weight(q[i]) \in Nat
    BY WeightType
  <2> QED
    BY <1>1, <2>1, <2>2, <2>3
<1>5. \A k \in i..N : k \in P
  <2> HIDE DEF P, N
  <2> QED
    BY <1>1, <1>3, <1>4, UpTo
<1> QED
  BY <1>5

\* The load is a number, no less than the weight of each message.
LEMMA LoadType ==
    ASSUME NEW S, NEW q \in Seq(S)
    PROVE  Load(q) \in Nat /\ \A i \in 1..Len(q) : Load(q) >= Weight(q[i])
<1>1. PICK sum : Adds(sum, q) /\ Load(q) = sum[Len(q)]
  BY Added
<1>2. Len(q) \in Nat
  OBVIOUS
<1>3. Load(q) \in Nat
  BY <1>1, <1>2 DEF Adds
<1>4. ASSUME NEW i \in 1..Len(q) PROVE Load(q) >= Weight(q[i])
  <2>1. Len(q) \in i..Len(q)
    BY <1>2
  <2> QED
    BY <1>1, <2>1, Above
<1> QED
  BY <1>3, <1>4

LEMMA LoadEmpty == Load(<<>>) = 0
<1>1. <<>> \in Seq({}) /\ Len(<<>>) = 0
  OBVIOUS
<1>2. PICK sum : Adds(sum, <<>>) /\ Load(<<>>) = sum[Len(<<>>)]
  BY <1>1, Added
<1> QED
  BY <1>1, <1>2 DEF Adds

LEMMA LoadAppend ==
    ASSUME NEW S, NEW q \in Seq(S), NEW m \in S
    PROVE  Load(Append(q, m)) = Load(q) + Weight(m)
<1> DEFINE N == Len(q)
           r == Append(q, m)
<1>1. PICK sum : Adds(sum, q) /\ Load(q) = sum[N]
  BY Added
<1> DEFINE g == [i \in 0..(N + 1) |-> IF i <= N THEN sum[i] ELSE sum[N] + Weight(m)]
<1>2. N \in Nat /\ r \in Seq(S) /\ Len(r) = N + 1
  OBVIOUS
<1>3. \A i \in 1..N : r[i] = q[i]
  OBVIOUS
<1>4. r[N + 1] = m
  OBVIOUS
<1>5. Weight(m) \in Nat
  BY WeightType
<1>6. \A i \in 0..N : g[i] = sum[i] /\ g[i] \in Nat
  BY <1>1, <1>2 DEF Adds
<1>7. g[N + 1] = sum[N] + Weight(m) /\ g[N + 1] \in Nat
  BY <1>1, <1>2, <1>5 DEF Adds
<1>8. \A i \in 0..(N + 1) : g[i] \in Nat
  <2> HIDE DEF g
  <2> QED
    BY <1>2, <1>6, <1>7
<1>9. g \in [0..(N + 1) -> Nat]
  <2>1. g = [i \in 0..(N + 1) |-> g[i]]
    OBVIOUS
  <2> HIDE DEF g
  <2> QED
    BY <1>8, <2>1
<1>10. Adds(g, r)
  <2> HIDE DEF g, r
  <2>1. g[0] = 0
    BY <1>1, <1>2, <1>6 DEF Adds
  <2>2. \A i \in 1..(N + 1) : g[i] = g[i - 1] + Weight(r[i])
    <3> TAKE i \in 1..(N + 1)
    <3>1. i - 1 \in 0..N
      BY <1>2
    <3>2. CASE i \in 1..N
      BY <1>1, <1>3, <1>6, <3>1, <3>2 DEF Adds
    <3>3. CASE i = N + 1
      BY <1>2, <1>4, <1>6, <1>7, <3>1, <3>3
    <3> QED
      BY <1>2, <3>2, <3>3
  <2> QED
    BY <1>2, <1>9, <2>1, <2>2 DEF Adds
<1>11. Load(r) = g[N + 1]
  <2> HIDE DEF g, r
  <2> QED
    BY <1>2, <1>10, Unique
<1> QED
  BY <1>1, <1>7, <1>11

LEMMA LoadTail ==
    ASSUME NEW S, NEW q \in Seq(S), q # <<>>
    PROVE  Load(q) = Weight(Head(q)) + Load(Tail(q))
<1> DEFINE N == Len(q)
           r == Tail(q)
           w == Weight(q[1])
<1>1. PICK sum : Adds(sum, q) /\ Load(q) = sum[N]
  BY Added
<1> DEFINE g == [i \in 0..(N - 1) |-> sum[i + 1] - w]
<1>2. N \in Nat \ {0} /\ r \in Seq(S) /\ Len(r) = N - 1
  OBVIOUS
<1>3. \A i \in 1..(N - 1) : r[i] = q[i + 1]
  OBVIOUS
<1>4. Head(q) = q[1]
  OBVIOUS
<1>5. w \in Nat
  BY WeightType
<1>6. \A i \in 0..(N - 1) : sum[i + 1] \in Nat /\ sum[i + 1] >= w
  <2> TAKE i \in 0..(N - 1)
  <2>1. i + 1 \in 1..N /\ i + 1 \in 0..N /\ 1 \in 1..N
    BY <1>2
  <2>2. sum[i + 1] \in Nat
    BY <1>1, <2>1 DEF Adds
  <2>3. sum[i + 1] >= w
    BY <1>1, <2>1, Above
  <2> QED
    BY <2>2, <2>3
<1>7. \A i \in 0..(N - 1) : g[i] = sum[i + 1] - w /\ g[i] \in Nat
  <2> HIDE DEF w
  <2> QED
    BY <1>5, <1>6
<1>8. g \in [0..(N - 1) -> Nat]
  <2>1. g = [i \in 0..(N - 1) |-> g[i]]
    OBVIOUS
  <2> HIDE DEF g
  <2> QED
    BY <1>7, <2>1
<1>9. sum[1] = w
  <2>1. 1 \in 1..N
    BY <1>2
  <2>2. sum[1] = sum[0] + w
    BY <1>1, <2>1 DEF Adds
  <2> HIDE DEF w
  <2> QED
    BY <1>1, <1>5, <2>2 DEF Adds
<1>10. Adds(g, r)
  <2> HIDE DEF g, r
  <2>1. g[0] = 0
    <3>1. 0 \in 0..(N - 1)
      BY <1>2
    <3> HIDE DEF w
    <3> QED
      BY <1>5, <1>7, <1>9, <3>1
  <2>2. \A i \in 1..(N - 1) : g[i] = g[i - 1] + Weight(r[i])
    <3> TAKE i \in 1..(N - 1)
    <3>1. i - 1 \in 0..(N - 1) /\ i \in 0..(N - 1) /\ i + 1 \in 1..N
          /\ (i - 1) + 1 = i /\ (i + 1) - 1 = i
      BY <1>2
    <3>2. sum[i + 1] = sum[i] + Weight(q[i + 1])
      BY <1>1, <3>1 DEF Adds
    <3>3. r[i] = q[i + 1]
      BY <1>3
    <3>4. Weight(q[i + 1]) \in Nat
      BY WeightType
    <3>5. sum[i] \in Nat
      BY <1>6, <3>1
    <3>6. g[i] = sum[i + 1] - w /\ g[i - 1] = sum[i] - w
      BY <1>7, <3>1
    <3> HIDE DEF w
    <3> QED
      BY <1>5, <3>2, <3>3, <3>4, <3>5, <3>6
  <2> QED
    BY <1>2, <1>8, <2>1, <2>2 DEF Adds
<1>11. Load(r) = g[N - 1]
  <2> HIDE DEF g, r
  <2> QED
    BY <1>2, <1>10, Unique
<1>12. N - 1 \in 0..(N - 1) /\ (N - 1) + 1 = N
  BY <1>2
<1>13. g[N - 1] = sum[N] - w /\ sum[N] \in Nat
  BY <1>6, <1>7, <1>12
<1> HIDE DEF w, g, r
<1> QED
  BY <1>1, <1>4, <1>5, <1>11, <1>13 DEF w, r

LEMMA LoadPut ==
    ASSUME NEW q \in Seq(EapOut), NEW m \in EapOut \cup {"none"}
    PROVE  Put(q, m) \in Seq(EapOut) /\ Load(Put(q, m)) = Load(q) + Weight(m)
<1>1. CASE m = "none"
  <2>1. Weight(m) = 0
    BY <1>1 DEF Weight, Starts
  <2>2. Load(q) \in Nat
    BY LoadType
  <2> QED
    BY <1>1, <2>1, <2>2 DEF Put
<1>2. CASE m # "none"
  <2>1. Load(Append(q, m)) = Load(q) + Weight(m)
    BY <1>2, LoadAppend
  <2> QED
    BY <1>2, <2>1 DEF Put
<1> QED
  BY <1>1, <1>2

-----------------------------------------------------------------------------
(* Types, and the client's own invariant                                    *)

InLogoff == pc \in {"offSend", "offWait"}

WireTypes ==
    /\ toSwitch \in Seq(EapOut)
    /\ toClient \in Seq(EapFrame)
    /\ toServer \in Seq(UdpOut)
    /\ fromServer \in Seq(Datagram)

PeerTypes ==
    /\ port \in {"closed", "identity", "challenge", "open"}
    /\ night \in BOOLEAN
    /\ killed \in BOOLEAN
    /\ refused \in BOOLEAN
    /\ losses \in 0..MaxLosses

\* A client that runs, or ended by itself, keeps the invariant that it keeps
\* in any network.
ClientOK ==
    /\ netTime \in BOOLEAN
    /\ killed => pc = "exited" /\ handle = FALSE /\ sock = FALSE
    /\ ~killed => IInv

\* Where the client is in what it was told to do, and whom the switch serves.
Form ==
    /\ pc = "offWait" => logoffCnt \in {0, 1}
    /\ client = "logoff" => /\ pc \in {"auth", "offSend", "offWait", "main", "exited"}
                            /\ InLogoff => site = "open"
                            /\ ~timeNotAllowed
    /\ pc = "main" /\ client = "login" => site = "close"
    /\ ~handle => toClient = <<>>
    /\ night => port # "open"

Base == WireTypes /\ PeerTypes /\ ClientOK /\ Form

\* What the invariants below see of a frame that is handled.
LEMMA FrameEffect ==
    ASSUME NEW f \in EapFrame, NEW r \in Results, NEW t, Handler(f, t, r)
    PROVE  /\ eapTx' \in {"none", "respId", "respMd5"}
           /\ eapTx' # "none" => f \in {"identity", "md5"}
           /\ success' = IF f = "success" THEN TRUE
                         ELSE IF f = "failure" THEN FALSE ELSE success
           /\ f \in {"identity", "md5", "success"} => r = "ok"
           /\ f \in {"identity", "md5", "success", "failure"} =>
                 timeNotAllowed' = timeNotAllowed
<1> USE DEF EapFrame, ErrorNotes, SendEap, NoEap, NoUdp, Silent
<1>1. CASE Reply(f, t, r)
  BY <1>1 DEF Reply
<1>2. CASE LogOnly(f, t, r)
  BY <1>2 DEF LogOnly
<1>3. CASE Refusal(f, t, r)
  BY <1>3 DEF Refusal
<1>4. CASE Failure(f, t, r)
  BY <1>4 DEF Failure
<1>5. CASE Granted(f, t, r)
  BY <1>5 DEF Granted
<1> QED
  BY <1>1, <1>2, <1>3, <1>4, <1>5 DEF Handler

\* A step of the client is a step that it may take in an open network.
LEMMA ClientIsOpen ==
    ASSUME WireTypes, Client
    PROVE  Next
<1>1. CASE ClientMoves
  BY <1>1 DEF ClientMoves, Next, AuthStep, MainStep
<1>2. CASE ClientHears
  <2>1. Head(toClient) \in EapFrame
    BY <1>2 DEF ClientHears, WireTypes
  <2> QED
    BY <1>2, <2>1 DEF ClientHears, Next, AuthStep, EapStep
<1>3. CASE ClientPolls
  BY <1>3 DEF ClientPolls, Next, AuthStep
<1>4. CASE ClientReads
  <2>1. PICK g \in Datagram : LoopDatagram(g)
    <3>1. CASE fromServer = <<>>
      BY <1>4, <3>1 DEF ClientReads, Datagram
    <3>2. CASE fromServer # <<>>
      <4>1. Head(fromServer) \in Datagram
        BY <3>2 DEF WireTypes
      <4> QED
        BY <1>4, <3>2, <4>1 DEF ClientReads
    <3> QED
      BY <3>1, <3>2
  <2> QED
    BY <2>1 DEF Next, UdpStep
<1>5. CASE ClientWaits
  BY <1>5 DEF ClientWaits, Next, MainStep
<1> QED
  BY <1>1, <1>2, <1>3, <1>4, <1>5 DEF Client, ClientActs

\* A client that was killed takes no step.
LEMMA ClientLives ==
    ASSUME ClientOK, Client
    PROVE  ~killed /\ IInv
<1>1. pc # "exited"
  BY DEF Client, ClientActs, ClientMoves, ClientHears, ClientPolls, ClientReads,
     ClientWaits, OpenCapture, LogoffSend, LogoffDone, OpenSocket, StartLogin,
     LoopEnds, BeatOverdue, BeatSent, NoBeat, MainRestart, MainBackoff, MainExit,
     LogoffWait, LoginTimeout, LoginUnreachable, LoginFrame, LoopFrame,
     LoopQuiet, LoopDatagram, MainWait
<1> QED
  BY <1>1 DEF ClientOK

\* What a step of the client leaves on the wires.
LEMMA ClientWires ==
    ASSUME WireTypes, IInv, IInv', Client
    PROVE  /\ toSwitch' = Put(toSwitch, eapTx')
           /\ \/ toClient' = <<>>
              \/ toClient' = toClient
              \/ toClient # <<>> /\ toClient' = Tail(toClient)
           /\ ~handle' => toClient' = <<>>
           /\ WireTypes'
           /\ UNCHANGED <<port, budgets, killed, refused>>
<1>1. eapTx' \in EapOut \cup {"none"} /\ udpTx' \in UdpOut \cup {"none"}
  BY DEF IInv, TypeOK, DataTypes
<1>2. PICK inEap, inUdp :
        /\ Wired(inEap, inUdp)
        /\ inEap = toClient \/ (toClient # <<>> /\ inEap = Tail(toClient))
        /\ inUdp \in Seq(Datagram)
  <2>1. fromServer # <<>> => Tail(fromServer) \in Seq(Datagram)
    BY DEF WireTypes
  <2>2. fromServer \in Seq(Datagram) /\ <<>> \in Seq(Datagram)
    BY DEF WireTypes
  <2> QED
    BY <2>1, <2>2 DEF Client, ClientActs, ClientMoves, ClientHears, ClientPolls,
       ClientReads, ClientWaits
<1>3. inEap \in Seq(EapFrame) /\ <<>> \in Seq(EapFrame) /\ <<>> \in Seq(Datagram)
  <2>1. toClient # <<>> => Tail(toClient) \in Seq(EapFrame)
    BY DEF WireTypes
  <2>2. toClient \in Seq(EapFrame)
    BY DEF WireTypes
  <2>3. inEap \in Seq(EapFrame)
    BY <1>2, <2>1, <2>2
  <2> QED
    BY <2>3
<1>4. toClient' \in Seq(EapFrame) /\ fromServer' \in Seq(Datagram)
  BY <1>2, <1>3 DEF Wired
<1>5. toServer' \in Seq(UdpOut)
  BY <1>1, <1>2 DEF Wired, Put, WireTypes
<1>6. toSwitch' = Put(toSwitch, eapTx')
  BY DEF Client, Sent
<1>7. toSwitch' \in Seq(EapOut)
  BY <1>1, <1>6, LoadPut DEF WireTypes
<1> QED
  BY <1>2, <1>4, <1>5, <1>6, <1>7 DEF Wired, WireTypes

\* What the switch sends is typed, and told only to a client that listens.
LEMMA SendsTyped ==
    ASSUME WireTypes, NEW frames \in Seq(EapFrame), Sends(frames)
    PROVE  /\ toClient' \in Seq(EapFrame)
           /\ toClient' = IF handle THEN toClient \o frames ELSE toClient
           /\ refused \in BOOLEAN => refused' \in BOOLEAN
BY DEF Sends, WireTypes

LEMMA FramesTyped ==
    /\ <<>> \in Seq(EapFrame) /\ NightNotice \in Seq(EapFrame)
    /\ <<"identity">> \in Seq(EapFrame) /\ <<"md5">> \in Seq(EapFrame)
    /\ <<"success">> \in Seq(EapFrame) /\ <<"failure">> \in Seq(EapFrame)
BY DEF EapFrame, ErrorNotes, NightNotice

LEMMA ClientKeepsBase ==
    ASSUME Base, Client
    PROVE  Base'
<1>1. ~killed /\ IInv
  BY ClientLives DEF Base
<1>2. IInv'
  BY <1>1, ClientIsOpen, StepKeepsIInv DEF Base
<1>3. /\ WireTypes'
      /\ UNCHANGED <<port, budgets, killed, refused>>
      /\ ~handle' => toClient' = <<>>
  BY <1>1, <1>2, ClientWires DEF Base
<1>4. night' => night
  BY DEF Client, ClientActs, ClientMoves, ClientHears, ClientPolls, ClientReads, ClientWaits
<1>5. PeerTypes'
  BY <1>3, <1>4 DEF Base, PeerTypes, budgets, Client, ClientActs, ClientMoves, ClientHears, ClientPolls, ClientReads, ClientWaits
<1>6. netTime' \in BOOLEAN
  BY <1>2 DEF IInv, TypeOK, FlagTypes
<1>7. ClientOK'
  BY <1>1, <1>2, <1>3, <1>6 DEF ClientOK
<1>8. Form'
  <2> USE DEF Base, Form, InLogoff, IInv, TypeOK, DataTypes, FlagTypes, Points,
          NoLeftovers, InLoop
  <2> USE DEF sessionVars, resourceVars, mainVars, historyVars, outerVars, logoffVars
  <2>1. CASE ClientMoves
    <3>1. night' = night
      BY <2>1 DEF ClientMoves
    <3>2. CASE OpenCapture \/ LogoffSend \/ LogoffDone \/ LogoffWait
      BY <1>1, <1>2, <1>3, <3>1, <3>2
         DEF OpenCapture, BeginLogoff, LogoffSend, LogoffDone, LogoffWait
    <3>3. CASE (OpenSocket /\ sock') \/ StartLogin \/ LoginTimeout \/ LoginUnreachable
      BY <1>1, <1>2, <1>3, <3>1, <3>3
         DEF OpenSocket, StartLogin, LoginTimeout, LoginUnreachable, LoginFails,
             BeginLogoff, Resources
    <3>4. CASE LoopEnds \/ BeatOverdue \/ BeatSent \/ NoBeat
      BY <1>1, <1>2, <1>3, <3>1, <3>4
         DEF LoopEnds, BeatOverdue, BreakLoop, LeaveLoop, BeginLogoff, BeatSent, NoBeat
    <3>5. CASE MainRestart \/ MainBackoff \/ MainExit
      BY <1>1, <1>2, <1>3, <3>1, <3>5
         DEF MainRestart, MainBackoff, MainExit, MainOnly
    <3> QED
      BY <2>1, <3>2, <3>3, <3>4, <3>5 DEF ClientMoves
  <2>2. CASE ClientHears
    <3>1. night' = night
      BY <2>2 DEF ClientHears
    <3>2. CASE LogoffWait
      BY <1>1, <1>2, <1>3, <3>1, <3>2 DEF LogoffWait
    <3>3. ASSUME NEW f, LoginFrame(f) PROVE Form'
      BY <1>1, <1>2, <1>3, <3>1, <3>3 DEF LoginFrame, LoginFails, BeginLogoff
    <3>4. ASSUME NEW f, LoopFrame(f) PROVE Form'
      BY <1>1, <1>2, <1>3, <3>1, <3>4 DEF LoopFrame
    <3> QED
      BY <2>2, <3>2, <3>3, <3>4 DEF ClientHears
  <2>3. CASE ClientPolls
    BY <1>1, <1>2, <1>3, <2>3 DEF ClientPolls, LoopQuiet
  <2>4. CASE ClientReads
    <3>1. PICK g : LoopDatagram(g)
      BY <2>4 DEF ClientReads
    <3> QED
      BY <1>1, <1>2, <1>3, <1>4, <3>1 DEF LoopDatagram
  <2>5. CASE ClientWaits
    BY <1>1, <1>2, <1>3, <1>4, <2>5 DEF ClientWaits, MainWait, MainOnly
  <2> QED
    BY <2>1, <2>2, <2>3, <2>4, <2>5 DEF Client, ClientActs
<1> QED
  BY <1>3, <1>5, <1>7, <1>8 DEF Base

\* A process that is started anew begins as the first one did.
LEMMA RestartIsInit ==
    ASSUME ClientOK, Restart
    PROVE  IInv'
<1>1. handle = FALSE /\ sock = FALSE /\ netTime \in BOOLEAN
  BY DEF Restart, ClientOK
<1>2. Init'
  BY <1>1 DEF Restart, Init, resourceVars
<1>3. Init' => IInv'
  BY InitIInv, PTL
<1> QED
  BY <1>2, <1>3

\* A step of the others leaves the client as it is.
LEMMA OthersKeepClient ==
    ASSUME ClientOK, UNCHANGED vars, UNCHANGED killed
    PROVE  ClientOK'
<1>1. UNCHANGED <<pc, netTime, handle, sock>>
  BY DEF vars, outerVars, mainVars, resourceVars
<1>2. IInv => IInv'
  BY StepKeepsIInv
<1> QED
  BY <1>1, <1>2 DEF ClientOK

LEMMA OthersKeepForm ==
    ASSUME Form, UNCHANGED vars, ~handle => toClient' = <<>>,
           night' => port' # "open"
    PROVE  Form'
<1>1. UNCHANGED <<pc, site, logoffCnt, client, timeNotAllowed, handle>>
  BY DEF vars, outerVars, mainVars, resourceVars, logoffVars
<1> QED
  BY <1>1 DEF Form, InLogoff

LEMMA SwitchHearsKeepsBase ==
    ASSUME Base, SwitchHears
    PROVE  Base'
<1>1. UNCHANGED <<vars, night, toServer, fromServer, losses, killed>>
  BY DEF SwitchHears, budgets
<1>2. PICK frames \in Seq(EapFrame) : Sends(frames)
  BY FramesTyped DEF SwitchHears
<1>3. toSwitch' \in Seq(EapOut)
  BY DEF SwitchHears, Base, WireTypes
<1>4. WireTypes'
  BY <1>1, <1>2, <1>3, SendsTyped DEF Base, WireTypes
<1>5. port' \in {"closed", "identity", "challenge", "open"} /\ (night => port' # "open")
  BY DEF SwitchHears, Base, PeerTypes, Form
<1>6. PeerTypes'
  BY <1>1, <1>2, <1>5, SendsTyped DEF Base, PeerTypes
<1>7. ClientOK'
  BY <1>1, OthersKeepClient DEF Base
<1>8. Form'
  BY <1>1, <1>2, <1>5, OthersKeepForm, SendsTyped DEF Base, Form
<1> QED
  BY <1>4, <1>6, <1>7, <1>8 DEF Base

LEMMA SwitchActsKeepsBase ==
    ASSUME Base, SwitchRepeats \/ SwitchDrops
    PROVE  Base'
<1>1. UNCHANGED <<vars, toSwitch, toServer, fromServer, losses, killed>>
  BY DEF SwitchRepeats, SwitchDrops, budgets
<1>2. PICK frames \in Seq(EapFrame) : Sends(frames)
  BY FramesTyped DEF SwitchRepeats, SwitchDrops
<1>4. WireTypes'
  BY <1>1, <1>2, SendsTyped DEF Base, WireTypes
<1>5. /\ port' \in {"closed", "identity", "challenge", "open"}
      /\ night' \in BOOLEAN
      /\ night' => port' # "open"
  BY DEF SwitchRepeats, SwitchDrops, Base, PeerTypes, Form
<1>6. PeerTypes'
  BY <1>1, <1>2, <1>5, SendsTyped DEF Base, PeerTypes
<1>7. ClientOK'
  BY <1>1, OthersKeepClient DEF Base
<1>8. Form'
  BY <1>1, <1>2, <1>5, OthersKeepForm, SendsTyped DEF Base, Form
<1> QED
  BY <1>4, <1>6, <1>7, <1>8 DEF Base

LEMMA ServerHearsKeepsBase ==
    ASSUME Base, ServerHears
    PROVE  Base'
<1>1. UNCHANGED <<vars, port, night, toSwitch, toClient, losses, killed, refused>>
  BY DEF ServerHears, budgets
<1>2. toServer' \in Seq(UdpOut)
  BY DEF ServerHears, Base, WireTypes
<1>3. Response[Head(toServer)] \in Datagram
  <2>1. Head(toServer) \in UdpOut
    BY DEF ServerHears, Base, WireTypes
  <2> QED
    BY <2>1 DEF UdpOut, Datagram, Response
<1>4. fromServer' \in Seq(Datagram)
  BY <1>3 DEF ServerHears, Base, WireTypes
<1>5. WireTypes'
  BY <1>1, <1>2, <1>4 DEF Base, WireTypes
<1>6. PeerTypes'
  BY <1>1 DEF Base, PeerTypes
<1>7. ClientOK'
  BY <1>1, OthersKeepClient DEF Base
<1>8. Form'
  BY <1>1, OthersKeepForm DEF Base, Form
<1> QED
  BY <1>5, <1>6, <1>7, <1>8 DEF Base

\* A queue that lost its head, or did not, is one.
LEMMA TailType ==
    ASSUME NEW S, NEW q \in Seq(S), NEW r, r = q \/ (q # <<>> /\ r = Tail(q))
    PROVE  r \in Seq(S)
OBVIOUS

LEMMA LosesKeepsBase ==
    ASSUME Base, Loses
    PROVE  Base'
<1>1. UNCHANGED <<vars, port, night, killed, refused>>
  BY DEF Loses
<1>2. /\ toSwitch' = toSwitch \/ (toSwitch # <<>> /\ toSwitch' = Tail(toSwitch))
      /\ toClient' = toClient \/ (toClient # <<>> /\ toClient' = Tail(toClient))
      /\ toServer' = toServer \/ (toServer # <<>> /\ toServer' = Tail(toServer))
      /\ fromServer' = fromServer \/ (fromServer # <<>> /\ fromServer' = Tail(fromServer))
  BY DEF Loses, Drop
<1>3. WireTypes'
  <2>1. toSwitch' \in Seq(EapOut)
    BY <1>2, TailType DEF Base, WireTypes
  <2>2. toClient' \in Seq(EapFrame)
    BY <1>2, TailType DEF Base, WireTypes
  <2>3. toServer' \in Seq(UdpOut)
    BY <1>2, TailType DEF Base, WireTypes
  <2>4. fromServer' \in Seq(Datagram)
    BY <1>2, TailType DEF Base, WireTypes
  <2> QED
    BY <2>1, <2>2, <2>3, <2>4 DEF WireTypes
<1>4. losses' \in 0..MaxLosses
  BY CampusAssumption DEF Loses, Base, PeerTypes
<1>5. PeerTypes'
  BY <1>1, <1>4 DEF Base, PeerTypes
<1>6. ClientOK'
  BY <1>1, OthersKeepClient DEF Base
<1>7. ~handle => toClient' = <<>>
  BY <1>2 DEF Base, Form
<1>8. Form'
  BY <1>1, <1>7, OthersKeepForm DEF Base, Form
<1> QED
  BY <1>3, <1>5, <1>6, <1>8 DEF Base

LEMMA UserKeepsBase ==
    ASSUME Base, Kill \/ Restart
    PROVE  Base'
<1>1. CASE Kill
  <2>1. WireTypes'
    BY <1>1 DEF Kill, Vanishes, Base, WireTypes
  <2>2. PeerTypes'
    BY <1>1 DEF Kill, Vanishes, Base, PeerTypes
  <2>3. ClientOK'
    BY <1>1 DEF Kill, Vanishes, Base, ClientOK, outerVars, mainVars
  <2>4. Form'
    BY <1>1 DEF Kill, Vanishes, Base, Form, InLogoff, outerVars, mainVars
  <2> QED
    BY <2>1, <2>2, <2>3, <2>4 DEF Base
<1>2. CASE Restart
  <2>1. WireTypes' /\ PeerTypes'
    BY <1>2 DEF Restart, Base, WireTypes, PeerTypes, wires, budgets
  <2>2. IInv'
    BY <1>2, RestartIsInit DEF Base
  <2>3. ClientOK'
    BY <1>2, <2>2 DEF Restart, Base, ClientOK
  <2>4. Form'
    BY <1>2 DEF Restart, Base, Form, InLogoff, wires, resourceVars
  <2> QED
    BY <2>1, <2>3, <2>4 DEF Base
<1> QED
  BY <1>1, <1>2

\* Every step keeps the types, the client's invariant and the form.
LEMMA StepKeepsBase ==
    ASSUME Base, [CampusNext]_campusVars
    PROVE  Base'
<1>1. CASE UNCHANGED campusVars
  <2>1. UNCHANGED <<vars, killed>> /\ WireTypes' /\ PeerTypes'
    BY <1>1 DEF campusVars, Base, WireTypes, PeerTypes, wires, budgets
  <2>2. ~handle => toClient' = <<>>
    BY <1>1 DEF campusVars, wires, Base, Form
  <2>3. night' => port' # "open"
    BY <1>1 DEF campusVars, Base, Form
  <2> QED
    BY <2>1, <2>2, <2>3, OthersKeepClient, OthersKeepForm DEF Base
<1>2. CASE CampusNext
  BY <1>1, <1>2, ClientKeepsBase, SwitchHearsKeepsBase, SwitchActsKeepsBase,
     ServerHearsKeepsBase, LosesKeepsBase, UserKeepsBase DEF CampusNext, Over
<1> QED
  BY <1>1, <1>2

LEMMA InitBase == CampusInit => Base
<1> SUFFICES ASSUME CampusInit PROVE Base
  OBVIOUS
<1>1. WireTypes /\ PeerTypes
  <2>1. WireTypes
    BY DEF CampusInit, WireTypes
  <2>2. night \in BOOLEAN
    <3>1. (MaxNights > 0) \in BOOLEAN
      BY CampusAssumption
    <3> QED
      BY <3>1 DEF CampusInit
  <2>3. 0 \in 0..MaxLosses
    BY CampusAssumption
  <2>4. PeerTypes
    BY <2>2, <2>3 DEF CampusInit, PeerTypes
  <2> QED
    BY <2>1, <2>4
<1>2. IInv
  BY InitIInv DEF CampusInit
<1>3. ClientOK
  BY <1>2 DEF CampusInit, ClientOK
<1>4. Form
  BY DEF CampusInit, Init, Form, InLogoff
<1> QED
  BY <1>1, <1>3, <1>4 DEF Base

LEMMA BaseInvariance == CampusSpec => []Base
<1>1. CampusInit => Base
  BY InitBase
<1>2. Base /\ [CampusNext]_campusVars => Base'
  BY StepKeepsBase
<1> QED
  BY <1>1, <1>2, PTL DEF CampusSpec

-----------------------------------------------------------------------------
(* The budget of frames                                                     *)

Bit(b) == IF b THEN 1 ELSE 0

\* The frames that are on the way or that the messages on the way can cause.
Ahead == Len(toClient) + Load(toSwitch)

\* The waits that this call of auth_8021x_Logoff has behind it.
Passed == IF pc = "offSend" THEN 2 - logoffCnt ELSE 1 - logoffCnt

\* What the client has made room for: the waits of auth_8021x_Logoff have each
\* taken a frame or found the network quiet, and a session that is online has
\* taken its SUCCESS.
Held ==
    IF InLogoff THEN Passed
    ELSE IF pc \in {"prepare", "start", "main"} THEN 2
    ELSE IF InLoop /\ success THEN 1
    ELSE 0

\* A Start goes out only after two waits.  So what is on the way, the FAILURE
\* the switch still owes for its port and what the client holds make up three
\* frames at most; the refusal of a night is one more.
Budget == Ahead + Bit(port # "closed") + Held <= 3 + Bit(night)

\* What is ahead after a step of the client.
LEMMA ClientAhead ==
    ASSUME Base, Client
    PROVE  /\ Len(toClient) \in Nat /\ Len(toClient') \in Nat
           /\ Len(toClient') <= Len(toClient)
           /\ Load(toSwitch) \in Nat
           /\ Load(toSwitch') = Load(toSwitch) + Weight(eapTx')
<1>1. IInv /\ IInv'
  BY ClientLives, ClientIsOpen, StepKeepsIInv DEF Base
<1>2. toSwitch' = Put(toSwitch, eapTx') /\ toSwitch \in Seq(EapOut)
  BY <1>1, ClientWires DEF Base, WireTypes
<1>3. eapTx' \in EapOut \cup {"none"}
  BY <1>1 DEF IInv, TypeOK, DataTypes
<1>4. Load(toSwitch) \in Nat /\ Load(toSwitch') = Load(toSwitch) + Weight(eapTx')
  BY <1>2, <1>3, LoadPut, LoadType
<1>5. toClient \in Seq(EapFrame)
  BY DEF Base, WireTypes
<1>6. \/ toClient' = <<>>
      \/ toClient' = toClient
      \/ toClient # <<>> /\ toClient' = Tail(toClient)
  BY <1>1, ClientWires DEF Base
<1>7. Len(toClient) \in Nat /\ Len(toClient') \in Nat /\ Len(toClient') <= Len(toClient)
  BY <1>5, <1>6
<1> QED
  BY <1>4, <1>7

\* A wait of the client that ends without a frame finds nothing on the way.
LEMMA QuietAhead == Quiet => Len(toClient) = 0 /\ Load(toSwitch) = 0
BY LoadEmpty DEF Quiet

LEMMA HeldType == IInv /\ Form => Held \in 0..2
BY DEF Held, Passed, InLogoff, Form, IInv, TypeOK, DataTypes

LEMMA BitType == \A b \in BOOLEAN : Bit(b) \in 0..1
BY DEF Bit

\* A step of the client keeps what it holds and what is ahead in balance, or
\* has found the network quiet, or ends the night's wait.
Balanced(n, m) ==
    \/ night' = night /\ Weight(eapTx') + Held' + m <= Held + n
    \/ night' = night /\ Quiet /\ Weight(eapTx') + Held' <= 2
    \/ Held = 2 /\ Weight(eapTx') = 0 /\ Held' = 0 /\ m <= n

LEMMA ClientBalanced ==
    ASSUME Base, Client, IInv, IInv', Form',
           NEW n \in Nat, NEW m \in Nat, m <= n, ClientHears => m + 1 <= n
    PROVE  Balanced(n, m)
<1> USE DEF Weight, Starts, Held, Passed, InLogoff, InLoop, Balanced,
            SendEap, NoEap, NoUdp, Silent
<1> USE DEF sessionVars, resourceVars, mainVars, historyVars, outerVars, logoffVars
<1>1. /\ pc \in Points /\ logoffCnt \in 0..2 /\ (pc = "offWait" => logoffCnt \in {0, 1})
      /\ ~InLoop => ~success
  BY DEF IInv, TypeOK, DataTypes, Base, Form, NoLeftovers
<1>2. CASE ClientMoves
  <2>1. night' = night
    BY <1>2 DEF ClientMoves
  <2>2. CASE OpenCapture /\ handle'
    BY <1>1, <2>1, <2>2 DEF OpenCapture, BeginLogoff
  <2>3. CASE LogoffSend
    BY <1>1, <2>1, <2>3 DEF LogoffSend
  <2>4. CASE LogoffDone
    BY <1>1, <2>1, <2>4 DEF LogoffDone
  <2>5. CASE LogoffWait /\ Quiet
    BY <1>1, <2>1, <2>5 DEF LogoffWait
  <2>6. CASE OpenSocket /\ sock'
    BY <1>1, <2>1, <2>6 DEF OpenSocket
  <2>7. CASE StartLogin
    BY <1>1, <2>1, <2>7 DEF StartLogin
  <2>8. CASE LoginTimeout /\ Quiet
    BY <1>1, <2>1, <2>8 DEF LoginTimeout, OtherStart
  <2>9. CASE LoginUnreachable
    BY <1>1, <2>1, <2>9 DEF LoginUnreachable, LoginFails, BeginLogoff
  <2>10. CASE LoopEnds \/ BeatOverdue
    BY <1>1, <2>1, <2>10 DEF LoopEnds, BeatOverdue, BreakLoop, LeaveLoop, BeginLogoff
  <2>11. CASE BeatSent \/ NoBeat
    BY <1>1, <2>1, <2>11 DEF BeatSent, NoBeat
  <2>12. CASE MainRestart \/ MainBackoff \/ MainExit
    BY <1>1, <2>1, <2>12 DEF MainRestart, MainBackoff, MainExit, MainOnly
  <2> QED
    BY <1>2, <2>2, <2>3, <2>4, <2>5, <2>6, <2>7, <2>8, <2>9, <2>10, <2>11,
       <2>12 DEF ClientMoves
<1>3. CASE ClientHears
  <2>1. night' = night /\ toClient # <<>> /\ m + 1 <= n
    BY <1>3 DEF ClientHears
  <2>2. CASE LogoffWait
    BY <1>1, <2>1, <2>2 DEF LogoffWait
  <2> DEFINE f == Head(toClient)
  <2>3. f \in EapFrame
    BY <2>1 DEF Base, WireTypes
  <2> HIDE DEF f
  <2>4. CASE LoginFrame(f)
    <3>1. PICK r \in Results : Handler(f, RecvTimes, r)
                               /\ (pc' = "eap" \/ LoginFails("eproto"))
      BY <2>4 DEF LoginFrame
    <3>2. /\ eapTx' \in {"none", "respId", "respMd5"}
          /\ eapTx' # "none" => f # "success"
          /\ success' => f = "success" \/ success
      BY <2>3, <3>1, FrameEffect
    <3> QED
      BY <1>1, <2>1, <2>4, <3>1, <3>2 DEF LoginFrame, LoginFails, BeginLogoff
  <2>5. CASE LoopFrame(f)
    <3>1. PICK r \in Results : Handler(f, times, r) /\ pc' \in {"udp", "exited"}
      BY <2>5 DEF LoopFrame
    <3>2. /\ eapTx' \in {"none", "respId", "respMd5"}
          /\ eapTx' # "none" => f # "success"
          /\ success' => f = "success" \/ success
      BY <2>3, <3>1, FrameEffect
    <3> QED
      BY <1>1, <2>1, <2>5, <3>1, <3>2 DEF LoopFrame
  <2> QED
    BY <1>3, <2>2, <2>4, <2>5 DEF ClientHears, f
<1>4. CASE ClientPolls
  BY <1>1, <1>4 DEF ClientPolls, LoopQuiet
<1>5. CASE ClientReads
  <2>1. night' = night
    BY <1>5 DEF ClientReads
  <2>2. PICK g : LoopDatagram(g)
    BY <1>5 DEF ClientReads
  <2> QED
    BY <1>1, <2>1, <2>2 DEF LoopDatagram
<1>6. CASE ClientWaits
  BY <1>1, <1>6 DEF ClientWaits, MainWait, MainOnly
<1> QED
  BY <1>2, <1>3, <1>4, <1>5, <1>6 DEF Client, ClientActs

LEMMA ClientKeepsBudget ==
    ASSUME Base, Budget, Client
    PROVE  Budget'
<1>1. IInv /\ IInv' /\ Form'
  BY ClientLives, ClientIsOpen, StepKeepsIInv, ClientKeepsBase DEF Base
<1>2. port' = port
  BY <1>1, ClientWires DEF Base
<1> DEFINE n == Load(toSwitch)
           l == Len(toClient)
           m == Len(toClient')
           w == Weight(eapTx')
           b == Bit(port # "closed")
           c == Bit(night)
           d == Bit(night')
           h == Held
           k == Held'
<1>3. l \in Nat /\ m \in Nat /\ m <= l /\ n \in Nat /\ Load(toSwitch') = n + w
  BY ClientAhead
<1>4. Quiet => l = 0 /\ n = 0
  BY QuietAhead
<1>5. ClientHears => m + 1 <= l
  BY <1>1, ClientWires DEF ClientHears, Wired, Base, WireTypes
<1>6. Balanced(l, m)
  BY <1>1, <1>3, <1>5, ClientBalanced
<1>7. b \in 0..1 /\ c \in 0..1 /\ d \in 0..1 /\ (night' = night => d = c)
  BY DEF Bit
<1>8. w \in Nat /\ h \in 0..2
  BY <1>1, HeldType, WeightType DEF Base
<1>9. k \in 0..2
  <2>1. (IInv /\ Form => Held \in 0..2)'
    BY HeldType, PTL
  <2> QED
    BY <1>1, <2>1
<1>10. l + n + b + h <= 3 + c
  BY DEF Budget, Ahead
<1>11. m + (n + w) + b + k <= 3 + d
  <2>1. \/ night' = night /\ w + k + m <= h + l
        \/ night' = night /\ Quiet /\ w + k <= 2
        \/ h = 2 /\ w = 0 /\ k = 0 /\ m <= l
    BY <1>6 DEF Balanced
  <2> HIDE DEF n, l, m, b, w, c, d, h, k
  <2>2. CASE night' = night /\ w + k + m <= h + l
    BY <1>3, <1>7, <1>8, <1>9, <1>10, <2>2
  <2>3. CASE night' = night /\ Quiet /\ w + k <= 2
    BY <1>3, <1>4, <1>7, <1>8, <1>9, <2>3
  <2>4. CASE h = 2 /\ w = 0 /\ k = 0 /\ m <= l
    BY <1>3, <1>7, <1>8, <1>10, <2>4
  <2> QED
    BY <2>1, <2>2, <2>3, <2>4
<1> QED
  BY <1>2, <1>3, <1>11 DEF Budget, Ahead

LEMMA HeldUnchanged == UNCHANGED vars => Held' = Held
BY DEF vars, logoffVars, sessionVars, Held, Passed, InLogoff, InLoop

\* What the switch sends adds no more than its frames.
LEMMA SendsAhead ==
    ASSUME WireTypes, NEW frames \in Seq(EapFrame), Sends(frames)
    PROVE  /\ Len(toClient) \in Nat /\ Len(toClient') \in Nat
           /\ Len(toClient') <= Len(toClient) + Len(frames)
BY DEF Sends, WireTypes

\* What the switch answers to the message it hears, case by case.
SwitchAnswers(f, frames) ==
    \/ f \in Starts /\ port' = "identity" /\ frames = <<"identity">>
    \/ f \in Starts /\ night /\ port' = "closed" /\ frames = NightNotice
    \/ f = "respId" /\ port = "identity" /\ port' = "challenge" /\ frames = <<"md5">>
    \/ f = "respMd5" /\ port = "challenge" /\ port' = "closed" /\ night
       /\ frames = NightNotice
    \/ f = "respMd5" /\ port = "challenge" /\ port' = "open" /\ ~night
       /\ frames = <<"success">>
    \/ f \in {"respId", "respMd5"} /\ port' = port /\ frames = <<>>
    \/ f = "logoff" /\ port = "closed" /\ port' = "closed" /\ frames = <<>>
    \/ f = "logoff" /\ port # "closed" /\ port' = "closed" /\ frames = <<"failure">>

LEMMA SwitchHearsCases ==
    ASSUME SwitchHears
    PROVE  \E frames \in Seq(EapFrame) :
              Sends(frames) /\ SwitchAnswers(Head(toSwitch), frames)
<1> DEFINE f == Head(toSwitch)
<1>1. CASE f \in Starts
  <2>1. \/ port' = "identity" /\ Sends(<<"identity">>)
        \/ night /\ port' = "closed" /\ Sends(NightNotice)
    BY <1>1 DEF SwitchHears, Starts
  <2> HIDE DEF f
  <2> QED
    BY <1>1, <2>1, FramesTyped DEF SwitchAnswers, f
<1>2. CASE f = "respId"
  <2>1. IF port = "identity" THEN port' = "challenge" /\ Sends(<<"md5">>)
                             ELSE UNCHANGED port /\ Sends(<<>>)
    BY <1>2 DEF SwitchHears
  <2> HIDE DEF f
  <2> QED
    BY <1>2, <2>1, FramesTyped DEF SwitchAnswers, f
<1>3. CASE f = "respMd5"
  <2>1. IF port # "challenge" THEN UNCHANGED port /\ Sends(<<>>)
        ELSE IF night THEN port' = "closed" /\ Sends(NightNotice)
        ELSE port' = "open" /\ Sends(<<"success">>)
    BY <1>3 DEF SwitchHears
  <2> HIDE DEF f
  <2> QED
    BY <1>3, <2>1, FramesTyped DEF SwitchAnswers, f
<1>4. CASE f = "logoff"
  <2>1. port' = "closed" /\ Sends(IF port = "closed" THEN <<>> ELSE <<"failure">>)
    BY <1>4 DEF SwitchHears
  <2> HIDE DEF f
  <2> QED
    BY <1>4, <2>1, FramesTyped DEF SwitchAnswers, f
<1> QED
  BY <1>1, <1>2, <1>3, <1>4 DEF SwitchHears, Starts

LEMMA FramesLength ==
    /\ Len(<<>>) = 0 /\ Len(NightNotice) = 2 /\ Len(<<"identity">>) = 1
    /\ Len(<<"md5">>) = 1 /\ Len(<<"success">>) = 1 /\ Len(<<"failure">>) = 1
BY DEF NightNotice

LEMMA HeldRange ==
    ASSUME Base
    PROVE  Held \in 0..2
<1>1. IInv \/ pc = "exited"
  BY DEF Base, ClientOK
<1>2. pc = "exited" => Held = 0
  BY DEF Held, InLogoff, InLoop
<1> QED
  BY <1>1, <1>2, HeldType DEF Base

LEMMA SwitchHearsKeepsBudget ==
    ASSUME Base, Budget, SwitchHears
    PROVE  Budget'
<1> DEFINE f == Head(toSwitch)
           w == Weight(f)
           n == Load(Tail(toSwitch))
           l == Len(toClient)
           m == Len(toClient')
           b == Bit(port # "closed")
           d == Bit(port' # "closed")
           c == Bit(night)
           h == Held
<1>1. toSwitch \in Seq(EapOut) /\ toSwitch # <<>> /\ toSwitch' = Tail(toSwitch)
  BY DEF SwitchHears, Base, WireTypes
<1>2. Load(toSwitch) = w + n
  BY <1>1, LoadTail
<1>3. n \in Nat
  <2>1. Tail(toSwitch) \in Seq(EapOut)
    BY <1>1
  <2> QED
    BY <2>1, LoadType
<1>4. night' = night /\ Held' = h
  BY HeldUnchanged DEF SwitchHears
<1>5. c \in 0..1 /\ h \in 0..2
  BY HeldRange DEF Bit
<1>6. l + (w + n) + b + h <= 3 + c
  BY <1>2 DEF Budget, Ahead
<1> PICK frames \in Seq(EapFrame) : Sends(frames) /\ SwitchAnswers(f, frames)
  BY SwitchHearsCases
<1> DEFINE k == Len(frames)
<1>7. l \in Nat /\ m \in Nat /\ m <= l + k
  BY SendsAhead DEF Base
<1>8. k \in 0..2 /\ b \in 0..1 /\ d \in 0..1 /\ w \in 0..2
      /\ k + d <= w + b
  <2> HIDE DEF f
  <2>1. b = (IF port = "closed" THEN 0 ELSE 1) /\ d = (IF port' = "closed" THEN 0 ELSE 1)
    BY DEF Bit
  <2> HIDE DEF b, d
  <2>2. CASE f \in Starts
    <3>1. w = 2
      BY <2>2 DEF Weight
    <3>2. k = 1 \/ (k = 2 /\ d = 0)
      BY <2>1, <2>2, FramesLength DEF SwitchAnswers, Starts
    <3> HIDE DEF w, k
    <3> QED
      BY <2>1, <3>1, <3>2
  <2>3. CASE f \in {"respId", "respMd5"}
    <3>1. w = 1
      BY <2>3 DEF Weight, Starts
    <3>2. \/ k = 1 /\ b = 1
          \/ k = 2 /\ b = 1 /\ d = 0
          \/ k = 0 /\ d = b
      BY <2>1, <2>3, FramesLength DEF SwitchAnswers, Starts
    <3> HIDE DEF w, k
    <3> QED
      BY <2>1, <3>1, <3>2
  <2>4. CASE f = "logoff"
    <3>1. w = 0
      BY <2>4 DEF Weight, Starts
    <3>2. k = b /\ d = 0
      BY <2>1, <2>4, FramesLength DEF SwitchAnswers, Starts
    <3> HIDE DEF w, k
    <3> QED
      BY <2>1, <3>1, <3>2
  <2> QED
    BY <2>2, <2>3, <2>4 DEF SwitchAnswers
<1>9. m + n + d + h <= 3 + c
  <2> HIDE DEF f, w, n, l, m, b, d, c, h, k
  <2> QED
    BY <1>3, <1>5, <1>6, <1>7, <1>8
<1> QED
  BY <1>1, <1>4, <1>9 DEF Budget, Ahead

LEMMA SwitchActsKeepsBudget ==
    ASSUME Base, Budget, SwitchRepeats \/ SwitchDrops
    PROVE  Budget'
<1> DEFINE n == Load(toSwitch)
           l == Len(toClient)
           m == Len(toClient')
           b == Bit(port # "closed")
           d == Bit(port' # "closed")
           c == Bit(night)
           e == Bit(night')
           h == Held
<1>1. n \in Nat
  BY LoadType DEF Base, WireTypes
<1>2. toSwitch' = toSwitch /\ Held' = h
  BY HeldUnchanged DEF SwitchRepeats, SwitchDrops
<1>3. l + n + b + h <= 3 + c
  BY DEF Budget, Ahead
<1>4. b \in 0..1 /\ d \in 0..1 /\ c \in 0..1 /\ e \in 0..1 /\ h \in 0..2
  BY HeldRange DEF Bit
<1>5. CASE SwitchRepeats
  <2>1. PICK frames \in Seq(EapFrame) : Sends(frames) /\ Len(frames) = 1
    BY <1>5, FramesLength, FramesTyped DEF SwitchRepeats
  <2>2. h \in 0..1
    BY <1>5 DEF SwitchRepeats, Held, InLoop, InLogoff
  <2>3. l = 0 /\ n = 0 /\ e = c
    BY <1>5, QuietAhead DEF SwitchRepeats
  <2>4. m \in Nat /\ m <= l + Len(frames)
    BY <2>1, SendsAhead DEF Base
  <2>5. m + n + d + h <= 3 + e
    <3> HIDE DEF n, l, m, b, d, c, e, h
    <3> QED
      BY <1>4, <2>1, <2>2, <2>3, <2>4
  <2> QED
    BY <1>2, <2>5 DEF Budget, Ahead
<1>6. CASE SwitchDrops
  <2>1. PICK frames \in Seq(EapFrame) :
           Sends(frames) /\ \/ Len(frames) = 1
                            \/ night' = TRUE /\ Len(frames) = 2
    BY <1>6, FramesLength, FramesTyped DEF SwitchDrops
  <2>2. b = 1 /\ d = 0 /\ c = 0
    BY <1>6 DEF SwitchDrops, Bit, Base, Form
  <2>3. Len(frames) = 1 \/ (Len(frames) = 2 /\ e = 1)
    BY <2>1 DEF Bit
  <2>4. l \in Nat /\ m \in Nat /\ m <= l + Len(frames)
    BY <2>1, SendsAhead DEF Base
  <2>5. m + n + d + h <= 3 + e
    <3> DEFINE k == Len(frames)
    <3>1. (k = 1 \/ (k = 2 /\ e = 1)) /\ l \in Nat /\ m \in Nat /\ m <= l + k
      BY <2>3, <2>4
    <3> HIDE DEF n, l, m, b, d, c, e, h, k
    <3> QED
      BY <1>1, <1>3, <1>4, <2>2, <3>1
  <2> QED
    BY <1>2, <2>5 DEF Budget, Ahead
<1> QED
  BY <1>5, <1>6

\* What only takes from the wires, or leaves them, keeps the budget.
LEMMA LessKeepsBudget ==
    ASSUME Base, Budget, port' = port, night' = night, Held' \in Int, Held' <= Held,
           toSwitch' = toSwitch \/ (toSwitch # <<>> /\ toSwitch' = Tail(toSwitch)),
           \/ toClient' = toClient
           \/ toClient' = <<>>
           \/ toClient # <<>> /\ toClient' = Tail(toClient)
    PROVE  Budget'
<1>1. Load(toSwitch) \in Nat /\ Load(toSwitch') \in Nat /\ Load(toSwitch') <= Load(toSwitch)
  <2>1. toSwitch \in Seq(EapOut)
    BY DEF Base, WireTypes
  <2>2. CASE toSwitch' = toSwitch
    BY <2>1, <2>2, LoadType
  <2>3. CASE toSwitch # <<>> /\ toSwitch' = Tail(toSwitch)
    <3>1. Load(toSwitch) = Weight(Head(toSwitch)) + Load(toSwitch')
      BY <2>1, <2>3, LoadTail
    <3>2. Load(toSwitch) \in Nat /\ Load(toSwitch') \in Nat
      BY <2>1, <2>3, TailType, LoadType
    <3> QED
      BY <3>1, <3>2, WeightType
  <2> QED
    BY <2>2, <2>3
<1>2. Len(toClient) \in Nat /\ Len(toClient') \in Nat /\ Len(toClient') <= Len(toClient)
  BY DEF Base, WireTypes
<1>3. Held \in Int
  BY HeldRange
<1>4. Bit(port # "closed") \in 0..1 /\ Bit(night) \in 0..1
  BY DEF Bit
<1> QED
  BY <1>1, <1>2, <1>3, <1>4 DEF Budget, Ahead

LEMMA StepKeepsBudget ==
    ASSUME Base, Budget, [CampusNext]_campusVars
    PROVE  Budget'
<1>1. Held \in 0..2
  BY HeldRange
<1>2. CASE UNCHANGED campusVars
  BY <1>1, <1>2, HeldUnchanged, LessKeepsBudget DEF campusVars, wires
<1>3. CASE ServerHears
  BY <1>1, <1>3, HeldUnchanged, LessKeepsBudget DEF ServerHears
<1>4. CASE Loses
  BY <1>1, <1>4, HeldUnchanged, LessKeepsBudget DEF Loses, Drop
<1>5. CASE Kill \/ Restart
  <2>1. Held' = 0
    BY <1>5 DEF Kill, Vanishes, Restart, Held, InLogoff, InLoop
  <2> QED
    BY <1>1, <1>5, <2>1, LessKeepsBudget DEF Kill, Vanishes, Restart, wires
<1> QED
  BY <1>2, <1>3, <1>4, <1>5, ClientKeepsBudget, SwitchHearsKeepsBudget,
     SwitchActsKeepsBudget DEF CampusNext, Over

LEMMA InitBudget == CampusInit => Budget
BY LoadEmpty DEF CampusInit, Init, Budget, Ahead, Held, InLogoff, InLoop, Bit

LEMMA BudgetInvariance == CampusSpec => []Budget
<1>1. CampusInit => Budget
  BY InitBudget
<1>2. Base /\ Budget /\ [CampusNext]_campusVars => Budget'
  BY StepKeepsBudget
<1> QED
  BY <1>1, <1>2, BaseInvariance, PTL DEF CampusSpec

-----------------------------------------------------------------------------
(* A client that counts as online is                                        *)

FailureIn(q) == \E i \in 1..Len(q) : q[i] = "failure"

\* Every SUCCESS on the way still holds, or a FAILURE follows it.
Backed(q, open) ==
    \A i \in 1..Len(q) :
        q[i] = "success" => open \/ \E k \in (i + 1)..Len(q) : q[k] = "failure"

Online == InLoop /\ success

OnlineBacked == Online => port = "open" \/ FailureIn(toClient)

Backing == Backed(toClient, port = "open") /\ OnlineBacked

LEMMA FailureSet ==
    ASSUME NEW S, NEW q \in Seq(S)
    PROVE  FailureIn(q) <=> "failure" \in ToSet(q)
BY DEF FailureIn, ToSet

LEMMA BackedTail ==
    ASSUME NEW S, NEW q \in Seq(S), q # <<>>, NEW open \in BOOLEAN, Backed(q, open)
    PROVE  /\ Backed(Tail(q), open)
           /\ Head(q) = "success" => open \/ FailureIn(Tail(q))
           /\ FailureIn(q) /\ Head(q) # "failure" => FailureIn(Tail(q))
<1> DEFINE r == Tail(q)
<1>1. Len(q) \in Nat \ {0} /\ Len(r) = Len(q) - 1
      /\ \A i \in 1..Len(r) : r[i] = q[i + 1]
  OBVIOUS
<1>2. Head(q) = q[1]
  OBVIOUS
<1> HIDE DEF r
<1>3. Backed(r, open)
  <2> SUFFICES ASSUME NEW i \in 1..Len(r), r[i] = "success", ~open
               PROVE  \E k \in (i + 1)..Len(r) : r[k] = "failure"
    BY DEF Backed
  <2>1. i + 1 \in 1..Len(q) /\ q[i + 1] = "success"
    BY <1>1
  <2>2. PICK k \in ((i + 1) + 1)..Len(q) : q[k] = "failure"
    BY <2>1 DEF Backed
  <2>3. k - 1 \in (i + 1)..Len(r) /\ k - 1 \in 1..Len(r) /\ (k - 1) + 1 = k
    BY <1>1, <2>2
  <2>4. r[k - 1] = "failure"
    BY <1>1, <2>2, <2>3
  <2> QED
    BY <2>3, <2>4
<1>4. ASSUME NEW k \in 2..Len(q), q[k] = "failure" PROVE FailureIn(r)
  <2>1. k - 1 \in 1..Len(r) /\ (k - 1) + 1 = k
    BY <1>1
  <2>2. r[k - 1] = "failure"
    BY <1>1, <1>4, <2>1
  <2> QED
    BY <2>1, <2>2 DEF FailureIn
<1>5. Head(q) = "success" => open \/ FailureIn(r)
  <2> SUFFICES ASSUME q[1] = "success", ~open PROVE FailureIn(r)
    BY <1>2
  <2>1. 1 \in 1..Len(q)
    BY <1>1
  <2>2. PICK k \in (1 + 1)..Len(q) : q[k] = "failure"
    BY <2>1 DEF Backed
  <2>3. k \in 2..Len(q)
    BY <1>1, <2>2
  <2> QED
    BY <1>4, <2>2, <2>3
<1>6. FailureIn(q) /\ Head(q) # "failure" => FailureIn(r)
  <2> SUFFICES ASSUME FailureIn(q), q[1] # "failure" PROVE FailureIn(r)
    BY <1>2
  <2>1. PICK k \in 1..Len(q) : q[k] = "failure"
    BY DEF FailureIn
  <2>2. k \in 2..Len(q)
    BY <1>1, <2>1
  <2> QED
    BY <1>4, <2>1, <2>2
<1> QED
  BY <1>3, <1>5, <1>6 DEF r

\* Frames that are appended back what was on the way as before, if the port
\* stays open or one of them is a FAILURE.
LEMMA BackedAppend ==
    ASSUME NEW S, NEW q \in Seq(S), NEW frames \in Seq(S),
           NEW open \in BOOLEAN, NEW now \in BOOLEAN, Backed(q, open),
           \/ /\ \A i \in 1..Len(frames) : frames[i] = "success" => now
              /\ open => now
           \/ /\ \A i \in 1..Len(frames) : frames[i] # "success"
              /\ FailureIn(frames)
           \/ /\ \A i \in 1..Len(frames) : frames[i] # "success"
              /\ \A i \in 1..Len(q) : q[i] # "success"
    PROVE  /\ Backed(q \o frames, now)
           /\ FailureIn(q) \/ FailureIn(frames) => FailureIn(q \o frames)
<1> DEFINE r == q \o frames
           N == Len(q)
           M == Len(frames)
<1>1. /\ N \in Nat /\ M \in Nat /\ Len(r) = N + M
      /\ \A i \in 1..N : r[i] = q[i]
      /\ \A i \in (N + 1)..(N + M) : r[i] = frames[i - N]
  OBVIOUS
<1> HIDE DEF r
<1>2. ASSUME NEW k \in 1..M, frames[k] = "failure"
      PROVE  N + k \in (N + 1)..Len(r) /\ r[N + k] = "failure"
  <2>1. N + k \in (N + 1)..(N + M) /\ (N + k) - N = k
    BY <1>1
  <2> QED
    BY <1>1, <1>2, <2>1
<1>3. FailureIn(q) \/ FailureIn(frames) => FailureIn(r)
  <2>1. ASSUME FailureIn(q) PROVE FailureIn(r)
    <3>1. PICK k \in 1..N : q[k] = "failure"
      BY <2>1 DEF FailureIn
    <3>2. k \in 1..Len(r) /\ r[k] = "failure"
      BY <1>1, <3>1
    <3> QED
      BY <3>2 DEF FailureIn
  <2>2. ASSUME FailureIn(frames) PROVE FailureIn(r)
    <3>1. PICK k \in 1..M : frames[k] = "failure"
      BY <2>2 DEF FailureIn
    <3>2. N + k \in 1..Len(r) /\ r[N + k] = "failure"
      BY <1>1, <1>2, <3>1
    <3> QED
      BY <3>2 DEF FailureIn
  <2> QED
    BY <2>1, <2>2
<1>4. Backed(r, now)
  <2> SUFFICES ASSUME NEW i \in 1..Len(r), r[i] = "success", ~now
               PROVE  \E k \in (i + 1)..Len(r) : r[k] = "failure"
    BY DEF Backed
  <2>1. i \in 1..N
    <3> SUFFICES ASSUME i \notin 1..N PROVE FALSE
      OBVIOUS
    <3>1. i \in (N + 1)..(N + M) /\ i - N \in 1..M
      BY <1>1
    <3>2. frames[i - N] = "success"
      BY <1>1, <3>1
    <3> QED
      BY <3>1, <3>2
  <2>2. q[i] = "success"
    BY <1>1, <2>1
  <2>3. CASE open => now
    <3>1. PICK k \in (i + 1)..N : q[k] = "failure"
      BY <2>1, <2>2, <2>3 DEF Backed
    <3>2. k \in 1..N /\ k \in (i + 1)..Len(r)
      BY <1>1, <2>1, <3>1
    <3>3. r[k] = "failure"
      BY <1>1, <3>1, <3>2
    <3> QED
      BY <3>2, <3>3
  <2>4. CASE FailureIn(frames)
    <3>1. PICK k \in 1..M : frames[k] = "failure"
      BY <2>4 DEF FailureIn
    <3>2. N + k \in (N + 1)..Len(r) /\ r[N + k] = "failure"
      BY <1>2, <3>1
    <3>3. N + k \in (i + 1)..Len(r)
      BY <1>1, <2>1, <3>2
    <3> QED
      BY <3>2, <3>3
  <2> QED
    BY <2>1, <2>2, <2>3, <2>4
<1> QED
  BY <1>3, <1>4 DEF r

\* A client is online after a step because it was, or has heard SUCCESS.
LEMMA ClientOnline ==
    ASSUME Base, Client, Online'
    PROVE  \/ toClient' = toClient /\ Online
           \/ /\ toClient # <<>> /\ toClient' = Tail(toClient)
              /\ Head(toClient) = "success" \/ (Online /\ Head(toClient) # "failure")
<1>1. IInv /\ IInv'
  BY ClientLives, ClientIsOpen, StepKeepsIInv DEF Base
<1>2. handle' /\ pc' \in {"eap", "udp", "beat"} /\ success'
  BY <1>1 DEF Online, InLoop, IInv, Resources
<1>3. ~InLoop => ~success
  BY <1>1 DEF IInv, NoLeftovers
<1> USE DEF sessionVars, resourceVars, outerVars, mainVars, historyVars, logoffVars, Online, InLoop
<1>4. CASE ClientHears
  <2> DEFINE f == Head(toClient)
  <2>1. toClient # <<>> /\ toClient' = Tail(toClient)
    BY <1>2, <1>4 DEF ClientHears, Wired
  <2>2. f \in EapFrame
    BY <2>1 DEF Base, WireTypes
  <2>3. LoginFrame(f) \/ LoopFrame(f)
    BY <1>2, <1>4 DEF ClientHears, LogoffWait
  <2>4. PICK r, t : r \in Results /\ Handler(f, t, r)
    BY <2>3 DEF LoginFrame, LoopFrame
  <2>5. f # "failure" /\ (f = "success" \/ success)
    <3> HIDE DEF f
    <3> QED
      BY <1>2, <2>2, <2>4, FrameEffect
  <2>6. success => InLoop
    BY <1>3
  <2> QED
    BY <2>1, <2>5, <2>6
<1>5. CASE ClientMoves
  <2>1. toClient' = toClient
    BY <1>2, <1>5 DEF ClientMoves, Wired
  <2>2. Online
    BY <1>2, <1>3, <1>5
       DEF ClientMoves, OpenCapture, BeginLogoff, LogoffSend, LogoffDone, OpenSocket,
           StartLogin, LoopEnds, BeatOverdue, BreakLoop, LeaveLoop, BeatSent, NoBeat,
           MainRestart, MainBackoff, MainExit, LogoffWait, LoginTimeout,
           LoginUnreachable, LoginFails
  <2> QED
    BY <2>1, <2>2
<1>6. CASE ClientPolls
  BY <1>2, <1>3, <1>6 DEF ClientPolls, Wired, LoopQuiet
<1>7. CASE ClientReads
  <2>1. toClient' = toClient
    BY <1>2, <1>7 DEF ClientReads, Wired
  <2>2. PICK g : LoopDatagram(g)
    BY <1>7 DEF ClientReads
  <2> QED
    BY <1>2, <1>3, <2>1, <2>2 DEF LoopDatagram
<1>8. CASE ClientWaits
  BY <1>2, <1>3, <1>8 DEF ClientWaits, MainWait, MainOnly
<1> QED
  BY <1>4, <1>5, <1>6, <1>7, <1>8 DEF Client, ClientActs

LEMMA ClientKeepsBacking ==
    ASSUME Base, Backing, Client
    PROVE  Backing'
<1>1. IInv /\ IInv'
  BY ClientLives, ClientIsOpen, StepKeepsIInv DEF Base
<1>2. port' = port
  BY <1>1, ClientWires DEF Base
<1>3. toClient \in Seq(EapFrame)
  BY DEF Base, WireTypes
<1> DEFINE open == port = "open"
<1>4. open \in BOOLEAN /\ Backed(toClient, open)
  BY DEF Backing
<1>5. \/ toClient' = <<>>
      \/ toClient' = toClient
      \/ toClient # <<>> /\ toClient' = Tail(toClient)
  BY <1>1, ClientWires DEF Base
<1>6. Backed(toClient', open)
  <2>1. CASE toClient' = <<>>
    BY <2>1 DEF Backed
  <2>2. CASE toClient' = toClient
    BY <1>4, <2>2
  <2>3. CASE toClient # <<>> /\ toClient' = Tail(toClient)
    <3> HIDE DEF open
    <3> QED
      BY <1>3, <1>4, <2>3, BackedTail
  <2> QED
    BY <1>5, <2>1, <2>2, <2>3
<1>7. Online' => port' = "open" \/ FailureIn(toClient')
  <2> SUFFICES ASSUME Online', ~open PROVE FailureIn(toClient')
    BY <1>2
  <2>1. CASE toClient' = toClient /\ Online
    BY <2>1 DEF Backing, OnlineBacked
  <2>2. CASE /\ toClient # <<>> /\ toClient' = Tail(toClient)
             /\ Head(toClient) = "success" \/ (Online /\ Head(toClient) # "failure")
    <3>1. Online => FailureIn(toClient)
      BY DEF Backing, OnlineBacked
    <3> HIDE DEF open
    <3> QED
      BY <1>3, <1>4, <2>2, <3>1, BackedTail
  <2> QED
    BY <2>1, <2>2, ClientOnline
<1> QED
  BY <1>2, <1>6, <1>7 DEF Backing, OnlineBacked

\* When a Start is heard at an open port, the budget leaves no room for a
\* SUCCESS on the way or a client that is online.
LEMMA StartFindsNoneOnline ==
    ASSUME Base, Budget, toSwitch # <<>>, Head(toSwitch) \in Starts, port = "open"
    PROVE  ~Online /\ toClient = <<>>
<1>1. Load(toSwitch) \in Nat /\ Load(toSwitch) >= 2
  <2>1. toSwitch \in Seq(EapOut) /\ 1 \in 1..Len(toSwitch) /\ Head(toSwitch) = toSwitch[1]
    BY DEF Base, WireTypes
  <2>2. Weight(toSwitch[1]) = 2
    BY <2>1 DEF Weight
  <2> QED
    BY <2>1, <2>2, LoadType
<1>2. Bit(port # "closed") = 1 /\ Bit(night) = 0
  BY DEF Bit, Base, Form
<1>3. Held \in 0..2 /\ (Online => Held = 1)
  BY HeldRange DEF Held, Online, InLogoff, InLoop
<1>4. Len(toClient) \in Nat
  BY DEF Base, WireTypes
<1>5. Len(toClient) = 0 /\ Held = 0
  BY <1>1, <1>2, <1>3, <1>4 DEF Budget, Ahead
<1>6. toClient = <<>>
  BY <1>5 DEF Base, WireTypes
<1> QED
  BY <1>3, <1>5, <1>6

\* Frames of the switch keep the backing under the conditions of BackedAppend.
LEMMA SendsKeepsBacking ==
    ASSUME Base, Backing, UNCHANGED vars, NEW frames \in Seq(EapFrame), Sends(frames),
           \/ /\ \A i \in 1..Len(frames) : frames[i] = "success" => port' = "open"
              /\ port = "open" => port' = "open"
           \/ /\ \A i \in 1..Len(frames) : frames[i] # "success"
              /\ FailureIn(frames)
           \/ /\ \A i \in 1..Len(frames) : frames[i] # "success"
              /\ ~Online /\ toClient = <<>>
    PROVE  Backing'
<1> DEFINE open == port = "open"
           now == port' = "open"
<1>1. toClient \in Seq(EapFrame) /\ Backed(toClient, open) /\ (Online' <=> Online)
      /\ (Online => handle)
  <2>1. Online' <=> Online
    BY DEF Online, InLoop, vars, sessionVars
  <2>2. Online => handle
    BY DEF Online, InLoop, Base, ClientOK, IInv, Resources
  <2> QED
    BY <2>1, <2>2 DEF Base, WireTypes, Backing
<1>2. CASE ~handle
  <2>1. toClient' = <<>>
    BY <1>2 DEF Sends, Base, Form
  <2> QED
    BY <1>1, <1>2, <2>1 DEF Backing, OnlineBacked, Backed
<1>3. CASE handle
  <2>1. toClient' = toClient \o frames
    BY <1>3 DEF Sends
  <2>2. open \in BOOLEAN /\ now \in BOOLEAN
    OBVIOUS
  <2>3. \/ /\ \A i \in 1..Len(frames) : frames[i] = "success" => now
           /\ open => now
        \/ /\ \A i \in 1..Len(frames) : frames[i] # "success"
           /\ FailureIn(frames)
        \/ /\ \A i \in 1..Len(frames) : frames[i] # "success"
           /\ \A i \in 1..Len(toClient) : toClient[i] # "success"
    OBVIOUS
  <2>4. Online => \/ open /\ now
                  \/ FailureIn(toClient) \/ FailureIn(frames)
    BY DEF Backing, OnlineBacked
  <2> HIDE DEF open, now
  <2>5. /\ Backed(toClient', now)
        /\ FailureIn(toClient) \/ FailureIn(frames) => FailureIn(toClient')
    BY <1>1, <2>1, <2>2, <2>3, BackedAppend
  <2>6. Backed(toClient', now) /\ (Online' => now \/ FailureIn(toClient'))
    BY <1>1, <2>4, <2>5
  <2> QED
    BY <2>6 DEF Backing, OnlineBacked, now
<1> QED
  BY <1>2, <1>3

\* Which frames are no SUCCESS, and which contain a FAILURE.
LEMMA FramesSay ==
    /\ \A f \in {<<>>, NightNotice, <<"identity">>, <<"md5">>, <<"failure">>} :
          \A i \in 1..Len(f) : f[i] # "success"
    /\ FailureIn(NightNotice) /\ FailureIn(<<"failure">>)
<1>1. \A i \in 1..Len(NightNotice) : NightNotice[i] # "success"
  BY DEF NightNotice
<1>2. FailureIn(NightNotice)
  <2>1. 2 \in 1..Len(NightNotice) /\ NightNotice[2] = "failure"
    BY DEF NightNotice
  <2> QED
    BY <2>1 DEF FailureIn
<1>3. FailureIn(<<"failure">>)
  <2>1. 1 \in 1..Len(<<"failure">>) /\ <<"failure">>[1] = "failure"
    OBVIOUS
  <2> QED
    BY <2>1 DEF FailureIn
<1>4. /\ \A i \in 1..Len(<<>>) : <<>>[i] # "success"
      /\ \A i \in 1..Len(<<"identity">>) : <<"identity">>[i] # "success"
      /\ \A i \in 1..Len(<<"md5">>) : <<"md5">>[i] # "success"
      /\ \A i \in 1..Len(<<"failure">>) : <<"failure">>[i] # "success"
  OBVIOUS
<1> QED
  BY <1>1, <1>2, <1>3, <1>4

LEMMA SwitchKeepsBacking ==
    ASSUME Base, Budget, Backing, SwitchHears \/ SwitchRepeats \/ SwitchDrops
    PROVE  Backing'
<1>1. UNCHANGED vars
  BY DEF SwitchHears, SwitchRepeats, SwitchDrops
<1>2. CASE SwitchHears
  <2> DEFINE f == Head(toSwitch)
  <2>1. PICK frames \in Seq(EapFrame) : Sends(frames) /\ SwitchAnswers(f, frames)
    BY <1>2, SwitchHearsCases
  <2>2. toSwitch # <<>>
    BY <1>2 DEF SwitchHears
  <2>3. port = "open" /\ f \in Starts => ~Online /\ toClient = <<>>
    BY <2>2, StartFindsNoneOnline
  <2> HIDE DEF f
  <2>4. \/ /\ \A i \in 1..Len(frames) : frames[i] = "success" => port' = "open"
           /\ port = "open" => port' = "open"
        \/ /\ \A i \in 1..Len(frames) : frames[i] # "success"
           /\ FailureIn(frames)
        \/ /\ \A i \in 1..Len(frames) : frames[i] # "success"
           /\ ~Online /\ toClient = <<>>
    <3>1. CASE frames \in {NightNotice, <<"failure">>}
      BY <3>1, FramesSay
    <3>2. CASE frames = <<"identity">> /\ f \in Starts
      BY <2>3, <3>2, FramesSay
    <3>3. CASE /\ frames \in {<<>>, <<"md5">>}
               /\ port = "open" => port' = "open"
      BY <3>3, FramesSay
    <3>4. CASE port' = "open"
      BY <3>4
    <3> QED
      BY <2>1, <3>1, <3>2, <3>3, <3>4 DEF SwitchAnswers
  <2> QED
    BY <1>1, <2>1, <2>4, SendsKeepsBacking
<1>3. CASE SwitchRepeats
  BY <1>1, <1>3, FramesTyped, FramesSay, SendsKeepsBacking DEF SwitchRepeats
<1>4. CASE SwitchDrops
  BY <1>1, <1>4, FramesTyped, FramesSay, SendsKeepsBacking DEF SwitchDrops
<1> QED
  BY <1>2, <1>3, <1>4

LEMMA LosesKeepsBacking ==
    ASSUME Base, Backing, Loses, "failure" \notin Losable
    PROVE  Backing'
<1>1. port' = port /\ (Online' <=> Online)
  BY DEF Loses, Online, InLoop, vars, sessionVars
<1>2. \/ toClient' = toClient
      \/ toClient # <<>> /\ Head(toClient) # "failure" /\ toClient' = Tail(toClient)
  BY DEF Loses, Drop
<1>3. CASE toClient' = toClient
  BY <1>1, <1>3 DEF Backing, OnlineBacked
<1>4. CASE toClient # <<>> /\ Head(toClient) # "failure" /\ toClient' = Tail(toClient)
  <2> DEFINE open == port = "open"
  <2>1. open \in BOOLEAN /\ toClient \in Seq(EapFrame) /\ Backed(toClient, open)
        /\ (Online => open \/ FailureIn(toClient))
    BY DEF Base, WireTypes, Backing, OnlineBacked
  <2> HIDE DEF open
  <2>2. Backed(toClient', open) /\ (FailureIn(toClient) => FailureIn(toClient'))
    BY <1>4, <2>1, BackedTail
  <2>3. Backed(toClient', open) /\ (Online => open \/ FailureIn(toClient'))
    BY <2>1, <2>2
  <2> QED
    BY <1>1, <2>3 DEF Backing, OnlineBacked, open
<1> QED
  BY <1>2, <1>3, <1>4

LEMMA StepKeepsBacking ==
    ASSUME Base, Budget, Backing, [CampusNext]_campusVars, "failure" \notin Losable
    PROVE  Backing'
<1>1. CASE UNCHANGED campusVars
  BY <1>1 DEF campusVars, vars, sessionVars, wires, Backing, OnlineBacked, Online, InLoop
<1>2. CASE ServerHears
  BY <1>2 DEF ServerHears, vars, sessionVars, Backing, OnlineBacked, Online, InLoop
<1>3. CASE Kill
  BY <1>3 DEF Kill, Vanishes, Backing, Backed, OnlineBacked, Online, InLoop
<1>4. CASE Restart
  BY <1>4 DEF Restart, wires, Backing, OnlineBacked, Online, InLoop
<1> QED
  BY <1>1, <1>2, <1>3, <1>4, ClientKeepsBacking, SwitchKeepsBacking,
     LosesKeepsBacking DEF CampusNext, Over

-----------------------------------------------------------------------------
(* The Logoffs of a client that is leaving                                  *)

AllOff(q) == \A i \in 1..Len(q) : q[i] = "logoff"

\* The last k messages of q are Logoffs.
OffBehind(q, k) ==
    /\ k <= Len(q)
    /\ \A i \in 1..Len(q) : i > Len(q) - k => q[i] = "logoff"

LoggedOut(k) ==
    \/ port = "closed" /\ AllOff(toSwitch)
    \/ OffBehind(toSwitch, k)

Parting == InLogoff \/ pc = "main" \/ (pc = "exited" /\ ~killed)

\* One more Logoff than the network may still lose, less those not yet sent.
Due == 1 + (MaxLosses - losses) - (IF InLogoff THEN logoffCnt ELSE 0)

\* Each Logoff that was sent has closed the port for good, is on its way
\* behind all else, or was lost, which happens once at most.
SaidOff == Parting => LoggedOut(Due)

LEMMA OffAppend ==
    ASSUME NEW q \in Seq(EapOut), NEW k \in Int
    PROVE  /\ AllOff(q) => AllOff(Append(q, "logoff"))
           /\ OffBehind(q, k) => OffBehind(Append(q, "logoff"), k + 1)
<1> DEFINE r == Append(q, "logoff")
<1>1. /\ Len(q) \in Nat /\ Len(r) = Len(q) + 1 /\ r[Len(q) + 1] = "logoff"
      /\ \A i \in 1..Len(q) : r[i] = q[i]
  OBVIOUS
<1> HIDE DEF r
<1>2. AllOff(q) => AllOff(r)
  BY <1>1 DEF AllOff
<1>3. OffBehind(q, k) => OffBehind(r, k + 1)
  <2> SUFFICES ASSUME OffBehind(q, k) PROVE OffBehind(r, k + 1)
    OBVIOUS
  <2>1. k + 1 <= Len(r)
    BY <1>1 DEF OffBehind
  <2>2. ASSUME NEW i \in 1..Len(r), i > Len(r) - (k + 1) PROVE r[i] = "logoff"
    <3>1. CASE i = Len(q) + 1
      BY <1>1, <3>1
    <3>2. CASE i \in 1..Len(q)
      <4>1. i > Len(q) - k
        BY <1>1, <2>2
      <4> QED
        BY <1>1, <3>2, <4>1 DEF OffBehind
    <3> QED
      BY <1>1, <3>1, <3>2
  <2> QED
    BY <2>1, <2>2 DEF OffBehind
<1> QED
  BY <1>2, <1>3 DEF r

LEMMA OffTail ==
    ASSUME NEW q \in Seq(EapOut), q # <<>>, NEW k \in Int
    PROVE  /\ AllOff(q) => AllOff(Tail(q)) /\ Head(q) = "logoff"
           /\ OffBehind(q, k) => OffBehind(Tail(q), k - 1)
           /\ OffBehind(q, k) => \/ OffBehind(Tail(q), k)
                                 \/ AllOff(Tail(q)) /\ Head(q) = "logoff"
<1> DEFINE r == Tail(q)
<1>1. /\ Len(q) \in Nat \ {0} /\ Len(r) = Len(q) - 1 /\ Head(q) = q[1]
      /\ \A i \in 1..Len(r) : r[i] = q[i + 1] /\ i + 1 \in 1..Len(q)
  OBVIOUS
<1> HIDE DEF r
<1>2. AllOff(q) => AllOff(r) /\ Head(q) = "logoff"
  BY <1>1 DEF AllOff
<1>3. OffBehind(q, k) => OffBehind(r, k - 1)
  <2> SUFFICES ASSUME OffBehind(q, k) PROVE OffBehind(r, k - 1)
    OBVIOUS
  <2>1. k - 1 <= Len(r)
    BY <1>1 DEF OffBehind
  <2>2. ASSUME NEW i \in 1..Len(r), i > Len(r) - (k - 1) PROVE r[i] = "logoff"
    <3>1. i + 1 > Len(q) - k
      BY <1>1, <2>2
    <3> QED
      BY <1>1, <3>1 DEF OffBehind
  <2> QED
    BY <2>1, <2>2 DEF OffBehind
<1>4. OffBehind(q, k) => OffBehind(r, k) \/ (AllOff(r) /\ Head(q) = "logoff")
  <2> SUFFICES ASSUME OffBehind(q, k)
               PROVE  OffBehind(r, k) \/ (AllOff(r) /\ Head(q) = "logoff")
    OBVIOUS
  <2>1. CASE k = Len(q)
    <3>1. AllOff(q)
      BY <1>1, <2>1 DEF OffBehind, AllOff
    <3> QED
      BY <1>2, <3>1
  <2>2. CASE k # Len(q)
    <3>1. k <= Len(r)
      BY <1>1, <2>2 DEF OffBehind
    <3>2. ASSUME NEW i \in 1..Len(r), i > Len(r) - k PROVE r[i] = "logoff"
      <4>1. i + 1 > Len(q) - k
        BY <1>1, <3>2
      <4> QED
        BY <1>1, <4>1 DEF OffBehind
    <3> QED
      BY <3>1, <3>2 DEF OffBehind
  <2> QED
    BY <2>1, <2>2
<1> QED
  BY <1>2, <1>3, <1>4 DEF r

\* A request for no Logoff is always met, and one for fewer is, too.
LEMMA OffFewer ==
    ASSUME NEW q \in Seq(EapOut), NEW k \in Int, NEW j \in Int, j <= k
    PROVE  /\ j <= 0 => OffBehind(q, j)
           /\ OffBehind(q, k) => OffBehind(q, j)
<1> Len(q) \in Nat
  OBVIOUS
<1> QED
  BY DEF OffBehind

\* How a client comes to be leaving, and how it goes on.
Leaves ==
    \/ InLogoff' /\ logoffCnt' = 2
    \/ /\ InLogoff /\ InLogoff' /\ logoffCnt' = logoffCnt - 1
       /\ eapTx' = "logoff"
    \/ /\ Parting /\ eapTx' = "none"
       /\ \/ InLogoff /\ InLogoff' /\ logoffCnt' = logoffCnt
          \/ ~InLogoff' /\ (InLogoff => logoffCnt = 0)

LEMMA ClientLeaves ==
    ASSUME Base, Client, Parting'
    PROVE  Leaves
<1>1. ~killed /\ IInv
  BY ClientLives DEF Base
<1>2. pc' \in {"offSend", "offWait", "main", "exited"}
  BY DEF Parting, InLogoff
<1> USE DEF Leaves, Parting, InLogoff, NoEap, Silent, SendEap
<1> USE DEF logoffVars
<1>3. CASE ClientMoves
  BY <1>1, <1>2, <1>3
     DEF ClientMoves, OpenCapture, BeginLogoff, LogoffSend, LogoffDone, OpenSocket,
         StartLogin, LoopEnds, BeatOverdue, BreakLoop, LeaveLoop, BeatSent, NoBeat,
         MainRestart, MainBackoff, MainExit, MainOnly, LogoffWait, LoginTimeout,
         LoginUnreachable, LoginFails, IInv, TypeOK, DataTypes
<1>4. CASE ClientHears
  <2>1. CASE LogoffWait
    BY <1>1, <2>1 DEF LogoffWait
  <2>2. ASSUME NEW f \in EapFrame, LoginFrame(f) PROVE Leaves
    BY <1>2, <2>2 DEF LoginFrame, LoginFails, BeginLogoff
  <2>3. ASSUME NEW f \in EapFrame, LoopFrame(f) PROVE FALSE
    <3>1. PICK r \in Results : Handler(f, times, r)
                               /\ pc' = IF r = "exit" THEN "exited" ELSE "udp"
      BY <2>3 DEF LoopFrame
    <3>2. r # "exit"
      BY <1>1, <2>3, <3>1, HandlerEffect, RetryAssumption
         DEF LoopFrame, IInv, TypeOK, DataTypes, TimesWhole, InLoop, Effect
    <3> QED
      BY <1>2, <3>1, <3>2
  <2>4. toClient # <<>> => Head(toClient) \in EapFrame
    BY DEF Base, WireTypes
  <2> QED
    BY <1>4, <2>1, <2>2, <2>3, <2>4 DEF ClientHears
<1>5. CASE ClientPolls
  BY <1>2, <1>5 DEF ClientPolls, LoopQuiet
<1>6. CASE ClientReads
  <2>1. PICK g : LoopDatagram(g)
    BY <1>6 DEF ClientReads
  <2> QED
    BY <1>2, <2>1 DEF LoopDatagram
<1>7. CASE ClientWaits
  BY <1>1, <1>2, <1>7 DEF ClientWaits, MainWait, MainOnly
<1> QED
  BY <1>3, <1>4, <1>5, <1>6, <1>7 DEF Client, ClientActs

LEMMA ClientKeepsSaidOff ==
    ASSUME Base, SaidOff, Client, MaxLosses <= 1
    PROVE  SaidOff'
<1> SUFFICES ASSUME Parting' PROVE LoggedOut(Due)'
  BY DEF SaidOff
<1>1. ~killed /\ IInv /\ IInv'
  BY ClientLives, ClientIsOpen, StepKeepsIInv DEF Base
<1>2. port' = port /\ losses' = losses /\ toSwitch' = Put(toSwitch, eapTx')
      /\ toSwitch' \in Seq(EapOut)
  BY <1>1, ClientWires DEF Base, WireTypes, budgets
<1>3. toSwitch \in Seq(EapOut) /\ losses \in 0..MaxLosses /\ MaxLosses \in 0..1
  BY CampusAssumption DEF Base, WireTypes, PeerTypes
<1>4. logoffCnt \in 0..2 /\ logoffCnt' \in 0..2
  BY <1>1 DEF IInv, TypeOK, DataTypes
<1>5. Due \in Int /\ Due' \in Int
  BY <1>2, <1>3, <1>4 DEF Due
<1>6. CASE InLogoff' /\ logoffCnt' = 2
  <2>1. Due' <= 0
    BY <1>2, <1>3, <1>6 DEF Due
  <2> QED
    BY <1>2, <1>5, <2>1, OffFewer DEF LoggedOut
<1>7. CASE InLogoff /\ InLogoff' /\ logoffCnt' = logoffCnt - 1 /\ eapTx' = "logoff"
  <2>1. Due' = Due + 1
    BY <1>2, <1>3, <1>4, <1>7 DEF Due
  <2>2. toSwitch' = Append(toSwitch, "logoff")
    BY <1>2, <1>7 DEF Put
  <2>3. LoggedOut(Due)
    BY <1>7 DEF SaidOff, Parting
  <2> QED
    BY <1>2, <1>3, <1>5, <2>1, <2>2, <2>3, OffAppend DEF LoggedOut
<1>8. CASE /\ Parting /\ eapTx' = "none"
           /\ \/ InLogoff /\ InLogoff' /\ logoffCnt' = logoffCnt
              \/ ~InLogoff' /\ (InLogoff => logoffCnt = 0)
  <2>1. Due' = Due
    BY <1>2, <1>3, <1>4, <1>8 DEF Due
  <2>2. toSwitch' = toSwitch
    BY <1>2, <1>8 DEF Put
  <2> QED
    BY <1>2, <1>8, <2>1, <2>2 DEF SaidOff, LoggedOut
<1> QED
  BY <1>6, <1>7, <1>8, ClientLeaves DEF Leaves

LEMMA StepKeepsSaidOff ==
    ASSUME Base, SaidOff, [CampusNext]_campusVars, MaxLosses <= 1
    PROVE  SaidOff'
<1>1. toSwitch \in Seq(EapOut) /\ losses \in 0..MaxLosses /\ MaxLosses \in 0..1
  BY CampusAssumption DEF Base, WireTypes, PeerTypes
<1>2. SUFFICES ASSUME Parting', ~Client PROVE LoggedOut(Due)'
  BY ClientKeepsSaidOff DEF SaidOff
<1>3. ~Kill /\ ~Restart
  BY <1>2 DEF Kill, Vanishes, Restart, Parting, InLogoff
<1>4. UNCHANGED <<vars, killed>>
  BY <1>2, <1>3 DEF CampusNext, campusVars, SwitchHears, SwitchRepeats, SwitchDrops,
     ServerHears, Loses, Over
<1>5. Parting /\ UNCHANGED <<pc, logoffCnt>>
  BY <1>2, <1>4 DEF vars, logoffVars, Parting, InLogoff
<1>6. LoggedOut(Due) /\ Due \in Int
  <2>1. InLogoff => logoffCnt \in 0..2
    BY DEF InLogoff, Base, ClientOK, IInv, TypeOK, DataTypes
  <2>2. Due \in Int
    BY <1>1, <2>1 DEF Due
  <2> QED
    BY <1>5, <2>2 DEF SaidOff
<1>7. CASE SwitchHears
  <2>1. Due' = Due
    BY <1>5, <1>7 DEF SwitchHears, budgets, Due, InLogoff
  <2>2. toSwitch # <<>> /\ toSwitch' = Tail(toSwitch)
    BY <1>7 DEF SwitchHears
  <2>3. Head(toSwitch) = "logoff" => port' = "closed"
    BY <1>7, SwitchHearsCases DEF SwitchAnswers, Starts
  <2> QED
    BY <1>1, <1>6, <2>1, <2>2, <2>3, OffTail DEF LoggedOut
<1>8. CASE Loses
  <2>1. Due' = Due - 1 /\ port' = port
    <3> DEFINE c == IF InLogoff THEN logoffCnt ELSE 0
    <3>1. losses' = losses + 1 /\ port' = port /\ c' = c
      BY <1>5, <1>8 DEF Loses, InLogoff
    <3>2. c \in 0..2
      BY <1>5 DEF InLogoff, Base, ClientOK, IInv, TypeOK, DataTypes
    <3> HIDE DEF c
    <3>3. Due = 1 + (MaxLosses - losses) - c /\ Due' = 1 + (MaxLosses - losses') - c'
      BY DEF Due, c
    <3> QED
      BY <1>1, <3>1, <3>2, <3>3
  <2>2. CASE toSwitch' = toSwitch
    BY <1>1, <1>6, <2>1, <2>2, OffFewer DEF LoggedOut
  <2>3. CASE toSwitch # <<>> /\ toSwitch' = Tail(toSwitch)
    BY <1>1, <1>6, <2>1, <2>3, OffTail DEF LoggedOut
  <2> QED
    BY <1>8, <2>2, <2>3 DEF Loses, Drop
<1>9. CASE SwitchRepeats \/ SwitchDrops \/ ServerHears \/ UNCHANGED campusVars
  <2>1. toSwitch' = toSwitch /\ losses' = losses /\ port' \in {port, "closed"}
    BY <1>9 DEF SwitchRepeats, SwitchDrops, ServerHears, campusVars, wires, budgets
  <2>2. Due' = Due
    BY <1>5, <2>1 DEF Due, InLogoff
  <2> QED
    BY <1>6, <2>1, <2>2 DEF LoggedOut
<1> QED
  BY <1>2, <1>3, <1>7, <1>8, <1>9 DEF CampusNext, Over

LEMMA SaidOffInvariance ==
    ASSUME MaxLosses <= 1
    PROVE  CampusSpec => []SaidOff
<1>1. CampusInit => SaidOff
  BY DEF CampusInit, Init, SaidOff, Parting, InLogoff
<1>2. Base /\ SaidOff /\ [CampusNext]_campusVars => SaidOff'
  BY StepKeepsSaidOff
<1> QED
  BY <1>1, <1>2, BaseInvariance, PTL DEF CampusSpec

-----------------------------------------------------------------------------
(* While no notification was sent                                           *)

StartIn(q) == \E i \in 1..Len(q) : q[i] \in Starts

\* What the opening Logoffs have made room for: the two frames that the Start
\* after them may bring.
Spent ==
    IF InLogoff /\ site = "open" THEN Passed
    ELSE IF pc \in {"prepare", "start"} THEN 2 ELSE 0

\* Without the refusals of a night two frames are all there can be: a Start
\* that is on the way already counts the FAILURE the port will end with.
NarrowBudget ==
    Ahead + Bit(port # "closed" /\ ~StartIn(toSwitch)) + Spent <= 2

\* So a Start finds the port closed, or at its first request and nothing ahead.
StartFirst ==
    StartIn(toSwitch) =>
        /\ port \in {"closed", "identity"}
        /\ port = "identity" => Head(toSwitch) \in Starts

\* A login hears nothing but the answer to its Starts.
AtLogin ==
    pc = "login" =>
        /\ \A i \in 1..Len(toClient) : toClient[i] = "identity"
        /\ \A i \in 1..Len(toSwitch) :
              \/ toSwitch[i] = "logoff"
              \/ i = Len(toSwitch) /\ toSwitch[i] \in Starts
        /\ port \in {"closed", "identity"}
        /\ port = "identity" => \A i \in 1..Len(toSwitch) : toSwitch[i] # "logoff"

\* No frame on the way is a refusal, and a session that is over was cut off or
\* never answered.
Unrefused ==
    /\ \A i \in 1..Len(toClient) :
          toClient[i] \in {"identity", "md5", "success", "failure"}
    /\ InLoop /\ ~resev => ret = "restart"
    /\ site = "close" /\ (InLogoff \/ pc = "main") => ret \in {"restart", "unreach"}
    /\ pc = "exited" => killed \/ client = "logoff"

Narrow == NarrowBudget /\ StartFirst

Untold == ~refused => Narrow /\ AtLogin /\ Unrefused

LEMMA StartAppend ==
    ASSUME NEW q \in Seq(EapOut), NEW m \in EapOut
    PROVE  /\ StartIn(Append(q, m)) <=> StartIn(q) \/ m \in Starts
           /\ q # <<>> => Head(Append(q, m)) = Head(q)
           /\ q = <<>> => Head(Append(q, m)) = m /\ ~StartIn(q)
<1> DEFINE r == Append(q, m)
<1>1. /\ Len(q) \in Nat /\ Len(r) = Len(q) + 1 /\ r[Len(q) + 1] = m
      /\ \A i \in 1..Len(q) : r[i] = q[i] /\ i \in 1..Len(r)
      /\ Len(q) + 1 \in 1..Len(r)
  OBVIOUS
<1>2. (q # <<>> => Head(r) = Head(q)) /\ (q = <<>> => Head(r) = m /\ ~StartIn(q))
  BY DEF StartIn
<1> HIDE DEF r
<1>3. StartIn(r) => StartIn(q) \/ m \in Starts
  <2> SUFFICES ASSUME NEW i \in 1..Len(r), r[i] \in Starts, m \notin Starts
               PROVE  StartIn(q)
    BY DEF StartIn
  <2>1. i \in 1..Len(q)
    BY <1>1
  <2> QED
    BY <1>1, <2>1 DEF StartIn
<1>4. StartIn(q) \/ m \in Starts => StartIn(r)
  BY <1>1 DEF StartIn
<1> QED
  BY <1>2, <1>3, <1>4 DEF r

LEMMA StartTail ==
    ASSUME NEW q \in Seq(EapOut), q # <<>>
    PROVE  StartIn(q) <=> Head(q) \in Starts \/ StartIn(Tail(q))
<1> DEFINE r == Tail(q)
<1>1. /\ Len(q) \in Nat \ {0} /\ Len(r) = Len(q) - 1 /\ Head(q) = q[1] /\ 1 \in 1..Len(q)
      /\ \A i \in 1..Len(r) : r[i] = q[i + 1] /\ i + 1 \in 1..Len(q)
  OBVIOUS
<1> HIDE DEF r
<1>2. StartIn(q) => q[1] \in Starts \/ StartIn(r)
  <2> SUFFICES ASSUME NEW i \in 1..Len(q), q[i] \in Starts, i # 1
               PROVE  StartIn(r)
    BY DEF StartIn
  <2>1. i - 1 \in 1..Len(r) /\ (i - 1) + 1 = i
    BY <1>1
  <2>2. r[i - 1] \in Starts
    BY <1>1, <2>1
  <2> QED
    BY <2>1, <2>2 DEF StartIn
<1>3. q[1] \in Starts \/ StartIn(r) => StartIn(q)
  BY <1>1 DEF StartIn
<1> QED
  BY <1>1, <1>2, <1>3 DEF r

LEMMA StartLoad ==
    ASSUME NEW q \in Seq(EapOut)
    PROVE  /\ Load(q) \in Nat
           /\ StartIn(q) => Load(q) >= 2
           /\ Load(q) = 0 => AllOff(q)
<1>1. Load(q) \in Nat /\ \A i \in 1..Len(q) : Load(q) >= Weight(q[i])
  BY LoadType
<1>2. StartIn(q) => Load(q) >= 2
  BY <1>1 DEF StartIn, Weight
<1>3. ASSUME Load(q) = 0, NEW i \in 1..Len(q) PROVE q[i] = "logoff"
  <2>1. q[i] \in EapOut /\ Weight(q[i]) <= 0
    BY <1>1, <1>3
  <2> QED
    BY <2>1 DEF EapOut, Weight, Starts
<1> QED
  BY <1>1, <1>2, <1>3 DEF AllOff

LEMMA SpentType == IInv /\ Form => Spent \in 0..2
BY DEF Spent, Passed, InLogoff, Form, IInv, TypeOK, DataTypes

LEMMA SpentRange ==
    ASSUME Base
    PROVE  Spent \in 0..2
<1>1. IInv \/ pc = "exited"
  BY DEF Base, ClientOK
<1>2. pc = "exited" => Spent = 0
  BY DEF Spent, InLogoff
<1> QED
  BY <1>1, <1>2, SpentType DEF Base

LEMMA SpentUnchanged == UNCHANGED vars => Spent' = Spent
BY DEF vars, logoffVars, Spent, Passed, InLogoff

\* What a step of the client says and what it makes room for: the first Start,
\* another one, a turn of the opening Logoffs, or no more than it has taken.
Speaks(l, m) ==
    \/ pc = "start" /\ Spent = 2 /\ Spent' = 0 /\ eapTx' = "startM"
    \/ pc = "login" /\ Quiet /\ Spent' = 0 /\ eapTx' \in Starts \cup {"none"}
    \/ /\ pc = "offWait" /\ Quiet /\ eapTx' = "none"
       /\ Spent' <= 1 \/ (Spent' = 2 /\ logoffCnt = 0)
    \/ eapTx' \notin Starts /\ Weight(eapTx') + Spent' + m <= Spent + l

LEMMA ClientSpeaks ==
    ASSUME Base, Client, IInv, IInv', Form',
           NEW l \in Nat, NEW m \in Nat, m <= l, ClientHears => m + 1 <= l
    PROVE  Speaks(l, m)
<1> USE DEF Weight, Starts, Spent, Passed, InLogoff, Speaks,
            SendEap, NoEap, NoUdp, Silent
<1> USE DEF sessionVars, resourceVars, mainVars, historyVars, outerVars, logoffVars
<1>1. /\ pc \in Points /\ logoffCnt \in 0..2 /\ (pc = "offWait" => logoffCnt \in {0, 1})
  BY DEF IInv, TypeOK, DataTypes, Base, Form
<1>2. CASE ClientMoves
  <2>2. CASE OpenCapture /\ handle'
    BY <1>1, <2>2 DEF OpenCapture, BeginLogoff
  <2>3. CASE LogoffSend
    BY <1>1, <2>3 DEF LogoffSend
  <2>4. CASE LogoffDone
    BY <1>1, <2>4 DEF LogoffDone
  <2>5. CASE LogoffWait /\ Quiet
    BY <1>1, <2>5 DEF LogoffWait
  <2>6. CASE OpenSocket /\ sock'
    BY <1>1, <2>6 DEF OpenSocket
  <2>7. CASE StartLogin
    BY <1>1, <2>7 DEF StartLogin
  <2>8. CASE LoginTimeout /\ Quiet
    BY <1>1, <2>8 DEF LoginTimeout, OtherStart
  <2>9. CASE LoginUnreachable
    BY <1>1, <2>9 DEF LoginUnreachable, LoginFails, BeginLogoff
  <2>10. CASE LoopEnds \/ BeatOverdue
    BY <1>1, <2>10 DEF LoopEnds, BeatOverdue, BreakLoop, LeaveLoop, BeginLogoff
  <2>11. CASE BeatSent \/ NoBeat
    BY <1>1, <2>11 DEF BeatSent, NoBeat
  <2>12. CASE MainRestart \/ MainBackoff \/ MainExit
    BY <1>1, <2>12 DEF MainRestart, MainBackoff, MainExit, MainOnly
  <2> QED
    BY <1>2, <2>2, <2>3, <2>4, <2>5, <2>6, <2>7, <2>8, <2>9, <2>10, <2>11,
       <2>12 DEF ClientMoves
<1>3. CASE ClientHears
  <2>1. toClient # <<>> /\ m + 1 <= l
    BY <1>3 DEF ClientHears
  <2>2. CASE LogoffWait
    BY <1>1, <2>1, <2>2 DEF LogoffWait
  <2> DEFINE f == Head(toClient)
  <2>3. f \in EapFrame
    BY <2>1 DEF Base, WireTypes
  <2> HIDE DEF f
  <2>4. CASE LoginFrame(f)
    <3>1. PICK r \in Results : Handler(f, RecvTimes, r)
                               /\ (pc' = "eap" \/ LoginFails("eproto"))
      BY <2>4 DEF LoginFrame
    <3>2. eapTx' \in {"none", "respId", "respMd5"}
      BY <2>3, <3>1, FrameEffect
    <3> QED
      BY <1>1, <2>1, <2>4, <3>1, <3>2 DEF LoginFrame, LoginFails, BeginLogoff
  <2>5. CASE LoopFrame(f)
    <3>1. PICK r \in Results : Handler(f, times, r) /\ pc' \in {"udp", "exited"}
      BY <2>5 DEF LoopFrame
    <3>2. eapTx' \in {"none", "respId", "respMd5"}
      BY <2>3, <3>1, FrameEffect
    <3> QED
      BY <1>1, <2>1, <2>5, <3>1, <3>2 DEF LoopFrame
  <2> QED
    BY <1>3, <2>2, <2>4, <2>5 DEF ClientHears, f
<1>4. CASE ClientPolls
  BY <1>1, <1>4 DEF ClientPolls, LoopQuiet
<1>5. CASE ClientReads
  <2>2. PICK g : LoopDatagram(g)
    BY <1>5 DEF ClientReads
  <2> QED
    BY <1>1, <2>2 DEF LoopDatagram
<1>6. CASE ClientWaits
  BY <1>1, <1>6 DEF ClientWaits, MainWait, MainOnly
<1> QED
  BY <1>2, <1>3, <1>4, <1>5, <1>6 DEF Client, ClientActs

\* An empty wire to the switch and no Logoff left to send: the port is closed.
LEMMA OffMeansClosed ==
    ASSUME Base, SaidOff, Parting, InLogoff => logoffCnt = 0, toSwitch = <<>>
    PROVE  port = "closed"
<1>1. losses \in 0..MaxLosses /\ MaxLosses \in Nat
  BY CampusAssumption DEF Base, PeerTypes
<1>2. Due \in Int /\ Due >= 1 /\ LoggedOut(Due)
  BY <1>1 DEF Due, SaidOff
<1>3. Len(toSwitch) = 0
  OBVIOUS
<1>4. ~OffBehind(toSwitch, Due)
  BY <1>2, <1>3 DEF OffBehind
<1> QED
  BY <1>2, <1>4 DEF LoggedOut

\* A login begins with nothing ahead of it but Logoffs, at a closed port.
LEMMA StartFindsNothing ==
    ASSUME Base, Narrow, pc = "start"
    PROVE  toClient = <<>> /\ AllOff(toSwitch) /\ port = "closed"
<1>1. toSwitch \in Seq(EapOut) /\ toClient \in Seq(EapFrame)
  BY DEF Base, WireTypes
<1>2. Spent = 2
  BY DEF Spent, InLogoff
<1> DEFINE n == Load(toSwitch)
           l == Len(toClient)
           b == Bit(port # "closed" /\ ~StartIn(toSwitch))
<1>3. n \in Nat /\ l \in Nat /\ b \in 0..1
  BY <1>1, StartLoad DEF Bit
<1>4. l + n + b + 2 <= 2
  BY <1>2 DEF Narrow, NarrowBudget, Ahead
<1>5. l = 0 /\ n = 0 /\ b = 0
  <2> HIDE DEF l, n, b
  <2> QED
    BY <1>3, <1>4
<1>6. ~StartIn(toSwitch) /\ AllOff(toSwitch)
  BY <1>1, <1>5, StartLoad
<1>7. port = "closed"
  BY <1>5, <1>6 DEF Bit
<1>8. toClient = <<>>
  BY <1>1, <1>5
<1> QED
  BY <1>6, <1>7, <1>8

LEMMA ClientKeepsNarrow ==
    ASSUME Base, SaidOff, Narrow, AtLogin, Client
    PROVE  Narrow'
<1>1. IInv /\ IInv' /\ Form'
  BY ClientLives, ClientIsOpen, StepKeepsIInv, ClientKeepsBase DEF Base
<1>2. port' = port /\ toSwitch' = Put(toSwitch, eapTx')
  BY <1>1, ClientWires DEF Base
<1>3. toSwitch \in Seq(EapOut) /\ eapTx' \in EapOut \cup {"none"}
  BY <1>1 DEF Base, WireTypes, IInv, TypeOK, DataTypes
<1> DEFINE n == Load(toSwitch)
           l == Len(toClient)
           m == Len(toClient')
           w == Weight(eapTx')
           b == Bit(port # "closed" /\ ~StartIn(toSwitch))
           d == Bit(port # "closed" /\ ~StartIn(toSwitch'))
           s == Spent
           t == Spent'
<1>4. l \in Nat /\ m \in Nat /\ m <= l /\ n \in Nat /\ Load(toSwitch') = n + w
  BY ClientAhead
<1>5. ClientHears => m + 1 <= l
  BY <1>1, ClientWires DEF ClientHears, Wired, Base, WireTypes
<1>6. Speaks(l, m)
  BY <1>1, <1>4, <1>5, ClientSpeaks
<1>7. b \in 0..1 /\ d \in 0..1 /\ w \in Nat /\ s \in 0..2
  BY SpentRange, WeightType DEF Bit
<1>8. t \in 0..2
  <2>1. (IInv /\ Form => Spent \in 0..2)'
    BY SpentType, PTL
  <2> QED
    BY <1>1, <2>1
<1>9. l + n + b + s <= 2
  BY DEF Narrow, NarrowBudget, Ahead
<1>10. Quiet => l = 0 /\ m = 0 /\ n = 0 /\ toSwitch = <<>>
  BY <1>4, QuietAhead DEF Quiet
<1>11. SUFFICES m + (n + w) + d + t <= 2 /\ StartFirst'
  BY <1>2, <1>4 DEF Narrow, NarrowBudget, Ahead
<1>12. ASSUME eapTx' \in Starts
       PROVE  /\ StartIn(toSwitch') /\ d = 0 /\ w = 2
              /\ toSwitch = <<>> => Head(toSwitch') \in Starts
  <2>1. eapTx' \in EapOut /\ toSwitch' = Append(toSwitch, eapTx')
    BY <1>2, <1>12 DEF Put, Starts, EapOut
  <2>2. StartIn(toSwitch') /\ (toSwitch = <<>> => Head(toSwitch') = eapTx')
    BY <1>3, <1>12, <2>1, StartAppend
  <2> QED
    BY <1>12, <2>2 DEF Bit, Weight
<1>13. ASSUME eapTx' \notin Starts
       PROVE  /\ StartIn(toSwitch') <=> StartIn(toSwitch)
              /\ StartIn(toSwitch) => Head(toSwitch') = Head(toSwitch)
              /\ d = b
  <2>1. CASE eapTx' = "none"
    BY <1>2, <2>1 DEF Put
  <2>2. CASE eapTx' # "none"
    <3>1. toSwitch' = Append(toSwitch, eapTx') /\ eapTx' \in EapOut
      BY <1>2, <1>3, <2>2 DEF Put
    <3>2. /\ StartIn(toSwitch') <=> StartIn(toSwitch)
          /\ StartIn(toSwitch) => Head(toSwitch') = Head(toSwitch)
      BY <1>3, <1>13, <3>1, StartAppend
    <3> QED
      BY <3>2
  <2> QED
    BY <2>1, <2>2
<1>14. CASE pc = "start" /\ s = 2 /\ t = 0 /\ eapTx' = "startM"
  <2>1. toClient = <<>> /\ AllOff(toSwitch) /\ port = "closed"
    BY <1>14, StartFindsNothing
  <2>2. l = 0 /\ n = 0
    <3> HIDE DEF n, l, b, s
    <3> QED
      BY <1>4, <1>7, <1>9, <1>14
  <2>3. d = 0 /\ w = 2
    BY <1>12, <1>14 DEF Starts
  <2>4. m + (n + w) + d + t <= 2
    <3> HIDE DEF n, l, m, w, b, d, s, t
    <3> QED
      BY <1>4, <1>14, <2>2, <2>3
  <2>5. StartFirst'
    BY <1>2, <2>1 DEF StartFirst
  <2> QED
    BY <2>4, <2>5
<1>15. CASE pc = "login" /\ Quiet /\ t = 0 /\ eapTx' \in Starts \cup {"none"}
  <2>1. port \in {"closed", "identity"}
    BY <1>15 DEF AtLogin
  <2>2. CASE eapTx' \in Starts
    <3>1. d = 0 /\ w = 2 /\ Head(toSwitch') \in Starts
      BY <1>10, <1>12, <1>15, <2>2
    <3>2. m + (n + w) + d + t <= 2
      <4> HIDE DEF n, l, m, w, b, d, s, t
      <4> QED
        BY <1>10, <1>15, <3>1
    <3> QED
      BY <1>2, <2>1, <3>1, <3>2 DEF StartFirst
  <2>3. CASE eapTx' = "none"
    <3>1. w = 0 /\ ~StartIn(toSwitch')
      BY <1>2, <1>10, <1>15, <2>3 DEF Weight, Starts, Put, StartIn
    <3>2. m + (n + w) + d + t <= 2
      <4> HIDE DEF n, l, m, w, b, d, s, t
      <4> QED
        BY <1>7, <1>10, <1>15, <3>1
    <3> QED
      BY <3>1, <3>2 DEF StartFirst
  <2> QED
    BY <1>15, <2>2, <2>3
<1>16. CASE /\ pc = "offWait" /\ Quiet /\ eapTx' = "none"
            /\ t <= 1 \/ (t = 2 /\ logoffCnt = 0)
  <2>1. w = 0 /\ ~StartIn(toSwitch')
    BY <1>2, <1>10, <1>16 DEF Weight, Starts, Put, StartIn
  <2>2. t = 2 => d = 0
    <3> SUFFICES ASSUME t = 2 PROVE port = "closed"
      BY DEF Bit
    <3>1. Parting /\ InLogoff /\ logoffCnt = 0 /\ toSwitch = <<>>
      BY <1>10, <1>16 DEF Parting, InLogoff
    <3> QED
      BY <3>1, OffMeansClosed
  <2>3. m + (n + w) + d + t <= 2
    <3> HIDE DEF n, l, m, w, b, d, s, t
    <3> QED
      BY <1>7, <1>8, <1>10, <1>16, <2>1, <2>2
  <2> QED
    BY <2>1, <2>3 DEF StartFirst
<1>17. CASE eapTx' \notin Starts /\ w + t + m <= s + l
  <2>1. m + (n + w) + d + t <= 2
    <3>1. d = b
      BY <1>13, <1>17
    <3> HIDE DEF n, l, m, w, b, d, s, t
    <3> QED
      BY <1>4, <1>7, <1>8, <1>9, <1>17, <3>1
  <2>2. StartFirst'
    BY <1>2, <1>13, <1>17 DEF Narrow, StartFirst
  <2> QED
    BY <2>1, <2>2
<1>18. \/ pc = "start" /\ s = 2 /\ t = 0 /\ eapTx' = "startM"
       \/ pc = "login" /\ Quiet /\ t = 0 /\ eapTx' \in Starts \cup {"none"}
       \/ /\ pc = "offWait" /\ Quiet /\ eapTx' = "none"
          /\ t <= 1 \/ (t = 2 /\ logoffCnt = 0)
       \/ eapTx' \notin Starts /\ w + t + m <= s + l
  BY <1>6 DEF Speaks
<1> HIDE DEF n, l, m, w, b, d, s, t
<1> QED
  BY <1>14, <1>15, <1>16, <1>17, <1>18

\* A night's refusal is a notification.
LEMMA NoticeRefuses ==
    ASSUME Sends(NightNotice)
    PROVE  refused'
<1>1. "noteOffHours" \in ToSet(NightNotice)
  <2>1. 1 \in DOMAIN NightNotice /\ NightNotice[1] = "noteOffHours"
    BY DEF NightNotice
  <2> QED
    BY <2>1 DEF ToSet
<1> QED
  BY <1>1 DEF Sends

LEMMA SwitchHearsKeepsNarrow ==
    ASSUME Base, Narrow, SwitchHears, ~refused'
    PROVE  Narrow'
<1> DEFINE f == Head(toSwitch)
           w == Weight(f)
           n == Load(Tail(toSwitch))
           l == Len(toClient)
           m == Len(toClient')
           b == Bit(port # "closed" /\ ~StartIn(toSwitch))
           d == Bit(port' # "closed" /\ ~StartIn(toSwitch'))
           s == Spent
<1>1. toSwitch \in Seq(EapOut) /\ toSwitch # <<>> /\ toSwitch' = Tail(toSwitch)
      /\ Tail(toSwitch) \in Seq(EapOut)
  BY DEF SwitchHears, Base, WireTypes
<1>2. Load(toSwitch) = w + n /\ n \in Nat
  BY <1>1, LoadTail, StartLoad
<1>3. Spent' = s
  BY SpentUnchanged DEF SwitchHears
<1>4. l + (w + n) + b + s <= 2
  BY <1>2 DEF Narrow, NarrowBudget, Ahead
<1> PICK frames \in Seq(EapFrame) : Sends(frames) /\ SwitchAnswers(f, frames)
  BY SwitchHearsCases
<1> DEFINE k == Len(frames)
<1>5. l \in Nat /\ m \in Nat /\ m <= l + k
  BY SendsAhead DEF Base
<1>6. b \in 0..1 /\ d \in 0..1 /\ w \in Nat /\ s \in 0..2
  BY SpentRange, WeightType DEF Bit
<1>7. frames # NightNotice
  BY NoticeRefuses
<1>8. StartIn(toSwitch) <=> f \in Starts \/ StartIn(toSwitch')
  BY <1>1, StartTail
<1>9. k \in 0..1 /\ k + d <= w + b /\ StartFirst'
  <2>1. CASE f \in Starts
    <3>1. w = 2
      BY <2>1 DEF Weight
    <3>2. n < 2
      <4> HIDE DEF n, l, b, s, w
      <4> QED
        BY <1>2, <1>4, <1>5, <1>6, <3>1
    <3>3. ~StartIn(toSwitch')
      <4>1. ~(n >= 2)
        <5> HIDE DEF n
        <5> QED
          BY <1>2, <3>2
      <4>2. ~StartIn(Tail(toSwitch))
        BY <1>1, <4>1, StartLoad
      <4> QED
        BY <1>1, <4>2
    <3>4. k = 1
      <4> HIDE DEF f
      <4> QED
        BY <1>7, <2>1, FramesLength DEF SwitchAnswers, Starts
    <3>5. StartFirst'
      BY <3>3 DEF StartFirst
    <3> HIDE DEF w, k, d, b
    <3> QED
      BY <1>6, <3>1, <3>4, <3>5
  <2>2. CASE f \in {"respId", "respMd5"}
    <3>1. w = 1 /\ f \notin Starts
      BY <2>2 DEF Weight, Starts
    <3>2. StartIn(toSwitch) => port = "closed"
      BY <3>1 DEF Narrow, StartFirst
    <3>3. \/ k = 1 /\ port # "closed"
          \/ k = 0 /\ port' = port
      <4> HIDE DEF f
      <4> QED
        BY <1>7, <2>2, <3>1, FramesLength DEF SwitchAnswers
    <3>4. (k = 1 /\ b = 1) \/ (k = 0 /\ d = b)
      <4>1. StartIn(toSwitch) <=> StartIn(toSwitch')
        BY <1>8, <3>1
      <4> QED
        BY <3>2, <3>3, <4>1 DEF Bit
    <3>5. StartFirst'
      BY <1>8, <3>1, <3>2, <3>3 DEF StartFirst
    <3> HIDE DEF w, k, d, b
    <3> QED
      BY <1>6, <3>1, <3>4, <3>5
  <2>3. CASE f = "logoff"
    <3>1. w = 0 /\ f \notin Starts
      BY <2>3 DEF Weight, Starts
    <3>2. StartIn(toSwitch) => port = "closed"
      BY <3>1 DEF Narrow, StartFirst
    <3>3. port' = "closed" /\ k = IF port = "closed" THEN 0 ELSE 1
      <4> HIDE DEF f
      <4> QED
        BY <2>3, <3>1, FramesLength DEF SwitchAnswers
    <3>4. d = 0 /\ k = b
      BY <3>2, <3>3 DEF Bit
    <3>5. StartFirst'
      BY <3>3 DEF StartFirst
    <3> HIDE DEF w, k, d, b
    <3> QED
      BY <1>6, <3>1, <3>4, <3>5
  <2> QED
    BY <2>1, <2>2, <2>3 DEF SwitchAnswers
<1>10. m + n + d + s <= 2
  <2> HIDE DEF f, w, n, l, m, b, d, s, k
  <2> QED
    BY <1>2, <1>4, <1>5, <1>6, <1>9
<1> QED
  BY <1>1, <1>3, <1>9, <1>10 DEF Narrow, NarrowBudget, Ahead

LEMMA SwitchActsKeepsNarrow ==
    ASSUME Base, Narrow, SwitchRepeats \/ SwitchDrops, ~refused'
    PROVE  Narrow'
<1> DEFINE n == Load(toSwitch)
           l == Len(toClient)
           m == Len(toClient')
           b == Bit(port # "closed" /\ ~StartIn(toSwitch))
           d == Bit(port' # "closed" /\ ~StartIn(toSwitch))
           s == Spent
<1>1. n \in Nat
  BY LoadType DEF Base, WireTypes
<1>2. toSwitch' = toSwitch /\ Spent' = s
  BY SpentUnchanged DEF SwitchRepeats, SwitchDrops
<1>3. l + n + b + s <= 2
  BY DEF Narrow, NarrowBudget, Ahead
<1>4. b \in 0..1 /\ d \in 0..1 /\ s \in 0..2
  BY SpentRange DEF Bit
<1>5. PICK frames \in Seq(EapFrame) : Sends(frames) /\ Len(frames) = 1
                                      /\ (SwitchDrops => port' = "closed" /\ port = "open")
  BY FramesLength, FramesTyped, NoticeRefuses DEF SwitchRepeats, SwitchDrops
<1> DEFINE k == Len(frames)
<1>6. l \in Nat /\ m \in Nat /\ m <= l + k /\ k = 1
  BY <1>5, SendsAhead DEF Base
<1>7. CASE SwitchRepeats
  <2>1. s = 0 /\ toSwitch = <<>> /\ l = 0 /\ n = 0
    BY <1>7, QuietAhead DEF SwitchRepeats, Spent, InLoop, InLogoff, Quiet
  <2>2. m + n + d + s <= 2
    <3> HIDE DEF n, l, m, b, d, s, k
    <3> QED
      BY <1>4, <1>6, <2>1
  <2>3. StartFirst'
    BY <1>2, <2>1 DEF StartFirst, StartIn
  <2> QED
    BY <1>2, <2>2, <2>3 DEF Narrow, NarrowBudget, Ahead
<1>8. CASE SwitchDrops
  <2>1. ~StartIn(toSwitch)
    BY <1>5, <1>8 DEF Narrow, StartFirst
  <2>2. b = 1 /\ d = 0
    BY <1>5, <1>8, <2>1 DEF Bit
  <2>3. m + n + d + s <= 2
    <3> HIDE DEF n, l, m, b, d, s, k
    <3> QED
      BY <1>1, <1>3, <1>4, <1>6, <2>2
  <2>4. StartFirst'
    BY <1>2, <2>1 DEF StartFirst
  <2> QED
    BY <1>2, <2>3, <2>4 DEF Narrow, NarrowBudget, Ahead
<1> QED
  BY <1>7, <1>8

LEMMA LessKeepsNarrow ==
    ASSUME Base, Narrow, port' = port, Spent' \in Int, Spent' <= Spent,
           toSwitch' = toSwitch \/ (toSwitch # <<>> /\ toSwitch' = Tail(toSwitch)),
           \/ toClient' = toClient
           \/ toClient' = <<>>
           \/ toClient # <<>> /\ toClient' = Tail(toClient)
    PROVE  Narrow'
<1> DEFINE n == Load(toSwitch)
           p == Load(toSwitch')
           l == Len(toClient)
           m == Len(toClient')
           b == Bit(port # "closed" /\ ~StartIn(toSwitch))
           d == Bit(port # "closed" /\ ~StartIn(toSwitch'))
           s == Spent
           t == Spent'
<1>1. toSwitch \in Seq(EapOut) /\ toSwitch' \in Seq(EapOut)
  BY TailType DEF Base, WireTypes
<1>2. l \in Nat /\ m \in Nat /\ m <= l
  BY DEF Base, WireTypes
<1>3. n \in Nat /\ p \in Nat /\ b \in 0..1 /\ d \in 0..1 /\ s \in 0..2
  BY <1>1, StartLoad, SpentRange DEF Bit
<1>4. l + n + b + s <= 2
  BY DEF Narrow, NarrowBudget, Ahead
<1>5. p + d <= n + b /\ StartFirst'
  <2>1. CASE toSwitch' = toSwitch
    <3>1. p = n /\ d = b
      BY <2>1
    <3> HIDE DEF p, n, d, b
    <3> QED
      BY <1>3, <2>1, <3>1 DEF Narrow, StartFirst
  <2>2. CASE toSwitch # <<>> /\ toSwitch' = Tail(toSwitch)
    <3> DEFINE w == Weight(Head(toSwitch))
    <3>1. n = w + p /\ w \in Nat
      BY <1>1, <2>2, LoadTail, WeightType
    <3>2. StartIn(toSwitch) <=> Head(toSwitch) \in Starts \/ StartIn(toSwitch')
      BY <1>1, <2>2, StartTail
    <3>3. CASE Head(toSwitch) \in Starts
      <4>1. w = 2
        BY <3>3 DEF Weight
      <4>2. p < 2
        <5> HIDE DEF p, n, d, b, w, l, s
        <5> QED
          BY <1>2, <1>3, <1>4, <3>1, <4>1
      <4>3. ~StartIn(toSwitch')
        BY <1>1, <4>2, StartLoad
      <4>4. StartFirst'
        BY <4>3 DEF StartFirst
      <4> HIDE DEF p, n, d, b, w
      <4> QED
        BY <1>3, <3>1, <4>1, <4>4
    <3>4. CASE Head(toSwitch) \notin Starts
      <4>1. d = b
        BY <3>2, <3>4
      <4>2. StartFirst'
        BY <3>2, <3>4 DEF Narrow, StartFirst
      <4> HIDE DEF p, n, d, b, w
      <4> QED
        BY <1>3, <3>1, <4>1, <4>2
    <3> QED
      BY <3>3, <3>4
  <2> QED
    BY <2>1, <2>2
<1>6. m + p + d + t <= 2
  <2> HIDE DEF n, p, l, m, b, d, s
  <2>1. t \in Int /\ t <= s
    BY DEF s
  <2> HIDE DEF t
  <2> QED
    BY <1>2, <1>3, <1>4, <1>5, <2>1
<1> QED
  BY <1>5, <1>6 DEF Narrow, NarrowBudget, Ahead

LEMMA StepKeepsNarrow ==
    ASSUME Base, SaidOff, Narrow, AtLogin, [CampusNext]_campusVars, ~refused'
    PROVE  Narrow'
<1>1. Spent \in 0..2
  BY SpentRange
<1>2. CASE UNCHANGED campusVars
  BY <1>1, <1>2, SpentUnchanged, LessKeepsNarrow DEF campusVars, wires
<1>3. CASE ServerHears
  BY <1>1, <1>3, SpentUnchanged, LessKeepsNarrow DEF ServerHears
<1>4. CASE Loses
  BY <1>1, <1>4, SpentUnchanged, LessKeepsNarrow DEF Loses, Drop
<1>5. CASE Kill \/ Restart
  <2>1. Spent' = 0
    BY <1>5 DEF Kill, Vanishes, Restart, Spent, InLogoff
  <2> QED
    BY <1>1, <1>5, <2>1, LessKeepsNarrow DEF Kill, Vanishes, Restart, wires
<1> QED
  BY <1>2, <1>3, <1>4, <1>5, ClientKeepsNarrow, SwitchHearsKeepsNarrow,
     SwitchActsKeepsNarrow DEF CampusNext, Over

\* Only the last message of q can be a Start, all others are Logoffs.
StartLast(q) ==
    \A i \in 1..Len(q) : q[i] = "logoff" \/ (i = Len(q) /\ q[i] \in Starts)

LEMMA StartLastTail ==
    ASSUME NEW q \in Seq(EapOut), q # <<>>, StartLast(q)
    PROVE  /\ StartLast(Tail(q))
           /\ Head(q) \in Starts => Tail(q) = <<>>
           /\ Head(q) \in Starts \cup {"logoff"}
           /\ (\A i \in 1..Len(q) : q[i] # "logoff")
                 => Head(q) # "logoff" /\ \A i \in 1..Len(Tail(q)) : Tail(q)[i] # "logoff"
<1> DEFINE r == Tail(q)
<1>1. /\ Len(q) \in Nat \ {0} /\ Len(r) = Len(q) - 1 /\ Head(q) = q[1] /\ 1 \in 1..Len(q)
      /\ \A i \in 1..Len(r) : r[i] = q[i + 1] /\ i + 1 \in 1..Len(q)
      /\ Len(q) = 1 => r = <<>>
  OBVIOUS
<1> HIDE DEF r
<1>2. StartLast(r)
  BY <1>1 DEF StartLast
<1>3. q[1] \in Starts => r = <<>>
  BY <1>1 DEF StartLast, Starts
<1>4. q[1] \in Starts \cup {"logoff"}
  BY <1>1 DEF StartLast
<1>5. (\A i \in 1..Len(q) : q[i] # "logoff")
         => q[1] # "logoff" /\ \A i \in 1..Len(r) : r[i] # "logoff"
  BY <1>1
<1> QED
  BY <1>1, <1>2, <1>3, <1>4, <1>5 DEF r

LEMMA StartLastAppend ==
    ASSUME NEW q \in Seq(EapOut), AllOff(q), NEW m \in Starts
    PROVE  StartLast(Append(q, m))
<1> DEFINE r == Append(q, m)
<1>1. /\ Len(q) \in Nat /\ Len(r) = Len(q) + 1 /\ r[Len(q) + 1] = m
      /\ \A i \in 1..Len(q) : r[i] = q[i]
  OBVIOUS
<1> HIDE DEF r
<1>2. ASSUME NEW i \in 1..Len(r) PROVE r[i] = "logoff" \/ (i = Len(r) /\ r[i] \in Starts)
  <2>1. CASE i \in 1..Len(q)
    BY <1>1, <2>1 DEF AllOff
  <2>2. CASE i = Len(q) + 1
    BY <1>1, <2>2
  <2> QED
    BY <1>1, <2>1, <2>2
<1> QED
  BY <1>2 DEF StartLast, r

OnlyRequests(q) == \A i \in 1..Len(q) : q[i] = "identity"
NoLogoff(q) == \A i \in 1..Len(q) : q[i] # "logoff"

LEMMA AtLoginMeans ==
    AtLogin <=> (pc = "login" => /\ OnlyRequests(toClient)
                                 /\ StartLast(toSwitch)
                                 /\ port \in {"closed", "identity"}
                                 /\ port = "identity" => NoLogoff(toSwitch))
BY DEF AtLogin, OnlyRequests, StartLast, NoLogoff

LEMMA ClientKeepsAtLogin ==
    ASSUME Base, Narrow, AtLogin, Client
    PROVE  AtLogin'
<1>1. IInv /\ IInv'
  BY ClientLives, ClientIsOpen, StepKeepsIInv DEF Base
<1>2. port' = port /\ toSwitch' = Put(toSwitch, eapTx') /\ toSwitch \in Seq(EapOut)
  BY <1>1, ClientWires DEF Base, WireTypes
<1> SUFFICES ASSUME pc' = "login"
             PROVE  /\ OnlyRequests(toClient') /\ StartLast(toSwitch')
                    /\ port \in {"closed", "identity"}
                    /\ port = "identity" => NoLogoff(toSwitch')
  BY <1>2 DEF AtLogin, OnlyRequests, StartLast, NoLogoff
<1>3. \/ StartLogin
      \/ LoginTimeout /\ Quiet
  <2>1. CASE ClientMoves
    BY <2>1
       DEF ClientMoves, OpenCapture, BeginLogoff, LogoffSend, LogoffDone, OpenSocket,
           LoopEnds, BeatOverdue, BreakLoop, LeaveLoop, BeatSent, NoBeat,
           MainRestart, MainBackoff, MainExit, LogoffWait, LoginUnreachable, LoginFails
  <2>2. CASE ClientHears
    BY <2>2 DEF ClientHears, LogoffWait, LoginFrame, LoginFails, BeginLogoff, LoopFrame
  <2>3. CASE ClientPolls
    BY <2>3 DEF ClientPolls, LoopQuiet
  <2>4. CASE ClientReads
    BY <2>4 DEF ClientReads, LoopDatagram
  <2>5. CASE ClientWaits
    BY <2>5 DEF ClientWaits, MainWait
  <2> QED
    BY <2>1, <2>2, <2>3, <2>4, <2>5 DEF Client, ClientActs
<1>4. CASE StartLogin
  <2>1. toClient = <<>> /\ AllOff(toSwitch) /\ port = "closed"
    BY <1>4, StartFindsNothing DEF StartLogin
  <2>2. toSwitch' = Append(toSwitch, "startM")
    BY <1>2, <1>4 DEF StartLogin, SendEap, Put
  <2>3. toClient' = <<>>
    BY <1>1, <2>1, ClientWires DEF Base
  <2>4. StartLast(toSwitch')
    BY <1>2, <2>1, <2>2, StartLastAppend DEF Starts
  <2> QED
    BY <2>1, <2>3, <2>4 DEF OnlyRequests
<1>5. CASE LoginTimeout /\ Quiet
  <2>1. toClient = <<>> /\ toSwitch = <<>> /\ port \in {"closed", "identity"}
    BY <1>5 DEF Quiet, LoginTimeout, AtLogin
  <2>2. toClient' = <<>>
    BY <1>1, <2>1, ClientWires DEF Base
  <2>3. eapTx' \in Starts \cup {"none"}
    BY <1>5 DEF LoginTimeout, OtherStart, SendEap, NoEap, Starts
  <2>4. StartLast(toSwitch') /\ NoLogoff(toSwitch')
    <3>1. CASE eapTx' = "none"
      BY <1>2, <2>1, <3>1 DEF Put, StartLast, NoLogoff
    <3>2. CASE eapTx' # "none"
      <4>1. toSwitch' = <<eapTx'>> /\ eapTx' # "logoff" /\ eapTx' \in Starts
        BY <1>2, <2>1, <2>3, <3>2 DEF Put, Starts
      <4> QED
        BY <4>1 DEF StartLast, NoLogoff
    <3> QED
      BY <3>1, <3>2
  <2> QED
    BY <2>1, <2>2, <2>4 DEF OnlyRequests
<1> QED
  BY <1>3, <1>4, <1>5

LEMMA RequestsAppend ==
    ASSUME NEW q \in Seq(EapFrame), NEW frames \in Seq(EapFrame),
           NEW T, \A i \in 1..Len(q) : q[i] \in T,
           \A i \in 1..Len(frames) : frames[i] \in T
    PROVE  \A i \in 1..Len(q \o frames) : (q \o frames)[i] \in T
<1> DEFINE r == q \o frames
           N == Len(q)
           M == Len(frames)
<1>1. /\ N \in Nat /\ M \in Nat /\ Len(r) = N + M
      /\ \A i \in 1..N : r[i] = q[i]
      /\ \A i \in (N + 1)..(N + M) : r[i] = frames[i - N]
  OBVIOUS
<1> HIDE DEF r
<1>2. ASSUME NEW i \in 1..Len(r) PROVE r[i] \in T
  <2>1. CASE i \in 1..N
    BY <1>1, <2>1
  <2>2. CASE i \in (N + 1)..(N + M)
    <3>1. i - N \in 1..M
      BY <1>1, <2>2
    <3> QED
      BY <1>1, <2>2, <3>1
  <2> QED
    BY <1>1, <2>1, <2>2
<1> QED
  BY <1>2 DEF r

LEMMA RequestsTail ==
    ASSUME NEW q \in Seq(EapFrame), NEW T, \A i \in 1..Len(q) : q[i] \in T,
           NEW r, r = <<>> \/ r = q \/ (q # <<>> /\ r = Tail(q))
    PROVE  \A i \in 1..Len(r) : r[i] \in T
<1>1. CASE q # <<>> /\ r = Tail(q)
  <2>1. /\ Len(q) \in Nat \ {0} /\ Len(r) = Len(q) - 1
        /\ \A i \in 1..Len(r) : r[i] = q[i + 1] /\ i + 1 \in 1..Len(q)
    BY <1>1
  <2> QED
    BY <2>1
<1> QED
  BY <1>1

\* What the switch sends while it refuses nobody.
LEMMA SwitchSends ==
    ASSUME SwitchHears \/ SwitchRepeats \/ SwitchDrops, ~refused'
    PROVE  \E frames \in {<<>>, <<"identity">>, <<"md5">>, <<"success">>, <<"failure">>} :
              Sends(frames)
<1>1. CASE SwitchHears
  <2>1. PICK frames \in Seq(EapFrame) :
           Sends(frames) /\ SwitchAnswers(Head(toSwitch), frames)
    BY <1>1, SwitchHearsCases
  <2>2. frames # NightNotice
    BY <2>1, NoticeRefuses
  <2>3. frames \in {<<>>, <<"identity">>, <<"md5">>, <<"success">>, <<"failure">>}
    BY <2>1, <2>2 DEF SwitchAnswers
  <2> QED
    BY <2>1, <2>3
<1>2. CASE SwitchRepeats
  BY <1>2 DEF SwitchRepeats
<1>3. CASE SwitchDrops
  BY <1>3, NoticeRefuses DEF SwitchDrops
<1> QED
  BY <1>1, <1>2, <1>3

LEMMA StepKeepsAtLogin ==
    ASSUME Base, Narrow, AtLogin, [CampusNext]_campusVars, ~refused'
    PROVE  AtLogin'
<1> SUFFICES ASSUME pc' = "login", ~Client
             PROVE  /\ OnlyRequests(toClient') /\ StartLast(toSwitch')
                    /\ port' \in {"closed", "identity"}
                    /\ port' = "identity" => NoLogoff(toSwitch')
  BY ClientKeepsAtLogin DEF AtLogin, OnlyRequests, StartLast, NoLogoff
<1>1. ~Kill /\ ~Restart /\ ~Over
  BY DEF Kill, Vanishes, Restart, Over, campusVars, vars
<1>2. UNCHANGED vars
  BY <1>1 DEF CampusNext, campusVars, SwitchHears, SwitchRepeats, SwitchDrops,
     ServerHears, Loses
<1>3. pc = "login" /\ ~InLoop
  BY <1>2 DEF vars, InLoop
<1>4. OnlyRequests(toClient) /\ StartLast(toSwitch)
      /\ port \in {"closed", "identity"}
      /\ (port = "identity" => NoLogoff(toSwitch))
      /\ toSwitch \in Seq(EapOut) /\ toClient \in Seq(EapFrame)
  BY <1>3, AtLoginMeans DEF Base, WireTypes
<1>5. CASE SwitchHears
  <2> DEFINE f == Head(toSwitch)
  <2>1. PICK frames \in Seq(EapFrame) : Sends(frames) /\ SwitchAnswers(f, frames)
    BY <1>5, SwitchHearsCases
  <2>2. toSwitch # <<>> /\ toSwitch' = Tail(toSwitch)
    BY <1>5 DEF SwitchHears
  <2>3. /\ StartLast(toSwitch')
        /\ f \in Starts => toSwitch' = <<>>
        /\ f \in Starts \cup {"logoff"}
        /\ port = "identity" => f # "logoff"
    BY <1>4, <2>2, StartLastTail DEF NoLogoff
  <2>4. frames # NightNotice
    BY <2>1, NoticeRefuses
  <2>5. \/ f \in Starts /\ port' = "identity" /\ frames = <<"identity">>
        \/ port' = "closed" /\ frames = <<>>
    <3> HIDE DEF f
    <3> QED
      BY <1>4, <2>1, <2>3, <2>4 DEF SwitchAnswers, Starts
  <2>6. \A i \in 1..Len(frames) : frames[i] \in {"identity"}
    BY <2>5
  <2>7. OnlyRequests(toClient')
    <3>1. \A i \in 1..Len(toClient) : toClient[i] \in {"identity"}
      BY <1>4 DEF OnlyRequests
    <3>2. \A i \in 1..Len(toClient \o frames) : (toClient \o frames)[i] \in {"identity"}
      BY <1>4, <2>6, <3>1, RequestsAppend
    <3> QED
      BY <2>1, <3>1, <3>2 DEF Sends, OnlyRequests
  <2>8. port' = "identity" => NoLogoff(toSwitch')
    BY <2>3, <2>5 DEF NoLogoff
  <2> QED
    BY <2>3, <2>5, <2>7, <2>8
<1>6. ~SwitchRepeats /\ ~SwitchDrops
  BY <1>3, <1>4 DEF SwitchRepeats, SwitchDrops
<1>7. CASE Loses
  <2>1. port' = port
    BY <1>7 DEF Loses
  <2>2. \/ toClient' = toClient
        \/ toClient # <<>> /\ toClient' = Tail(toClient)
    BY <1>7 DEF Loses, Drop
  <2>3. \/ toSwitch' = toSwitch
        \/ toSwitch # <<>> /\ toSwitch' = Tail(toSwitch)
    BY <1>7 DEF Loses, Drop
  <2>4. OnlyRequests(toClient')
    <3>1. \A i \in 1..Len(toClient) : toClient[i] \in {"identity"}
      BY <1>4 DEF OnlyRequests
    <3>2. \A i \in 1..Len(toClient') : toClient'[i] \in {"identity"}
      BY <1>4, <2>2, <3>1, RequestsTail
    <3> QED
      BY <3>2 DEF OnlyRequests
  <2>5. StartLast(toSwitch') /\ (NoLogoff(toSwitch) => NoLogoff(toSwitch'))
    BY <1>4, <2>3, StartLastTail DEF NoLogoff
  <2> QED
    BY <1>4, <2>1, <2>4, <2>5
<1>8. CASE ServerHears \/ UNCHANGED campusVars
  <2>1. UNCHANGED <<port, toSwitch, toClient>>
    BY <1>8 DEF ServerHears, campusVars, wires
  <2> QED
    BY <1>4, <2>1
<1> QED
  BY <1>1, <1>5, <1>6, <1>7, <1>8 DEF CampusNext

NoRefusals == {"identity", "md5", "success", "failure"}

LEMMA ClientKeepsUnrefused ==
    ASSUME Base, AtLogin, Unrefused, Client
    PROVE  Unrefused'
<1>1. ~killed /\ IInv /\ IInv'
  BY ClientLives, ClientIsOpen, StepKeepsIInv DEF Base
<1>2. Form /\ Form' /\ toClient \in Seq(EapFrame)
  BY ClientKeepsBase DEF Base, WireTypes
<1>3. \A i \in 1..Len(toClient') : toClient'[i] \in NoRefusals
  <2>1. \A i \in 1..Len(toClient) : toClient[i] \in NoRefusals
    BY DEF Unrefused, NoRefusals
  <2> QED
    BY <1>1, <1>2, <2>1, ClientWires, RequestsTail DEF Base
<1> DEFINE Rets == /\ InLoop /\ ~resev => ret = "restart"
                   /\ site = "close" /\ (InLogoff \/ pc = "main")
                         => ret \in {"restart", "unreach"}
                   /\ pc = "exited" => client = "logoff"
<1>4. SUFFICES Rets'
  BY <1>3 DEF Unrefused, NoRefusals
<1>5. Rets
  BY <1>1 DEF Unrefused
<1> USE DEF InLoop, InLogoff
<1> USE DEF sessionVars, resourceVars, mainVars, historyVars, outerVars, logoffVars
<1>6. CASE ClientMoves
  <2>1. CASE OpenCapture /\ handle'
    BY <2>1 DEF OpenCapture, BeginLogoff
  <2>2. CASE LogoffSend \/ LogoffWait
    BY <1>5, <2>2 DEF LogoffSend, LogoffWait
  <2>3. CASE LogoffDone
    BY <1>5, <2>3 DEF LogoffDone
  <2>4. CASE (OpenSocket /\ sock') \/ StartLogin
    BY <1>1, <2>4 DEF OpenSocket, StartLogin
  <2>5. CASE LoginTimeout \/ LoginUnreachable
    BY <1>5, <2>5 DEF LoginTimeout, LoginUnreachable, LoginFails, BeginLogoff
  <2>6. CASE LoopEnds \/ BeatOverdue
    BY <1>5, <2>6 DEF LoopEnds, BeatOverdue, BreakLoop, LeaveLoop, BeginLogoff
  <2>7. CASE BeatSent \/ NoBeat
    BY <1>5, <2>7 DEF BeatSent, NoBeat
  <2>8. CASE MainRestart \/ MainBackoff
    BY <1>5, <2>8 DEF MainRestart, MainBackoff, MainOnly
  <2>9. CASE MainExit
    <3>1. client \in {"login", "logoff"}
      BY <1>1 DEF IInv, TypeOK, DataTypes
    <3> QED
      BY <1>2, <1>5, <2>9, <3>1 DEF MainExit, MainOnly, FinalRet, Form
  <2> QED
    BY <1>6, <2>1, <2>2, <2>3, <2>4, <2>5, <2>6, <2>7, <2>8, <2>9 DEF ClientMoves
<1>7. CASE ClientHears
  <2> DEFINE f == Head(toClient)
  <2>1. toClient # <<>> /\ 1 \in 1..Len(toClient) /\ f = toClient[1] /\ f \in EapFrame
    BY <1>2, <1>7 DEF ClientHears
  <2>2. f \in NoRefusals
    BY <2>1 DEF Unrefused, NoRefusals
  <2>3. pc = "login" => f = "identity"
    BY <2>1 DEF AtLogin
  <2> HIDE DEF f
  <2>4. CASE LogoffWait
    BY <1>5, <2>4 DEF LogoffWait
  <2>5. CASE LoginFrame(f)
    <3>1. PICK r \in Results :
             /\ Handler(f, RecvTimes, r)
             /\ r = "ok" => pc' = "eap"
      BY <2>5 DEF LoginFrame
    <3>2. r = "ok"
      BY <2>1, <2>3, <2>5, <3>1, FrameEffect DEF LoginFrame
    <3> QED
      BY <2>5, <3>1, <3>2 DEF LoginFrame
  <2>6. CASE LoopFrame(f)
    <3>1. PICK r \in Results :
             /\ Handler(f, times, r)
             /\ ret' = r
             /\ resev' = (r = "ok")
             /\ pc' = IF r = "exit" THEN "exited" ELSE "udp"
      BY <2>6 DEF LoopFrame
    <3>2. r # "exit"
      BY <1>1, <2>1, <2>6, <3>1, HandlerEffect, RetryAssumption
         DEF LoopFrame, IInv, TypeOK, DataTypes, TimesWhole, Effect
    <3>3. r \in {"ok", "restart"}
      <4>1. CASE f = "failure"
        BY <3>1, <3>2, <4>1
           DEF Handler, Reply, LogOnly, Refusal, ErrorNotes, Failure, Granted
      <4>2. CASE f # "failure"
        BY <2>1, <2>2, <3>1, <4>2, FrameEffect DEF NoRefusals
      <4> QED
        BY <4>1, <4>2
    <3> QED
      BY <3>1, <3>2, <3>3
  <2> QED
    BY <1>7, <2>4, <2>5, <2>6 DEF ClientHears, f
<1>8. CASE ClientPolls
  BY <1>5, <1>8 DEF ClientPolls, LoopQuiet
<1>9. CASE ClientReads
  <2>1. PICK g : LoopDatagram(g)
    BY <1>9 DEF ClientReads
  <2> QED
    BY <1>5, <2>1 DEF LoopDatagram
<1>10. CASE ClientWaits
  <2>1. client \in {"login", "logoff"}
    BY <1>1 DEF IInv, TypeOK, DataTypes
  <2> QED
    BY <1>2, <1>5, <1>10, <2>1 DEF ClientWaits, MainWait, MainOnly, FinalRet, Form
<1> QED
  BY <1>6, <1>7, <1>8, <1>9, <1>10 DEF Client, ClientActs

LEMMA StepKeepsUnrefused ==
    ASSUME Base, AtLogin, Unrefused, [CampusNext]_campusVars, ~refused'
    PROVE  Unrefused'
<1> SUFFICES ASSUME ~Client PROVE Unrefused'
  BY ClientKeepsUnrefused
<1>1. toClient \in Seq(EapFrame) /\ \A i \in 1..Len(toClient) : toClient[i] \in NoRefusals
  BY DEF Base, WireTypes, Unrefused, NoRefusals
<1>2. \A i \in 1..Len(toClient') : toClient'[i] \in NoRefusals
  <2>1. CASE SwitchHears \/ SwitchRepeats \/ SwitchDrops
    <3>1. PICK frames \in {<<>>, <<"identity">>, <<"md5">>, <<"success">>, <<"failure">>} :
             Sends(frames)
      BY <2>1, SwitchSends
    <3>2. frames \in Seq(EapFrame) /\ \A i \in 1..Len(frames) : frames[i] \in NoRefusals
      <4>1. frames \in Seq(EapFrame)
        BY FramesTyped
      <4>2. /\ \A i \in 1..Len(<<>>) : <<>>[i] \in NoRefusals
            /\ \A i \in 1..Len(<<"identity">>) : <<"identity">>[i] \in NoRefusals
            /\ \A i \in 1..Len(<<"md5">>) : <<"md5">>[i] \in NoRefusals
            /\ \A i \in 1..Len(<<"success">>) : <<"success">>[i] \in NoRefusals
            /\ \A i \in 1..Len(<<"failure">>) : <<"failure">>[i] \in NoRefusals
        BY DEF NoRefusals
      <4> QED
        BY <4>1, <4>2
    <3>3. \A i \in 1..Len(toClient \o frames) : (toClient \o frames)[i] \in NoRefusals
      BY <1>1, <3>2, RequestsAppend
    <3> QED
      BY <1>1, <3>1, <3>3 DEF Sends
  <2>2. CASE ~(SwitchHears \/ SwitchRepeats \/ SwitchDrops)
    <3>1. toClient' = <<>> \/ toClient' = toClient \/ (toClient # <<>> /\ toClient' = Tail(toClient))
      BY <2>2 DEF CampusNext, campusVars, wires, ServerHears, Loses, Drop, Kill, Vanishes,
         Restart, Over
    <3> QED
      BY <1>1, <3>1, RequestsTail
  <2> QED
    BY <2>1, <2>2
<1>3. CASE Kill \/ Restart
  BY <1>2, <1>3 DEF Kill, Vanishes, Restart, Unrefused, NoRefusals, InLoop, InLogoff
<1>4. CASE ~(Kill \/ Restart)
  <2>1. UNCHANGED <<vars, killed>>
    BY <1>4 DEF CampusNext, campusVars, SwitchHears, SwitchRepeats, SwitchDrops,
       ServerHears, Loses, Over
  <2> QED
    BY <1>2, <2>1 DEF vars, sessionVars, logoffVars, outerVars, mainVars, Unrefused,
       NoRefusals, InLoop, InLogoff
<1> QED
  BY <1>3, <1>4

LEMMA UntoldInvariance ==
    ASSUME MaxLosses <= 1
    PROVE  CampusSpec => []Untold
<1>1. CampusInit => Untold
  <2> SUFFICES ASSUME CampusInit PROVE Narrow /\ AtLogin /\ Unrefused
    BY DEF Untold
  <2>1. Narrow
    BY LoadEmpty DEF CampusInit, Init, Narrow, NarrowBudget, StartFirst, StartIn, Ahead,
       Spent, InLogoff, Bit
  <2>2. AtLogin /\ Unrefused
    BY DEF CampusInit, Init, AtLogin, Unrefused, InLoop, InLogoff
  <2> QED
    BY <2>1, <2>2
<1>2. Base /\ SaidOff /\ Untold /\ [CampusNext]_campusVars => Untold'
  <2> SUFFICES ASSUME Base, SaidOff, Untold, [CampusNext]_campusVars, ~refused'
               PROVE  Narrow' /\ AtLogin' /\ Unrefused'
    BY DEF Untold
  <2>1. ~refused
    <3>1. CASE Client
      BY <3>1, ClientLives, ClientIsOpen, StepKeepsIInv, ClientWires DEF Base
    <3>2. CASE ~Client
      BY <3>2 DEF CampusNext, campusVars, SwitchHears, SwitchRepeats, SwitchDrops, Sends,
         ServerHears, Loses, Kill, Vanishes, Restart, Over
    <3> QED
      BY <3>1, <3>2
  <2>2. Narrow /\ AtLogin /\ Unrefused
    BY <2>1 DEF Untold
  <2> QED
    BY <2>2, StepKeepsNarrow, StepKeepsAtLogin, StepKeepsUnrefused
<1> QED
  BY <1>1, <1>2, BaseInvariance, SaidOffInvariance, PTL DEF CampusSpec

-----------------------------------------------------------------------------
(* The theorems                                                             *)

\* A client that counts as online is, or the FAILURE that says otherwise is on
\* its way, if the network loses no FAILURE.
THEOREM OnlineOnlyWhenOpen ==
    ASSUME "failure" \notin Losable
    PROVE  CampusSpec => []OnlineIsTrue
<1>1. CampusInit => Backing
  BY DEF CampusInit, Init, Backing, Backed, OnlineBacked, Online, InLoop
<1>2. Base /\ Budget /\ Backing /\ [CampusNext]_campusVars => Backing'
  BY StepKeepsBacking
<1>3. Base /\ Backing => OnlineIsTrue
  BY FailureSet DEF Base, WireTypes, Backing, OnlineBacked, Online, OnlineIsTrue
<1> QED
  BY <1>1, <1>2, <1>3, BaseInvariance, BudgetInvariance, PTL DEF CampusSpec

\* A client that ends by itself leaves no open port behind, even if one of its
\* Logoffs is lost.
THEOREM EndsLoggedOff ==
    ASSUME MaxLosses <= 1
    PROVE  CampusSpec => []LeavesPortClosed
<1>1. Base /\ SaidOff => LeavesPortClosed
  BY OffMeansClosed DEF LeavesPortClosed, Parting, InLogoff
<1> QED
  BY <1>1, BaseInvariance, SaidOffInvariance, PTL

\* The client ends only when asked to log off or refused by a notification: no
\* drop, no kill and no single loss makes it give up.
THEOREM GivesUpOnlyWhenTold ==
    ASSUME MaxLosses <= 1
    PROVE  CampusSpec => []EndsOnlyWhenTold
<1>1. Untold => EndsOnlyWhenTold
  BY DEF Untold, Unrefused, EndsOnlyWhenTold
<1> QED
  BY <1>1, UntoldInvariance, PTL

=============================================================================
