---------------------------- MODULE PlayerProofs ----------------------------
(***************************************************************************)
(* One player, whatever the system, libVLC, the executor, the Chromecast   *)
(* and the user do, and however often: the types are right, and the safety *)
(* properties of the module Player hold.  All of them are about messages   *)
(* that arrive late, so that the invariants say which messages can be in   *)
(* the queue of the looper, how many of a kind, and in which order.        *)
(***************************************************************************)
EXTENDS Player, TLAPS

-----------------------------------------------------------------------------
(* Queues.                                                                  *)

Has(q, S)  == \E i \in DOMAIN q : q[i] \in S
Once(q, S) == \A i, j \in DOMAIN q : q[i] \in S /\ q[j] \in S => i = j

\* Behind every "playing" comes a "stopped".
Covered(q) ==
    \E i \in DOMAIN q : q[i] = "stopped" /\ \A j \in DOMAIN q : q[j] = "playing" => j < i

\* Every "stopped" comes before the "onDestroy".
InTime(q) == \A i, j \in DOMAIN q : q[i] = "stopped" /\ q[j] = "onDestroy" => i < j

LEMMA QueueTail ==
    ASSUME NEW M, NEW q \in Seq(M), q # <<>>
    PROVE  /\ Tail(q) \in Seq(M) /\ Len(q) \in Nat /\ Len(q) > 0 /\ Head(q) = q[1]
           /\ DOMAIN Tail(q) = 1 .. Len(q) - 1 /\ DOMAIN q = 1 .. Len(q)
           /\ \A i \in 1 .. Len(q) - 1 : Tail(q)[i] = q[i + 1]
OBVIOUS

LEMMA QueueConcat ==
    ASSUME NEW M, NEW q \in Seq(M), NEW p \in Seq(M)
    PROVE  /\ q \o p \in Seq(M) /\ Len(q) \in Nat /\ Len(p) \in Nat
           /\ DOMAIN (q \o p) = 1 .. Len(q) + Len(p)
           /\ DOMAIN q = 1 .. Len(q) /\ DOMAIN p = 1 .. Len(p)
           /\ \A i \in 1 .. Len(q) : (q \o p)[i] = q[i]
           /\ \A i \in 1 .. Len(p) : (q \o p)[Len(q) + i] = p[i]
           /\ \A i \in Len(q) + 1 .. Len(q) + Len(p) : i - Len(q) \in 1 .. Len(p) /\ (q \o p)[i] = p[i - Len(q)]
OBVIOUS

LEMMA HasTail ==
    ASSUME NEW M, NEW q \in Seq(M), q # <<>>, NEW S
    PROVE  Has(q, S) <=> Head(q) \in S \/ Has(Tail(q), S)
<1>1. Has(q, S) => Head(q) \in S \/ Has(Tail(q), S)
  <2>1. SUFFICES ASSUME NEW i \in DOMAIN q, q[i] \in S, i # 1 PROVE Has(Tail(q), S)
    BY QueueTail DEF Has
  <2>2. i - 1 \in 1 .. Len(q) - 1 /\ Tail(q)[i - 1] = q[i]
    BY <2>1, QueueTail
  <2> QED BY <2>1, <2>2, QueueTail DEF Has
<1>2. Has(Tail(q), S) => Has(q, S)
  <2>1. SUFFICES ASSUME NEW i \in DOMAIN Tail(q), Tail(q)[i] \in S PROVE Has(q, S)
    BY DEF Has
  <2>2. i + 1 \in DOMAIN q /\ q[i + 1] \in S
    BY <2>1, QueueTail
  <2> QED BY <2>2 DEF Has
<1> QED BY <1>1, <1>2, QueueTail DEF Has

LEMMA HasConcat ==
    ASSUME NEW M, NEW q \in Seq(M), NEW p \in Seq(M), NEW S
    PROVE  Has(q \o p, S) <=> Has(q, S) \/ Has(p, S)
<1>1. Has(q \o p, S) => Has(q, S) \/ Has(p, S)
  <2>1. SUFFICES ASSUME NEW i \in DOMAIN (q \o p), (q \o p)[i] \in S PROVE Has(q, S) \/ Has(p, S)
    BY DEF Has
  <2>2. CASE i \in 1 .. Len(q)
    BY <2>1, <2>2, QueueConcat DEF Has
  <2>3. CASE i \in Len(q) + 1 .. Len(q) + Len(p)
    BY <2>1, <2>3, QueueConcat DEF Has
  <2>4. i \in 1 .. Len(q) \/ i \in Len(q) + 1 .. Len(q) + Len(p)
    BY <2>1, QueueConcat
  <2> QED BY <2>2, <2>3, <2>4
<1>2. Has(q, S) => Has(q \o p, S)
  <2>1. SUFFICES ASSUME NEW i \in DOMAIN q, q[i] \in S PROVE Has(q \o p, S)
    BY DEF Has
  <2>2. i \in DOMAIN (q \o p) /\ (q \o p)[i] \in S
    BY <2>1, QueueConcat
  <2> QED BY <2>2 DEF Has
<1>3. Has(p, S) => Has(q \o p, S)
  <2>1. SUFFICES ASSUME NEW i \in DOMAIN p, p[i] \in S PROVE Has(q \o p, S)
    BY DEF Has
  <2>2. Len(q) + i \in DOMAIN (q \o p) /\ (q \o p)[Len(q) + i] \in S
    BY <2>1, QueueConcat
  <2> QED BY <2>2 DEF Has
<1> QED BY <1>1, <1>2, <1>3

LEMMA HasOne == \A m, S : Has(<<m>>, S) <=> m \in S
BY DEF Has

LEMMA HasNone == \A S : ~Has(<<>>, S)
BY DEF Has

LEMMA OnceTail ==
    ASSUME NEW M, NEW q \in Seq(M), q # <<>>, NEW S, Once(q, S)
    PROVE  Once(Tail(q), S) /\ (Head(q) \in S => ~Has(Tail(q), S))
<1>1. ASSUME NEW i \in DOMAIN Tail(q), NEW j \in DOMAIN Tail(q), Tail(q)[i] \in S, Tail(q)[j] \in S
      PROVE  i = j
  <2>1. i + 1 \in DOMAIN q /\ j + 1 \in DOMAIN q /\ q[i + 1] \in S /\ q[j + 1] \in S
    BY <1>1, QueueTail
  <2>2. i + 1 = j + 1
    BY <2>1 DEF Once
  <2> QED BY <2>2, QueueTail
<1>2. ASSUME NEW i \in DOMAIN Tail(q), Tail(q)[i] \in S, Head(q) \in S
      PROVE  FALSE
  <2>1. i + 1 \in DOMAIN q /\ 1 \in DOMAIN q /\ q[i + 1] \in S /\ q[1] \in S
    BY <1>2, QueueTail
  <2>2. i + 1 = 1
    BY <2>1 DEF Once
  <2> QED BY <2>2, QueueTail
<1> QED BY <1>1, <1>2 DEF Once, Has

LEMMA OnceConcat ==
    ASSUME NEW M, NEW q \in Seq(M), NEW p \in Seq(M), NEW S,
           Once(q, S), Once(p, S), ~Has(q, S) \/ ~Has(p, S)
    PROVE  Once(q \o p, S)
<1>1. SUFFICES ASSUME NEW i \in DOMAIN (q \o p), NEW j \in DOMAIN (q \o p),
                      (q \o p)[i] \in S, (q \o p)[j] \in S
               PROVE  i = j
  BY DEF Once
<1>2. CASE i \in 1 .. Len(q) /\ j \in 1 .. Len(q)
  BY <1>1, <1>2, QueueConcat DEF Once
<1>3. CASE i \in 1 .. Len(q) /\ j \in Len(q) + 1 .. Len(q) + Len(p)
  BY <1>1, <1>3, QueueConcat DEF Has
<1>4. CASE j \in 1 .. Len(q) /\ i \in Len(q) + 1 .. Len(q) + Len(p)
  BY <1>1, <1>4, QueueConcat DEF Has
<1>5. CASE i \in Len(q) + 1 .. Len(q) + Len(p) /\ j \in Len(q) + 1 .. Len(q) + Len(p)
  <2>1. /\ i - Len(q) \in DOMAIN p /\ p[i - Len(q)] \in S
        /\ j - Len(q) \in DOMAIN p /\ p[j - Len(q)] \in S
    BY <1>1, <1>5, QueueConcat
  <2>2. i - Len(q) = j - Len(q)
    BY <2>1 DEF Once
  <2> QED BY <1>5, <2>2, QueueConcat
<1> QED BY <1>1, <1>2, <1>3, <1>4, <1>5, QueueConcat

LEMMA OnceOne == \A m, S : Once(<<m>>, S)
BY DEF Once

LEMMA OnceNone == \A S : Once(<<>>, S)
BY DEF Once

LEMMA CoveredTail ==
    ASSUME NEW M, NEW q \in Seq(M), q # <<>>, Covered(q)
    PROVE  IF Head(q) = "stopped" THEN Covered(Tail(q)) \/ ~Has(Tail(q), {"playing"}) ELSE Covered(Tail(q))
<1>1. PICK i \in DOMAIN q : q[i] = "stopped" /\ \A j \in DOMAIN q : q[j] = "playing" => j < i
  BY DEF Covered
<1>2. \A j \in DOMAIN Tail(q) : Tail(q)[j] = "playing" => j < i - 1
  BY <1>1, QueueTail
<1>3. CASE i = 1
  <2>1. ~Has(Tail(q), {"playing"})
    BY <1>2, <1>3, QueueTail DEF Has
  <2> QED BY <1>1, <1>3, <2>1, QueueTail
<1>4. CASE i # 1
  <2>1. i - 1 \in DOMAIN Tail(q) /\ Tail(q)[i - 1] = "stopped"
    BY <1>1, <1>4, QueueTail
  <2> QED BY <1>2, <2>1 DEF Covered
<1> QED BY <1>3, <1>4

LEMMA CoveredConcat ==
    ASSUME NEW M, NEW q \in Seq(M), NEW p \in Seq(M), Covered(q), ~Has(p, {"playing"})
    PROVE  Covered(q \o p)
<1>1. PICK i \in DOMAIN q : q[i] = "stopped" /\ \A j \in DOMAIN q : q[j] = "playing" => j < i
  BY DEF Covered
<1>2. i \in DOMAIN (q \o p) /\ (q \o p)[i] = "stopped"
  BY <1>1, QueueConcat
<1>3. ASSUME NEW j \in DOMAIN (q \o p), (q \o p)[j] = "playing" PROVE j < i
  <2>1. j \in 1 .. Len(q)
    BY <1>3, QueueConcat DEF Has
  <2> QED BY <1>1, <1>3, <2>1, QueueConcat
<1> QED BY <1>2, <1>3 DEF Covered

LEMMA CoveredStopped ==
    ASSUME NEW M, NEW q \in Seq(M), "stopped" \in M
    PROVE  Covered(q \o <<"stopped">>)
<1>1. <<"stopped">> \in Seq(M) /\ Len(<<"stopped">>) = 1 /\ <<"stopped">>[1] = "stopped"
  OBVIOUS
<1>2. Len(q) + 1 \in DOMAIN (q \o <<"stopped">>) /\ (q \o <<"stopped">>)[Len(q) + 1] = "stopped"
  BY <1>1, QueueConcat
<1>3. ASSUME NEW j \in DOMAIN (q \o <<"stopped">>), (q \o <<"stopped">>)[j] = "playing"
      PROVE  j < Len(q) + 1
  BY <1>1, <1>2, <1>3, QueueConcat
<1> QED BY <1>2, <1>3 DEF Covered

LEMMA InTimeTail ==
    ASSUME NEW M, NEW q \in Seq(M), q # <<>>, InTime(q)
    PROVE  InTime(Tail(q)) /\ (Head(q) = "onDestroy" => ~Has(q, {"stopped"}))
<1>1. ASSUME NEW i \in DOMAIN Tail(q), NEW j \in DOMAIN Tail(q),
             Tail(q)[i] = "stopped", Tail(q)[j] = "onDestroy"
      PROVE  i < j
  <2>1. i + 1 \in DOMAIN q /\ j + 1 \in DOMAIN q /\ q[i + 1] = "stopped" /\ q[j + 1] = "onDestroy"
    BY <1>1, QueueTail
  <2>2. i + 1 < j + 1
    BY <2>1 DEF InTime
  <2> QED BY <2>2, QueueTail
<1>2. ASSUME NEW i \in DOMAIN q, q[i] = "stopped", Head(q) = "onDestroy" PROVE FALSE
  <2>1. 1 \in DOMAIN q /\ q[1] = "onDestroy"
    BY <1>2, QueueTail
  <2>2. i < 1
    BY <1>2, <2>1 DEF InTime
  <2> QED BY <2>2, QueueTail
<1> QED BY <1>1, <1>2 DEF InTime, Has

LEMMA InTimeConcat ==
    ASSUME NEW M, NEW q \in Seq(M), NEW p \in Seq(M), InTime(q),
           ~Has(p, {"stopped"}) \/ (~Has(q, {"onDestroy"}) /\ ~Has(p, {"onDestroy"}))
    PROVE  InTime(q \o p)
<1>1. SUFFICES ASSUME NEW i \in DOMAIN (q \o p), NEW j \in DOMAIN (q \o p),
                      (q \o p)[i] = "stopped", (q \o p)[j] = "onDestroy"
               PROVE  i < j
  BY DEF InTime
<1>2. Has(q \o p, {"onDestroy"})
  BY <1>1 DEF Has
<1>3. ~Has(p, {"stopped"})
  BY <1>2, HasConcat
<1>4. i \in 1 .. Len(q)
  BY <1>1, <1>3, QueueConcat DEF Has
<1>5. CASE j \in 1 .. Len(q)
  BY <1>1, <1>4, <1>5, QueueConcat DEF InTime
<1>6. CASE j \in Len(q) + 1 .. Len(q) + Len(p)
  BY <1>4, <1>6, QueueConcat
<1> QED BY <1>1, <1>5, <1>6, QueueConcat

LEMMA RevokedQueue ==
    ASSUME NEW q \in Seq(Messages)
    PROVE  /\ Revoked(q) \in Seq(Messages)
           /\ DOMAIN Revoked(q) = DOMAIN q
           /\ \A i \in DOMAIN q : Revoked(q)[i] = IF q[i] \in Results THEN "revoked" ELSE q[i]
<1>1. DOMAIN q = 1 .. Len(q) /\ Len(q) \in Nat /\ \A i \in 1 .. Len(q) : q[i] \in Messages
  OBVIOUS
<1>2. "revoked" \in Messages
  BY DEF Messages
<1>3. Revoked(q) \in [1 .. Len(q) -> Messages]
  BY <1>1, <1>2 DEF Revoked
<1> QED BY <1>1, <1>3 DEF Revoked

LEMMA RevokedHas ==
    ASSUME NEW q \in Seq(Messages)
    PROVE  /\ ~Has(Revoked(q), Results)
           /\ \A S : S \cap (Results \cup {"revoked"}) = {} => (Has(Revoked(q), S) <=> Has(q, S))
           /\ \A S : "revoked" \notin S /\ Once(q, S) => Once(Revoked(q), S)
<1>1. "revoked" \notin Results
  BY DEF Results
<1>2. ~Has(Revoked(q), Results)
  BY <1>1, RevokedQueue DEF Has
<1>3. ASSUME NEW S, S \cap (Results \cup {"revoked"}) = {} PROVE Has(Revoked(q), S) <=> Has(q, S)
  <2>1. \A i \in DOMAIN q : Revoked(q)[i] \in S <=> q[i] \in S
    BY <1>3, RevokedQueue
  <2> QED BY <2>1, RevokedQueue DEF Has
<1>4. ASSUME NEW S, "revoked" \notin S, Once(q, S) PROVE Once(Revoked(q), S)
  <2>1. \A i \in DOMAIN q : Revoked(q)[i] \in S => q[i] \in S
    BY <1>4, RevokedQueue
  <2> QED BY <1>4, <2>1, RevokedQueue DEF Once
<1> QED BY <1>2, <1>3, <1>4

LEMMA RevokedOrder ==
    ASSUME NEW q \in Seq(Messages)
    PROVE  (Covered(q) => Covered(Revoked(q))) /\ (InTime(q) => InTime(Revoked(q)))
<1>1. \A m \in {"playing", "stopped", "onDestroy"} : m \notin Results /\ m # "revoked"
  BY DEF Results
<1>2. \A i \in DOMAIN q, m \in {"playing", "stopped", "onDestroy"} : Revoked(q)[i] = m <=> q[i] = m
  BY <1>1, RevokedQueue
<1> QED BY <1>2, RevokedQueue DEF Covered, InTime
-----------------------------------------------------------------------------
(* What a step does to the queue of the looper.                             *)

LEMMA MessageNames ==
    /\ {"onResume", "onPause", "onDestroy", "playing", "stopped", "parsed", "end", "voutLost", "hwError",
        "succeeded", "failed", "revoked", "connected", "unconnected", "loss", "gain"} \subseteq Messages
BY DEF Messages, Lifecycle, Events, Results

LEMMA PostedType ==
    ASSUME NEW p \in {<<>>, <<"stopped">>}
    PROVE  p \in Seq(Messages) /\ (p # <<>> => p = <<"stopped">>)
<1>1. "stopped" \in Messages
  BY MessageNames
<1>2. CASE p = <<>>
  BY <1>2
<1>3. CASE p = <<"stopped">>
  BY <1>1, <1>3
<1> QED BY <1>2, <1>3

LEMMA HandleQueue ==
    ASSUME looper \in Seq(Messages), NEW m, NEW p \in {<<>>, <<"stopped">>}, Handle(m, p)
    PROVE  /\ looper' \in Seq(Messages) /\ m \in Messages
           /\ Has(looper, {m})
           /\ \A S : Has(looper', S) => Has(looper, S) \/ (p # <<>> /\ "stopped" \in S)
           /\ \A S : Has(looper, S) /\ m \notin S => Has(looper', S)
           /\ \A S : Once(looper, S) /\ "stopped" \notin S =>
                    Once(looper', S) /\ (m \in S => ~Has(looper', S))
           /\ Covered(looper) =>
                Covered(looper') \/ (m = "stopped" /\ p = <<>> /\ ~Has(looper', {"playing"}))
           /\ p # <<>> => Covered(looper')
           /\ InTime(looper) /\ (p = <<>> \/ ~Has(looper, {"onDestroy"})) => InTime(looper')
           /\ InTime(looper) /\ m = "onDestroy" => ~Has(looper, {"stopped"})
<1>1. looper # <<>> /\ Head(looper) = m /\ looper' = Tail(looper) \o p
  BY DEF Handle
<1>2. /\ Tail(looper) \in Seq(Messages) /\ m \in Messages
  BY <1>1, QueueTail
<1>3. p \in Seq(Messages) /\ (p # <<>> => p = <<"stopped">>)
  BY PostedType
<1>4. looper' \in Seq(Messages)
  BY <1>1, <1>2, <1>3, QueueConcat
<1>5. \A S : Has(looper, S) <=> m \in S \/ Has(Tail(looper), S)
  BY <1>1, HasTail
<1>6. \A S : Has(looper', S) <=> Has(Tail(looper), S) \/ Has(p, S)
  BY <1>1, <1>2, <1>3, HasConcat
<1>7. \A S : Has(p, S) <=> (p # <<>> /\ "stopped" \in S)
  BY <1>3, HasOne, HasNone
<1>8. ASSUME NEW S, Once(looper, S), "stopped" \notin S
      PROVE  Once(looper', S) /\ (m \in S => ~Has(looper', S))
  <2>1. Once(Tail(looper), S) /\ (m \in S => ~Has(Tail(looper), S))
    BY <1>1, <1>8, OnceTail
  <2>2. Once(p, S)
    BY <1>3, OnceOne, OnceNone
  <2>3. ~Has(p, S)
    BY <1>7, <1>8
  <2>4. Once(Tail(looper) \o p, S)
    BY <1>2, <1>3, <2>1, <2>2, <2>3, OnceConcat
  <2> QED BY <1>1, <1>6, <2>1, <2>3, <2>4
<1>9. p = <<>> => looper' = Tail(looper)
  BY <1>1, <1>2
<1>10. p # <<>> => Covered(looper')
  BY <1>1, <1>2, <1>3, MessageNames, CoveredStopped
<1>11. ASSUME Covered(looper)
       PROVE  Covered(looper') \/ (m = "stopped" /\ p = <<>> /\ ~Has(looper', {"playing"}))
  BY <1>1, <1>9, <1>10, <1>11, CoveredTail
<1>12. ASSUME InTime(looper), p = <<>> \/ ~Has(looper, {"onDestroy"}) PROVE InTime(looper')
  <2>1. InTime(Tail(looper))
    BY <1>1, <1>12, InTimeTail
  <2>2. CASE p = <<>>
    BY <1>9, <2>1, <2>2
  <2>3. CASE p # <<>>
    <3>1. ~Has(Tail(looper), {"onDestroy"}) /\ ~Has(p, {"onDestroy"})
      BY <1>5, <1>7, <1>12, <2>3
    <3> QED BY <1>1, <1>2, <1>3, <2>1, <3>1, InTimeConcat
  <2> QED BY <2>2, <2>3
<1>13. InTime(looper) /\ m = "onDestroy" => ~Has(looper, {"stopped"})
  BY <1>1, InTimeTail
<1> QED BY <1>2, <1>4, <1>5, <1>6, <1>7, <1>8, <1>10, <1>11, <1>12, <1>13

LEMMA PostQueue ==
    ASSUME looper \in Seq(Messages), NEW m \in Messages, Post(m)
    PROVE  /\ looper' \in Seq(Messages)
           /\ \A S : Has(looper', S) <=> Has(looper, S) \/ m \in S
           /\ \A S : Once(looper, S) /\ (m \notin S \/ ~Has(looper, S)) => Once(looper', S)
           /\ Covered(looper) /\ m # "playing" => Covered(looper')
           /\ InTime(looper) /\ m # "stopped" => InTime(looper')
<1>1. looper' = looper \o <<m>> /\ <<m>> \in Seq(Messages)
  BY DEF Post
<1>2. looper' \in Seq(Messages)
  BY <1>1, QueueConcat
<1>3. \A S : Has(looper', S) <=> Has(looper, S) \/ m \in S
  BY <1>1, HasConcat, HasOne
<1>4. ASSUME NEW S, Once(looper, S), m \notin S \/ ~Has(looper, S) PROVE Once(looper', S)
  BY <1>1, <1>4, HasOne, OnceOne, OnceConcat
<1>5. Covered(looper) /\ m # "playing" => Covered(looper')
  BY <1>1, HasOne, CoveredConcat
<1>6. InTime(looper) /\ m # "stopped" => InTime(looper')
  BY <1>1, HasOne, InTimeConcat
<1> QED BY <1>2, <1>3, <1>4, <1>5, <1>6

\* OnDestroy and OnParsed, which cancel the tasks whose results may wait.
LEMMA RevokeQueue ==
    ASSUME looper \in Seq(Messages), looper # <<>>, NEW p \in {<<>>, <<"stopped">>},
           looper' = Revoked(Tail(looper)) \o p
    PROVE  /\ looper' \in Seq(Messages)
           /\ ~Has(looper', Results)
           /\ \A S : S \cap (Results \cup {"revoked"}) = {} =>
                /\ Has(looper', S) => Has(looper, S) \/ (p # <<>> /\ "stopped" \in S)
                /\ Has(looper, S) /\ Head(looper) \notin S => Has(looper', S)
           /\ \A S : Once(looper, S) /\ "stopped" \notin S /\ "revoked" \notin S => Once(looper', S)
           /\ \A S : Once(looper, S) /\ "stopped" \notin S /\ Head(looper) \in S
                       /\ S \cap (Results \cup {"revoked"}) = {} => ~Has(looper', S)
           /\ Covered(looper) /\ Head(looper) # "stopped" => Covered(looper')
           /\ p # <<>> => Covered(looper')
           /\ InTime(looper) /\ (p = <<>> \/ ~Has(looper, {"onDestroy"})) => InTime(looper')
           /\ InTime(looper) /\ Head(looper) = "onDestroy" => ~Has(looper, {"stopped"})
<1>1. PICK t \in Seq(Messages) : t = Tail(looper)
  BY QueueTail
<1>2. PICK r \in Seq(Messages) : r = Revoked(t)
  BY RevokedQueue
<1>3. p \in Seq(Messages) /\ (p # <<>> => p = <<"stopped">>)
  BY PostedType
<1>4. \A S : Has(looper, S) <=> Head(looper) \in S \/ Has(t, S)
  BY <1>1, HasTail
<1>5. ~Has(r, Results) /\ \A S : S \cap (Results \cup {"revoked"}) = {} => (Has(r, S) <=> Has(t, S))
  BY <1>2, RevokedHas
<1>6. looper' = r \o p /\ r \in Seq(Messages) /\ p \in Seq(Messages)
  BY <1>1, <1>2, <1>3
<1>7. \A S : Has(looper', S) <=> Has(r, S) \/ Has(p, S)
  <2>1. \A S : Has(r \o p, S) <=> Has(r, S) \/ Has(p, S)
    BY <1>6, HasConcat
  <2> QED BY <1>6, <2>1
<1>8. \A S : Has(p, S) <=> (p # <<>> /\ "stopped" \in S)
  BY <1>3, HasOne, HasNone
<1>9. "stopped" \notin Results
  BY DEF Results
<1>10. ~Has(looper', Results)
  BY <1>5, <1>7, <1>8, <1>9
<1>11. ASSUME NEW S, Once(looper, S), "stopped" \notin S, "revoked" \notin S PROVE Once(looper', S)
  <2>1. Once(t, S)
    BY <1>1, <1>11, OnceTail
  <2>2. Once(r, S)
    BY <1>2, <1>11, <2>1, RevokedHas
  <2>3. Once(p, S) /\ ~Has(p, S)
    BY <1>3, <1>8, <1>11, OnceOne, OnceNone
  <2> QED BY <1>2, <1>3, <1>6, <2>2, <2>3, OnceConcat
<1>12. ASSUME NEW S, Once(looper, S), "stopped" \notin S, Head(looper) \in S,
              S \cap (Results \cup {"revoked"}) = {}
       PROVE  ~Has(looper', S)
  <2>1. ~Has(t, S)
    BY <1>1, <1>12, OnceTail
  <2> QED BY <1>5, <1>7, <1>8, <1>12, <2>1
<1>13. p = <<>> => looper' = r
  BY <1>2, <1>6
<1>14. p # <<>> => Covered(looper')
  BY <1>2, <1>3, <1>6, MessageNames, CoveredStopped
<1>15. Covered(looper) /\ Head(looper) # "stopped" => Covered(looper')
  <2>1. SUFFICES ASSUME Covered(looper), Head(looper) # "stopped" PROVE Covered(r)
    BY <1>13, <1>14
  <2>2. Covered(t)
    BY <1>1, <2>1, CoveredTail
  <2> QED BY <1>2, <2>2, RevokedOrder
<1>16. ASSUME InTime(looper), p = <<>> \/ ~Has(looper, {"onDestroy"}) PROVE InTime(looper')
  <2>1. InTime(t)
    BY <1>1, <1>16, InTimeTail
  <2>2. InTime(r)
    BY <1>2, <2>1, RevokedOrder
  <2>3. CASE p = <<>>
    BY <1>13, <2>2, <2>3
  <2>4. CASE p # <<>>
    <3>1. {"onDestroy"} \cap (Results \cup {"revoked"}) = {}
      BY DEF Results
    <3>2. ~Has(r, {"onDestroy"}) /\ ~Has(p, {"onDestroy"})
      BY <1>4, <1>5, <1>8, <1>16, <2>4, <3>1
    <3> QED BY <1>2, <1>3, <1>6, <2>2, <3>2, InTimeConcat
  <2> QED BY <2>3, <2>4
<1>17. InTime(looper) /\ Head(looper) = "onDestroy" => ~Has(looper, {"stopped"})
  BY InTimeTail
<1>18. looper' \in Seq(Messages)
  <2>1. r \o p \in Seq(Messages)
    BY <1>6, QueueConcat
  <2> QED BY <1>6, <2>1
<1>19. ASSUME NEW S, S \cap (Results \cup {"revoked"}) = {}
       PROVE  /\ Has(looper', S) => Has(looper, S) \/ (p # <<>> /\ "stopped" \in S)
              /\ Has(looper, S) /\ Head(looper) \notin S => Has(looper', S)
  BY <1>4, <1>5, <1>7, <1>8, <1>19
<1> QED BY <1>10, <1>11, <1>12, <1>14, <1>15, <1>16, <1>17, <1>18, <1>19
-----------------------------------------------------------------------------
(* Types.                                                                   *)

LEMMA StoppedPosts == Stopped \in {<<>>, <<"stopped">>}
BY DEF Stopped

Revokes ==
    /\ looper # <<>> /\ Head(looper) \in {"onDestroy", "parsed"}
    /\ \E p \in {<<>>, Stopped} : looper' = Revoked(Tail(looper)) \o p

\* What nothing below depends on, when it is posted.
Plain == {"parsed", "voutLost", "hwError", "end", "unconnected", "loss", "gain"}

QuietQueue ==
    \/ UNCHANGED looper
    \/ \E m \in Plain : Post(m)
    \/ \E m : \E p \in {<<>>, Stopped} :
          /\ Handle(m, p)
          /\ m = "playing" => OnPlaying \/ Ignore
          /\ m = "stopped" => (OnStopped \/ Ignore) /\ p = <<>>
    \/ Revokes

LEMMA QueueStep ==
    ASSUME looper \in Seq(Messages), Next
    PROVE  \/ QuietQueue
           \/ \E m \in Lifecycle : Schedule(m)
           \/ Connect /\ Post("connected")
           \/ OpenInput /\ Post("playing")
           \/ \E result \in Results : EndPrepare(result) /\ Post(result)
<1> USE StoppedPosts DEF QuietQueue
<1>1. CASE Ignore
  <2>1. looper # <<>> /\ looper' = Tail(looper) /\ Tail(looper) \in Seq(Messages)
    BY <1>1, QueueTail DEF Ignore
  <2>2. looper' = Tail(looper) \o <<>>
    BY <2>1
  <2>3. Handle(Head(looper), <<>>)
    BY <2>1, <2>2 DEF Handle
  <2> QED BY <1>1, <2>3
<1>2. CASE OnDestroy
  <2>1. looper # <<>> /\ looper' = Revoked(Tail(looper)) /\ Revoked(Tail(looper)) \in Seq(Messages)
    BY <1>2, QueueTail, RevokedQueue DEF OnDestroy
  <2>2. looper' = Revoked(Tail(looper)) \o <<>>
    BY <2>1
  <2> QED BY <1>2, <2>1, <2>2 DEF Revokes, OnDestroy
<1>3. CASE OnParsed
  BY <1>3 DEF OnParsed, Revokes
<1>4. CASE MainThread
  BY <1>1, <1>2, <1>3, <1>4 DEF MainThread, SkipResume, OnResume, OnPause, OnConnected, OnUnconnected, OnSucceeded, OnFailed,
     OnCancelled, OnPlaying, OnStopped, OnEnd, OnVoutLost, OnHwError, OnLoss, OnGain
<1>5. CASE Tasks
  BY <1>5 DEF Tasks, StartTask, EndSubtitle, EndPrepare
<1>6. CASE User
  BY <1>6 DEF User, Close, PlayPause, SelectRoute, Seek, ChooseSubtitle
<1>7. CASE Outside
  <2>1. ASSUME NEW e, looper' = looper \o Event(e)
        PROVE  UNCHANGED looper \/ Post(e)
    BY <2>1 DEF Event, Post
  <2>2. CASE Connect
    BY <2>2 DEF Connect, Plain
  <2>3. CASE OpenInput \/ Advance
    BY <2>1, <2>3 DEF OpenInput, Advance, Plain
  <2>4. ASSUME NEW e \in {"parsed", "voutLost", "hwError"}, Fault(e) PROVE \E m \in Plain : Post(m)
    BY <2>4 DEF Fault, Plain
  <2>5. CASE LoseFocus \/ GainFocus
    BY <2>5 DEF LoseFocus, GainFocus, Plain
  <2> QED BY <1>7, <2>2, <2>3, <2>4, <2>5 DEF Outside, CastLoaded, TearDown
<1> QED BY <1>4, <1>5, <1>6, <1>7 DEF Next

LEMMA PlainMessages == Plain \subseteq Messages /\ Lifecycle \subseteq Messages /\ Results \subseteq Messages
BY DEF Plain, Messages, Events

LEMMA QueueType ==
    ASSUME looper \in Seq(Messages), Next
    PROVE  looper' \in Seq(Messages)
<1>1. CASE UNCHANGED looper
  BY <1>1
<1>2. ASSUME NEW m \in Messages, Post(m) PROVE looper' \in Seq(Messages)
  BY <1>2, PostQueue
<1>3. CASE \E m : \E p \in {<<>>, Stopped} : Handle(m, p)
  BY <1>3, StoppedPosts, HandleQueue
<1>4. CASE Revokes
  BY <1>4, StoppedPosts, RevokeQueue DEF Revokes
<1>5. ASSUME NEW m \in Lifecycle, Schedule(m) PROVE \E n \in Messages : Post(n)
  BY <1>5, PlainMessages DEF Schedule
<1> QED BY <1>1, <1>2, <1>3, <1>4, <1>5, QueueStep, PlainMessages, MessageNames DEF QuietQueue

\* Which actions change the tasks.
LEMMA ExecutorStep ==
    ASSUME Next
    PROVE  \/ UNCHANGED <<executor, running>>
           \/ StartTask \/ EndSubtitle \/ OnDestroy \/ OnConnected \/ OnSucceeded \/ OnParsed
           \/ \E result \in Results : EndPrepare(result)
           \/ \E choice \in Subtitles : ChooseSubtitle(choice)
<1>1. CASE MainThread
  BY <1>1 DEF prepare, MainThread, SkipResume, OnResume, OnPause, OnUnconnected, OnFailed, OnCancelled, Ignore, OnPlaying,
     OnStopped, OnEnd, OnVoutLost, OnHwError, OnLoss, OnGain
<1>2. CASE Tasks
  BY <1>2 DEF Tasks
<1>3. CASE User
  BY <1>3 DEF prepare, User, Close, PlayPause, SelectRoute, Seek, Subtitles
<1>4. CASE Outside
  BY <1>4 DEF prepare, Outside, Schedule, Connect, OpenInput, Advance, Fault, LoseFocus, GainFocus, CastLoaded, TearDown
<1> QED BY <1>1, <1>2, <1>3, <1>4 DEF Next

LEMMA CancelledTasks ==
    ASSUME executor \in Seq(TaskRecords), NEW kinds
    PROVE  /\ Cancelled(kinds) \in Seq(TaskRecords) /\ Len(Cancelled(kinds)) = Len(executor)
           /\ DOMAIN Cancelled(kinds) = 1 .. Len(executor) /\ DOMAIN executor = 1 .. Len(executor)
           /\ Len(executor) \in Nat
           /\ \A i \in 1 .. Len(executor) :
                  /\ Cancelled(kinds)[i].kind = executor[i].kind
                  /\ Cancelled(kinds)[i].choice = executor[i].choice
                  /\ Cancelled(kinds)[i].cancelled = (executor[i].cancelled \/ executor[i].kind \in kinds)
<1>1. /\ DOMAIN executor = 1 .. Len(executor) /\ Len(executor) \in Nat
      /\ \A i \in 1 .. Len(executor) : executor[i] \in TaskRecords
  OBVIOUS
<1>2. ASSUME NEW i \in 1 .. Len(executor)
      PROVE  /\ Cancelled(kinds)[i] \in TaskRecords
             /\ Cancelled(kinds)[i].kind = executor[i].kind
             /\ Cancelled(kinds)[i].choice = executor[i].choice
             /\ Cancelled(kinds)[i].cancelled = (executor[i].cancelled \/ executor[i].kind \in kinds)
  BY <1>1, <1>2 DEF Cancelled, TaskRecords
<1>3. Cancelled(kinds) \in [1 .. Len(executor) -> TaskRecords]
  BY <1>1, <1>2 DEF Cancelled
<1> QED BY <1>1, <1>2, <1>3

LEMMA NewTask ==
    ASSUME NEW kind \in Kinds, NEW choice \in Subtitles
    PROVE  /\ Task(kind, choice) \in TaskRecords /\ Task(kind, choice).kind = kind
           /\ Task(kind, choice).choice = choice /\ ~Task(kind, choice).cancelled
BY DEF Task, TaskRecords

LEMMA KindNames == {"load", "reload", "subtitle"} \subseteq Kinds /\ Without \in Subtitles
BY DEF Kinds, PrepareTasks, Subtitles

LEMMA ExecutorType ==
    ASSUME TypeOK, Next
    PROVE  executor' \in Seq(TaskRecords) /\ running' \in BOOLEAN /\ (running' => executor' # <<>>)
<1>1. executor \in Seq(TaskRecords) /\ running \in BOOLEAN /\ (running => executor # <<>>) /\ position \in Subtitles
  BY DEF TypeOK
<1>2. CASE UNCHANGED <<executor, running>>
  BY <1>1, <1>2
<1>3. CASE StartTask
  <2>1. executor # <<>> /\ ~running
    BY <1>3 DEF StartTask
  <2>2. Tail(executor) \in Seq(TaskRecords)
    BY <1>1, <2>1
  <2>3. CASE executor' = Tail(executor) /\ UNCHANGED running
    <3>1. ~running'
      BY <2>1, <2>3
    <3> QED BY <1>1, <2>2, <2>3, <3>1
  <2>4. CASE running' = TRUE /\ UNCHANGED executor
    BY <1>1, <2>1, <2>4
  <2> QED BY <1>3, <2>3, <2>4 DEF StartTask
<1>4. CASE EndTask
  <2>1. executor # <<>> /\ executor' = Tail(executor) /\ running' = FALSE
    BY <1>1, <1>4 DEF EndTask
  <2>2. Tail(executor) \in Seq(TaskRecords)
    BY <1>1, <2>1
  <2> QED BY <2>1, <2>2
<1>5. CASE OnDestroy
  <2>1. executor' \in Seq(TaskRecords) /\ UNCHANGED running /\ Len(executor') = Len(executor)
    BY <1>1, <1>5, CancelledTasks DEF OnDestroy
  <2> QED BY <1>1, <2>1
<1>6. CASE OnConnected
  <2>1. UNCHANGED <<executor, running>> \/ (UNCHANGED running /\ executor' = Append(executor, Task("load", Without)))
    BY <1>6 DEF OnConnected, LoadVideo, Prepare
  <2> QED BY <1>1, <2>1, NewTask, KindNames
<1>7. ASSUME NEW kinds, NEW kind \in Kinds, NEW choice \in Subtitles,
             executor' = Append(Cancelled(kinds), Task(kind, choice)), UNCHANGED running
      PROVE  executor' \in Seq(TaskRecords) /\ executor' # <<>> /\ running' \in BOOLEAN
  BY <1>1, <1>7, CancelledTasks, NewTask
<1>8. CASE OnSucceeded
  BY <1>1, <1>7, <1>8, KindNames DEF OnSucceeded, DownloadSubtitle
<1>9. CASE OnParsed
  BY <1>7, <1>9, KindNames DEF OnParsed, Prepare, ReloadTasks
<1>10. ASSUME NEW choice \in Subtitles, ChooseSubtitle(choice)
       PROVE  executor' \in Seq(TaskRecords) /\ executor' # <<>> /\ running' \in BOOLEAN
  BY <1>7, <1>10, KindNames DEF ChooseSubtitle, DownloadSubtitle
<1> QED BY <1>2, <1>3, <1>4, <1>5, <1>6, <1>8, <1>9, <1>10, ExecutorStep DEF EndSubtitle, EndPrepare

LEMMA TimesType ==
    /\ Times \subseteq Int /\ 0 \in Times /\ NoPosition \in Times
    /\ \A t \in Times : t - 1 \in Times \/ t = NoPosition
    /\ \A t \in Times : -1 <= t /\ t <= Length
    /\ 0 .. Length \subseteq Times /\ Length \in Nat
BY PlayerAssumption DEF Times, NoPosition

LEMMA StateNames == {"idle", "opening", "resuming", "playing", "paused", "stopped", "ended"} \subseteq States
BY DEF States

LEMMA VlcChanges ==
    ASSUME vlc \in VlcRecords
    PROVE  /\ \A time \in Times : PlayIndex(time) => vlc' \in VlcRecords
           /\ Play \/ PauseVlc \/ Stop => vlc' \in VlcRecords
           /\ \A time \in Times : [vlc EXCEPT !.time = time] \in VlcRecords
           /\ \A state \in States : [vlc EXCEPT !.state = state] \in VlcRecords
<1>1. vlc.state \in States /\ vlc.time \in Times
  BY DEF VlcRecords
<1>2. \A time \in Times, state \in States : [state |-> state, time |-> time] \in VlcRecords
  BY DEF VlcRecords
<1>3. \A time \in Times : PlayIndex(time) => vlc' \in VlcRecords
  BY <1>2, StateNames DEF PlayIndex
<1>4. /\ \A time \in Times : [vlc EXCEPT !.time = time] \in VlcRecords
      /\ \A state \in States : [vlc EXCEPT !.state = state] \in VlcRecords
  BY DEF VlcRecords
<1>5. Play => vlc' \in VlcRecords
  BY <1>2, <1>4, StateNames, TimesType DEF Play
<1>6. PauseVlc => vlc' \in VlcRecords
  BY <1>4, StateNames DEF PauseVlc
<1>7. Stop => vlc' \in VlcRecords
  BY <1>2, StateNames, TimesType DEF Stop
<1> QED BY <1>3, <1>4, <1>5, <1>6, <1>7

\* Which actions change libVLC.
LEMMA VlcStep ==
    ASSUME Next
    PROVE  \/ UNCHANGED vlc
           \/ OnPause \/ OnConnected \/ OnSucceeded \/ OnPlaying \/ OnParsed \/ OnHwError \/ OnLoss \/ OnGain
           \/ PlayPause \/ SelectRoute \/ OpenInput \/ Advance
           \/ \E delta \in {-2, 2} : Seek(delta)
           \/ \E time \in 0 .. Length : TearDown(time)
<1>1. CASE MainThread
  BY <1>1 DEF MainThread, SkipResume, OnResume, OnDestroy, OnUnconnected, OnFailed, OnCancelled, Ignore,
     OnStopped, OnEnd, OnVoutLost
<1>2. CASE Tasks
  BY <1>2 DEF Tasks, StartTask, EndPrepare, EndSubtitle
<1>3. CASE User
  BY <1>3 DEF User, Close, ChooseSubtitle
<1>4. CASE Outside
  BY <1>4 DEF Outside, Schedule, Connect, Fault, LoseFocus, GainFocus, CastLoaded
<1> QED BY <1>1, <1>2, <1>3, <1>4 DEF Next

LEMMA VlcType ==
    ASSUME TypeOK, Next
    PROVE  vlc' \in VlcRecords
<1>1. vlc \in VlcRecords /\ vlc.state \in States /\ vlc.time \in Times /\ VIDEO_RESUME_TIME \in Times
  BY DEF TypeOK, VlcRecords
<1>2. \A time \in Times : PopcornPlayAt(time) => vlc' \in VlcRecords
  BY <1>1, VlcChanges DEF PopcornPlayAt
<1>3. CASE OnPause
  BY <1>1, <1>3, VlcChanges DEF OnPause
<1>4. CASE OnConnected
  <2>1. ResumeFrom \in Times
    BY <1>1, TimesType DEF ResumeFrom
  <2> QED BY <1>1, <1>4, <2>1, VlcChanges DEF OnConnected
<1>5. CASE OnSucceeded
  BY <1>2, <1>5, TimesType DEF OnSucceeded
<1>6. CASE OnPlaying
  BY <1>1, <1>6, VlcChanges DEF OnPlaying, PauseForCast
<1>7. CASE OnParsed
  BY <1>1, <1>7, VlcChanges DEF OnParsed
<1>8. CASE OnHwError
  <2>1. (IF HasInput /\ vlc.time > 3 THEN vlc.time - 3 ELSE 0) \in Times
    BY <1>1, PlayerAssumption DEF Times, NoPosition
  <2> QED BY <1>1, <1>2, <1>8, <2>1, VlcChanges DEF OnHwError
<1>9. CASE OnLoss \/ OnGain
  BY <1>1, <1>9, VlcChanges DEF OnLoss, OnGain
<1>10. CASE PlayPause
  BY <1>1, <1>10, VlcChanges DEF PlayPause, PopcornPlay, PopcornPause
<1>11. CASE SelectRoute
  BY <1>1, <1>11, VlcChanges DEF SelectRoute
<1>12. CASE OpenInput
  BY <1>1, <1>12, VlcChanges, StateNames DEF OpenInput
<1>13. CASE Advance
  <2>1. vlc.time < Length => vlc.time + 1 \in Times
    BY <1>1, PlayerAssumption DEF Times, NoPosition
  <2>2. \/ vlc' = [vlc EXCEPT !.time = vlc.time + 1] /\ vlc.time < Length
        \/ vlc' = [vlc EXCEPT !.state = "ended"]
    BY <1>13 DEF Advance
  <2> QED BY <1>1, <2>1, <2>2, VlcChanges, StateNames
<1>14. ASSUME NEW delta \in {-2, 2}, Seek(delta) PROVE vlc' \in VlcRecords
  <2>1. Target(delta) \in Times
    BY <1>1, PlayerAssumption DEF Target, Times, NoPosition
  <2> QED BY <1>1, <1>14, <2>1, VlcChanges DEF Seek
<1>15. ASSUME NEW time \in 0 .. Length, TearDown(time) PROVE vlc' \in VlcRecords
  BY <1>1, <1>15, VlcChanges, TimesType DEF TearDown
<1> QED BY <1>1, <1>3, <1>4, <1>5, <1>6, <1>7, <1>8, <1>9, <1>10, <1>11, <1>12, <1>13, <1>14, <1>15, VlcStep

\* Which actions change the life of the activity or its binding.
LEMMA LifeStep ==
    ASSUME Next
    PROVE  \/ UNCHANGED <<activity, mSwitchingView, service, VIDEO_RESUME_TIME>>
           \/ OnResume \/ OnPause \/ OnDestroy \/ OnConnected \/ OnVoutLost \/ Connect
<1>1. CASE MainThread
  BY <1>1 DEF lifecycle, MainThread, SkipResume, OnUnconnected, OnSucceeded, OnFailed, OnCancelled, Ignore, OnPlaying,
     OnStopped, OnParsed, OnEnd, OnHwError, OnLoss, OnGain
<1>2. CASE Tasks
  BY <1>2 DEF lifecycle, Tasks, StartTask, EndPrepare, EndSubtitle
<1>3. CASE User
  BY <1>3 DEF lifecycle, User, Close, PlayPause, SelectRoute, Seek, ChooseSubtitle
<1>4. CASE Outside
  BY <1>4 DEF lifecycle, Outside, Schedule, OpenInput, Advance, Fault, LoseFocus, GainFocus, CastLoaded, TearDown
<1> QED BY <1>1, <1>2, <1>3, <1>4 DEF Next

LifeType ==
    /\ activity \in {"created", "resumed", "paused", "destroyed"}
    /\ mSwitchingView \in BOOLEAN /\ service \in {"unbound", "asked", "answered", "started"}
    /\ VIDEO_RESUME_TIME \in Times /\ left \in Times

LEMMA LifeTypes ==
    ASSUME TypeOK, Next
    PROVE  LifeType'
<1>1. LifeType /\ vlc.time \in Times
  BY DEF TypeOK, LifeType, VlcRecords
<1>2. left' \in {left, NoPosition, vlc.time}
  <2>1. CASE MainThread
    BY <2>1 DEF hist, MainThread, SkipResume, OnResume, OnPause, OnDestroy, OnConnected, OnUnconnected, OnSucceeded, OnFailed,
       OnCancelled, Ignore, OnPlaying, OnStopped, OnParsed, OnEnd, OnVoutLost, OnHwError, OnLoss, OnGain, PopcornPlayAt
  <2>2. CASE Tasks
    BY <2>2 DEF hist, Tasks, StartTask, EndPrepare, EndSubtitle
  <2>3. CASE User
    BY <2>3 DEF hist, User, Close, PlayPause, SelectRoute, Seek, ChooseSubtitle
  <2>4. CASE Outside
    BY <2>4 DEF hist, Outside, Schedule, Connect, OpenInput, Advance, Fault, LoseFocus, GainFocus, CastLoaded, TearDown
  <2> QED BY <2>1, <2>2, <2>3, <2>4 DEF Next
<1>3. left' \in Times
  BY <1>1, <1>2, TimesType DEF LifeType
<1>4. CASE UNCHANGED <<activity, mSwitchingView, service, VIDEO_RESUME_TIME>>
  BY <1>1, <1>3, <1>4 DEF LifeType
<1>5. CASE OnResume
  BY <1>1, <1>3, <1>5 DEF LifeType, OnResume
<1>6. CASE OnPause
  <2>1. SavedTime \in Times
    BY <1>1, PlayerAssumption DEF SavedTime, LifeType, Times, NoPosition
  <2> QED BY <1>1, <1>3, <1>6, <2>1 DEF LifeType, OnPause
<1>7. CASE OnDestroy
  BY <1>1, <1>3, <1>7 DEF LifeType, OnDestroy
<1>8. CASE OnConnected
  BY <1>1, <1>3, <1>8, TimesType DEF LifeType, OnConnected
<1>9. CASE OnVoutLost
  BY <1>1, <1>3, <1>9 DEF LifeType, OnVoutLost
<1>10. CASE Connect
  BY <1>1, <1>3, <1>10 DEF LifeType, Connect
<1> QED BY <1>4, <1>5, <1>6, <1>7, <1>8, <1>9, <1>10, LifeStep

\* The flags, in three parts.
EndType ==
    /\ finishing \in BOOLEAN /\ mEndReached \in BOOLEAN
    /\ dialog \in BOOLEAN /\ crashed \in BOOLEAN

TaskType ==
    /\ isTorrentVideoReady \in BOOLEAN /\ mPrepareVideoTask \in {"none", "made"}
    /\ focus \in {"none", "held", "lost"}
    /\ isRouteSelected \in BOOLEAN /\ isCastEnabled \in BOOLEAN
    /\ position \in Subtitles /\ subtitles \in Subtitles

HistoryType ==
    /\ hasty \in BOOLEAN /\ regained \in BOOLEAN /\ overlap \in BOOLEAN
    /\ disturbed \in Nat

LEMMA EndTypes ==
    ASSUME TypeOK, Next
    PROVE  EndType'
<1>1. EndType
  BY DEF TypeOK, EndType
<1> USE DEF leaving, screen, lifecycle
<1>2. CASE MainThread
  BY <1>1, <1>2 DEF EndType, MainThread, SkipResume, OnResume, OnPause, OnDestroy, OnConnected, OnUnconnected, OnSucceeded,
     OnFailed, OnCancelled, Ignore, OnPlaying, OnStopped, OnParsed, OnEnd, OnVoutLost, OnHwError, OnLoss, OnGain
<1>3. CASE Tasks
  BY <1>1, <1>3 DEF EndType, Tasks, StartTask, EndPrepare, EndSubtitle
<1>4. CASE User
  BY <1>1, <1>4 DEF EndType, User, Close, PlayPause, SelectRoute, Seek, ChooseSubtitle
<1>5. CASE Outside
  BY <1>1, <1>5 DEF EndType, Outside, Schedule, Connect, OpenInput, Advance, Fault, LoseFocus, GainFocus, CastLoaded, TearDown
<1> QED BY <1>2, <1>3, <1>4, <1>5 DEF Next

LEMMA TaskTypes ==
    ASSUME TypeOK, Next
    PROVE  TaskType'
<1>1. TaskType
  BY DEF TypeOK, TaskType
<1> USE DEF prepare, cast, subs
<1>2. CASE MainThread
  <2>1. CASE OnConnected
    BY <1>1, <2>1 DEF TaskType, OnConnected, LoadVideo, Prepare
  <2>2. CASE OnSucceeded
    BY <1>1, <2>2, KindNames DEF TaskType, OnSucceeded
  <2>3. CASE OnParsed
    BY <1>1, <2>3 DEF TaskType, OnParsed, Prepare
  <2> QED
    BY <1>1, <1>2, <2>1, <2>2, <2>3 DEF TaskType, MainThread, SkipResume, OnResume, OnPause, OnDestroy, OnUnconnected,
       OnFailed, OnCancelled, Ignore, OnPlaying, OnStopped, OnEnd, OnVoutLost, OnHwError, OnLoss, OnGain, Abandon
<1>3. CASE Tasks
  <2>1. CASE EndSubtitle
    <3>1. executor # <<>> /\ executor \in Seq(TaskRecords)
      BY <2>1 DEF EndSubtitle, EndTask, TypeOK
    <3>2. Head(executor) \in TaskRecords
      BY <3>1
    <3>3. Head(executor).choice \in Subtitles
      BY <3>2 DEF TaskRecords
    <3>4. subtitles' \in Subtitles
      BY <2>1, <3>3, KindNames DEF EndSubtitle, Loaded
    <3> QED BY <1>1, <2>1, <3>4 DEF TaskType, EndSubtitle
  <2> QED BY <1>1, <1>3, <2>1 DEF TaskType, Tasks, StartTask, EndPrepare
<1>4. CASE User
  <2>1. ASSUME NEW choice \in Subtitles, ChooseSubtitle(choice) PROVE TaskType'
    BY <1>1, <2>1 DEF TaskType, ChooseSubtitle
  <2> QED BY <1>1, <1>4, <2>1 DEF TaskType, User, Close, PlayPause, SelectRoute, Seek, Subtitles
<1>5. CASE Outside
  BY <1>1, <1>5 DEF TaskType, Outside, Schedule, Connect, OpenInput, Advance, Fault, LoseFocus, GainFocus, CastLoaded, TearDown
<1> QED BY <1>2, <1>3, <1>4, <1>5 DEF Next

LEMMA HistoryTypes ==
    ASSUME TypeOK, Next
    PROVE  HistoryType'
<1>1. HistoryType
  BY DEF TypeOK, HistoryType
<1> USE DEF Overlap, Disturb, Act, hist
<1>2. CASE MainThread
  <2>1. CASE OnPause
    <3>1. hasty' \in BOOLEAN /\ disturbed' \in Nat
      BY <1>1, <2>1 DEF HistoryType, OnPause
    <3>2. UNCHANGED <<regained, overlap>>
      BY <2>1 DEF OnPause
    <3> QED BY <1>1, <3>1, <3>2 DEF HistoryType
  <2>3. CASE OnResume
    BY <1>1, <2>3 DEF HistoryType, OnResume
  <2>4. CASE OnConnected
    <3>1. hasty' \in BOOLEAN
      BY <1>1, <2>4 DEF HistoryType, OnConnected
    <3>2. UNCHANGED <<regained, disturbed>> /\ overlap' \in BOOLEAN
      BY <1>1, <2>4 DEF HistoryType, OnConnected
    <3> QED BY <1>1, <3>1, <3>2 DEF HistoryType
  <2>2. CASE OnSucceeded \/ OnHwError \/ OnGain \/ OnParsed
    BY <1>1, <2>2 DEF HistoryType, OnSucceeded, OnHwError, OnGain, OnParsed, PopcornPlayAt
  <2> QED
    BY <1>1, <1>2, <2>1, <2>2, <2>3, <2>4 DEF HistoryType, MainThread, SkipResume, OnDestroy, OnUnconnected, OnFailed, OnCancelled,
       Ignore, OnPlaying, OnStopped, OnEnd, OnVoutLost, OnLoss
<1>3. CASE Tasks
  BY <1>1, <1>3 DEF HistoryType, Tasks, StartTask, EndPrepare, EndSubtitle
<1>4. CASE User
  <2>1. CASE SelectRoute
    BY <1>1, <2>1 DEF HistoryType, SelectRoute
  <2>2. CASE Close \/ PlayPause
    BY <1>1, <2>2 DEF HistoryType, Close, PlayPause
  <2>3. ASSUME NEW delta \in {-2, 2}, Seek(delta) PROVE HistoryType'
    BY <1>1, <2>3 DEF HistoryType, Seek
  <2>4. ASSUME NEW choice \in SubtitleChoices \cup {Without}, ChooseSubtitle(choice) PROVE HistoryType'
    BY <1>1, <2>4 DEF HistoryType, ChooseSubtitle
  <2> QED BY <1>4, <2>1, <2>2, <2>3, <2>4 DEF User
<1>5. CASE Outside
  <2>1. ASSUME NEW m \in Lifecycle, Schedule(m) PROVE HistoryType'
    BY <1>1, <2>1 DEF HistoryType, Schedule
  <2>2. CASE Connect \/ LoseFocus
    BY <1>1, <2>2 DEF HistoryType, Connect, LoseFocus
  <2>3. ASSUME NEW e \in {"parsed", "voutLost", "hwError"}, Fault(e) PROVE HistoryType'
    BY <1>1, <2>3 DEF HistoryType, Fault
  <2>4. CASE OpenInput \/ Advance \/ GainFocus \/ CastLoaded
    BY <1>1, <2>4 DEF HistoryType, OpenInput, Advance, GainFocus, CastLoaded
  <2>5. ASSUME NEW time \in 0 .. Length, TearDown(time) PROVE HistoryType'
    BY <1>1, <2>5 DEF HistoryType, TearDown
  <2> QED BY <1>5, <2>1, <2>2, <2>3, <2>4, <2>5 DEF Outside
<1> QED BY <1>2, <1>3, <1>4, <1>5 DEF Next

LEMMA InitType == Init => TypeOK
<1> SUFFICES ASSUME Init PROVE TypeOK
  OBVIOUS
<1>1. looper \in Seq(Messages)
  <2>1. "onResume" \in Messages
    BY MessageNames
  <2> QED BY <2>1 DEF Init
<1>2. vlc \in VlcRecords
  BY StateNames, TimesType DEF Init, VlcRecords
<1>3. executor \in Seq(TaskRecords)
  BY DEF Init
<1> QED BY <1>1, <1>2, <1>3, TimesType, KindNames DEF Init, TypeOK, Subtitles

LEMMA NextType == TypeOK /\ [Next]_vars => TypeOK'
<1> SUFFICES ASSUME TypeOK, [Next]_vars PROVE TypeOK'
  OBVIOUS
<1>1. CASE Next
  <2>1. looper' \in Seq(Messages) /\ vlc' \in VlcRecords
    BY <1>1, QueueType, VlcType DEF TypeOK
  <2>2. executor' \in Seq(TaskRecords) /\ running' \in BOOLEAN /\ (running' => executor' # <<>>)
    BY <1>1, ExecutorType
  <2>3. LifeType' /\ EndType' /\ TaskType' /\ HistoryType'
    BY <1>1, LifeTypes, EndTypes, TaskTypes, HistoryTypes
  <2> QED BY <2>1, <2>2, <2>3 DEF TypeOK, LifeType, EndType, TaskType, HistoryType
<1>2. CASE UNCHANGED vars
  BY <1>2 DEF TypeOK, vars, lifecycle, prepare, cast, subs, hist, leaving, screen
<1> QED BY <1>1, <1>2

(* Every field, task and message of the player keeps its type; in           *)
(* particular libVLC is never set to a time outside of the video.           *)
THEOREM PlayerTypes == Spec => []TypeOK
BY InitType, NextType, PTL DEF Spec

-----------------------------------------------------------------------------
(* The life of the activity.                                                *)

LEMMA HasSub == \A q, S, T : S \subseteq T /\ Has(q, S) => Has(q, T)
BY DEF Has

\* Messages that are not posted do not come from nowhere.
LEMMA Quiet ==
    ASSUME looper \in Seq(Messages), QuietQueue, NEW S, S \cap (Plain \cup {"stopped", "revoked"}) = {},
           S \cap Results = {} \/ S = Results
    PROVE  (Has(looper', S) => Has(looper, S)) /\ (Once(looper, S) => Once(looper', S))
<1>1. CASE UNCHANGED looper
  BY <1>1
<1>2. ASSUME NEW m \in Plain, Post(m)
      PROVE  (Has(looper', S) => Has(looper, S)) /\ (Once(looper, S) => Once(looper', S))
  BY <1>2, PostQueue, PlainMessages
<1>3. ASSUME NEW m, NEW p \in {<<>>, Stopped}, Handle(m, p)
      PROVE  (Has(looper', S) => Has(looper, S)) /\ (Once(looper, S) => Once(looper', S))
  BY <1>3, StoppedPosts, HandleQueue
<1>4. ASSUME Revokes, S \cap Results = {}
      PROVE  (Has(looper', S) => Has(looper, S)) /\ (Once(looper, S) => Once(looper', S))
  <2>1. S \cap (Results \cup {"revoked"}) = {}
    BY <1>4
  <2> QED BY <1>4, <2>1, StoppedPosts, RevokeQueue DEF Revokes
<1>5. ASSUME Revokes, S = Results
      PROVE  (Has(looper', S) => Has(looper, S)) /\ (Once(looper, S) => Once(looper', S))
  BY <1>5, StoppedPosts, RevokeQueue DEF Revokes
<1> QED BY <1>1, <1>2, <1>3, <1>4, <1>5 DEF QuietQueue

LEMMA WatchedSets ==
    /\ \A S \in {Lifecycle, {"onResume"}, {"onPause"}, {"onDestroy"}, {"connected"}, {"playing"}} :
          S \cap (Plain \cup {"stopped", "revoked"}) = {} /\ S \cap Results = {}
    /\ Results \cap (Plain \cup {"stopped", "revoked"}) = {}
<1>1. \A m \in Plain \cup {"stopped", "revoked"} :
        /\ m \notin {"onResume", "onPause", "onDestroy", "connected", "playing"}
        /\ m # "succeeded" /\ m # "failed"
  BY DEF Plain
<1> QED BY <1>1 DEF Lifecycle, Results

LEMMA LifecycleNames == \A m \in {"onResume", "onPause", "onDestroy"} : m \in Lifecycle /\ {m} \subseteq Lifecycle
BY DEF Lifecycle

\* One message of the life of the activity waits at a time, and it suits the
\* state of the activity; so one that is destroyed stays so.
LifeOK ==
    /\ Once(looper, Lifecycle)
    /\ Has(looper, {"onResume"}) => activity \in {"created", "paused"}
    /\ Has(looper, {"onPause"}) => activity = "resumed"
    /\ Has(looper, {"onDestroy"}) => activity = "paused" /\ finishing
    /\ activity # "resumed" => service = "unbound"
    /\ mSwitchingView => finishing

LEMMA FinishingStays ==
    ASSUME Next, finishing
    PROVE  finishing'
<1> USE DEF leaving, lifecycle
<1>1. CASE MainThread
  BY <1>1 DEF MainThread, SkipResume, OnResume, OnPause, OnDestroy, OnConnected, OnUnconnected, OnSucceeded,
     OnFailed, OnCancelled, Ignore, OnPlaying, OnStopped, OnParsed, OnEnd, OnVoutLost, OnHwError, OnLoss, OnGain
<1>2. CASE Tasks
  BY <1>2 DEF Tasks, StartTask, EndPrepare, EndSubtitle
<1>3. CASE User
  BY <1>3 DEF User, Close, PlayPause, SelectRoute, Seek, ChooseSubtitle
<1>4. CASE Outside
  BY <1>4 DEF Outside, Schedule, Connect, OpenInput, Advance, Fault, LoseFocus, GainFocus, CastLoaded, TearDown
<1> QED BY <1>1, <1>2, <1>3, <1>4 DEF Next

LEMMA LifeNext ==
    ASSUME TypeOK, LifeOK, Next
    PROVE  LifeOK'
<1>1. looper \in Seq(Messages) /\ (finishing => finishing')
  BY FinishingStays DEF TypeOK
<1>2. ASSUME NEW m \in Lifecycle, Schedule(m) PROVE LifeOK'
  <2>1. ~Has(looper, Lifecycle) /\ Post(m) /\ m \in Messages
    BY <1>2, PlainMessages DEF Schedule, Waits, Has
  <2>2. Once(looper', Lifecycle)
    BY <1>1, <2>1, PostQueue DEF LifeOK
  <2>3. \A n \in {"onResume", "onPause", "onDestroy"} : Has(looper', {n}) => n = m
    BY <1>1, <2>1, PostQueue, HasSub, LifecycleNames
  <2>4. UNCHANGED <<activity, finishing, service, mSwitchingView>>
    BY <1>2 DEF Schedule, lifecycle, leaving
  <2>5. /\ m = "onResume" => activity = "paused"
        /\ m = "onPause" => activity = "resumed"
        /\ m = "onDestroy" => activity = "paused" /\ finishing
    BY <1>2 DEF Schedule, Lifecycle
  <2> QED BY <2>2, <2>3, <2>4, <2>5 DEF LifeOK
<1>3. ASSUME ~\E m \in Lifecycle : Schedule(m)
      PROVE  /\ Once(looper', Lifecycle)
             /\ \A n \in {"onResume", "onPause", "onDestroy"} : Has(looper', {n}) => Has(looper, {n})
  <2>1. CASE QuietQueue
    BY <1>1, <2>1, Quiet, WatchedSets DEF LifeOK
  <2>2. ASSUME NEW m \in Messages \ Lifecycle, Post(m)
        PROVE  /\ Once(looper', Lifecycle)
               /\ \A n \in {"onResume", "onPause", "onDestroy"} : Has(looper', {n}) => Has(looper, {n})
    BY <1>1, <2>2, PostQueue, LifecycleNames DEF LifeOK
  <2>3. /\ "connected" \in Messages \ Lifecycle /\ "playing" \in Messages \ Lifecycle
        /\ Results \subseteq Messages \ Lifecycle
    BY MessageNames DEF Lifecycle, Results
  <2> QED BY <1>1, <1>3, <2>1, <2>2, <2>3, QueueStep
<1>4. ASSUME NEW m \in Lifecycle, looper # <<>>, Head(looper) = m, Handle(m, <<>>) \/ Revokes
             \/ Handle(m, Stopped)
      PROVE  ~Has(looper', Lifecycle)
  <2>1. "stopped" \notin Lifecycle
    BY DEF Lifecycle
  <2>2. CASE \E p \in {<<>>, <<"stopped">>} : Handle(m, p)
    BY <1>1, <1>4, <2>1, <2>2, HandleQueue DEF LifeOK
  <2>3. CASE Revokes
    <3>1. "stopped" \notin Lifecycle /\ Lifecycle \cap (Results \cup {"revoked"}) = {}
      BY DEF Lifecycle, Results
    <3> QED BY <1>1, <1>4, <2>3, <3>1, StoppedPosts, RevokeQueue DEF Revokes, LifeOK
  <2> QED BY <1>4, <2>2, <2>3, StoppedPosts
<1>5. CASE UNCHANGED <<activity, mSwitchingView, service>> /\ ~\E m \in Lifecycle : Schedule(m)
  BY <1>1, <1>3, <1>5 DEF LifeOK
<1>6. CASE OnResume
  <2>1. ~Has(looper', Lifecycle)
    BY <1>4, <1>6, LifecycleNames DEF OnResume, Handle
  <2>2. activity' = "resumed" /\ (mSwitchingView' => mSwitchingView)
    BY <1>6 DEF OnResume
  <2> QED BY <1>1, <2>1, <2>2, HasSub, LifecycleNames DEF LifeOK, Once, Has
<1>7. CASE OnPause
  <2>1. Handle("onPause", <<>>) \/ Handle("onPause", Stopped)
    BY <1>7 DEF OnPause
  <2>2. ~Has(looper', Lifecycle)
    BY <1>4, <2>1, LifecycleNames DEF Handle
  <2>3. activity' = "paused" /\ service' = "unbound" /\ UNCHANGED mSwitchingView
    BY <1>7 DEF OnPause
  <2> QED BY <1>1, <2>2, <2>3, HasSub, LifecycleNames DEF LifeOK, Once, Has
<1>8. CASE OnDestroy
  <2>1. Revokes /\ looper # <<>> /\ Head(looper) = "onDestroy"
    <3>1. looper # <<>> /\ looper' = Revoked(Tail(looper)) /\ Revoked(Tail(looper)) \in Seq(Messages)
      BY <1>1, <1>8, QueueTail, RevokedQueue DEF OnDestroy
    <3>2. looper' = Revoked(Tail(looper)) \o <<>>
      BY <3>1
    <3> QED BY <1>8, <3>1, <3>2 DEF Revokes, OnDestroy
  <2>2. ~Has(looper', Lifecycle)
    BY <1>4, <2>1, LifecycleNames
  <2>3. Has(looper, {"onDestroy"})
    BY <1>1, <2>1, HasTail
  <2>4. activity' = "destroyed" /\ UNCHANGED <<service, mSwitchingView>> /\ activity = "paused"
    BY <1>8, <2>3 DEF OnDestroy, LifeOK
  <2> QED BY <1>1, <2>2, <2>4, HasSub, LifecycleNames DEF LifeOK, Once, Has
<1>9. CASE (OnConnected \/ OnVoutLost \/ Connect) /\ ~\E m \in Lifecycle : Schedule(m)
  <2>1. mSwitchingView' => finishing'
    BY <1>1, <1>9 DEF LifeOK, OnConnected, OnVoutLost, Connect
  <2>2. UNCHANGED activity /\ (activity # "resumed" => service' = "unbound")
    BY <1>9 DEF LifeOK, OnConnected, OnVoutLost, Connect
  <2> QED BY <1>1, <1>3, <1>9, <2>1, <2>2 DEF LifeOK
<1> QED BY <1>2, <1>5, <1>6, <1>7, <1>8, <1>9, LifeStep

-----------------------------------------------------------------------------
(* One preparation.                                                         *)

Live(task) == task.kind \in PrepareTasks /\ ~task.cancelled

NoneLive(tasks) == \A i \in DOMAIN tasks : ~Live(tasks[i])
OneLive(tasks)  == \A i, j \in DOMAIN tasks : Live(tasks[i]) /\ Live(tasks[j]) => i = j

\* Of the preparations in the executor and the results in the queue only one
\* counts, and none once the video is ready.
ReadyOK ==
    /\ OneLive(executor) /\ Once(looper, Results)
    /\ Has(looper, Results) => NoneLive(executor)
    /\ isTorrentVideoReady \/ mPrepareVideoTask = "none" => ~Has(looper, Results) /\ NoneLive(executor)
    /\ isTorrentVideoReady => mPrepareVideoTask # "none"

LEMMA LiveTail ==
    ASSUME NEW q \in Seq(TaskRecords), q # <<>>, OneLive(q)
    PROVE  /\ OneLive(Tail(q)) /\ (NoneLive(q) => NoneLive(Tail(q)))
           /\ Live(Head(q)) => NoneLive(Tail(q))
<1>1. ASSUME NEW i \in DOMAIN Tail(q)
      PROVE  i + 1 \in DOMAIN q /\ q[i + 1] = Tail(q)[i] /\ i \in Nat /\ i + 1 # 1
  BY <1>1, QueueTail
<1>2. 1 \in DOMAIN q /\ q[1] = Head(q)
  BY QueueTail
<1>3. OneLive(Tail(q))
  <2>1. SUFFICES ASSUME NEW i \in DOMAIN Tail(q), NEW j \in DOMAIN Tail(q), Live(Tail(q)[i]), Live(Tail(q)[j])
                 PROVE  i = j
    BY DEF OneLive
  <2>2. i + 1 = j + 1
    BY <1>1, <2>1 DEF OneLive
  <2> QED BY <1>1, <2>2
<1>4. NoneLive(q) => NoneLive(Tail(q))
  BY <1>1 DEF NoneLive
<1>5. Live(Head(q)) => NoneLive(Tail(q))
  BY <1>1, <1>2 DEF OneLive, NoneLive
<1> QED BY <1>3, <1>4, <1>5

LEMMA AppendTask ==
    ASSUME NEW q \in Seq(TaskRecords), NEW task \in TaskRecords
    PROVE  /\ Append(q, task) \in Seq(TaskRecords) /\ Len(q) \in Nat
           /\ DOMAIN Append(q, task) = 1 .. Len(q) + 1 /\ DOMAIN q = 1 .. Len(q)
           /\ \A i \in 1 .. Len(q) : Append(q, task)[i] = q[i]
           /\ Append(q, task)[Len(q) + 1] = task
OBVIOUS

LEMMA LiveAppend ==
    ASSUME NEW q \in Seq(TaskRecords), NEW task \in TaskRecords
    PROVE  /\ NoneLive(q) => OneLive(Append(q, task))
           /\ OneLive(q) /\ ~Live(task) => OneLive(Append(q, task))
           /\ NoneLive(q) /\ ~Live(task) => NoneLive(Append(q, task))
BY AppendTask DEF NoneLive, OneLive

LEMMA LiveCancelled ==
    ASSUME executor \in Seq(TaskRecords), NEW kinds
    PROVE  /\ OneLive(executor) => OneLive(Cancelled(kinds))
           /\ NoneLive(executor) => NoneLive(Cancelled(kinds))
           /\ PrepareTasks \subseteq kinds => NoneLive(Cancelled(kinds))
<1> DEFINE c == Cancelled(kinds)
<1>1. DOMAIN c = DOMAIN executor
  BY CancelledTasks
<1>2. \A i \in DOMAIN executor : Live(c[i]) => Live(executor[i]) /\ executor[i].kind \notin kinds
  BY CancelledTasks DEF Live
<1>3. PrepareTasks \subseteq kinds => \A i \in DOMAIN executor : ~Live(c[i])
  BY <1>2 DEF Live
<1> HIDE DEF c
<1>4. (OneLive(executor) => OneLive(c)) /\ (NoneLive(executor) => NoneLive(c))
  BY <1>1, <1>2 DEF NoneLive, OneLive
<1>5. PrepareTasks \subseteq kinds => NoneLive(c)
  BY <1>1, <1>3 DEF NoneLive
<1> QED BY <1>4, <1>5 DEF c

LEMMA TaskKinds ==
    /\ \A choice : Task("subtitle", choice).kind \notin PrepareTasks
    /\ \A choice \in Subtitles :
          Task("load", choice) \in TaskRecords /\ Task("reload", choice) \in TaskRecords
          /\ Task("subtitle", choice) \in TaskRecords
    /\ Without \in Subtitles
BY NewTask, KindNames DEF Task, PrepareTasks

\* Which actions change what is known of the preparation.
LEMMA ReadyStep ==
    ASSUME Next
    PROVE  \/ UNCHANGED <<isTorrentVideoReady, mPrepareVideoTask>>
           \/ OnConnected \/ OnSucceeded \/ OnParsed
<1>1. CASE MainThread
  BY <1>1 DEF prepare, MainThread, SkipResume, OnResume, OnPause, OnDestroy, OnUnconnected, OnFailed, OnCancelled, Ignore,
     OnPlaying, OnStopped, OnEnd, OnVoutLost, OnHwError, OnLoss, OnGain
<1>2. CASE Tasks
  BY <1>2 DEF prepare, Tasks, StartTask, EndPrepare, EndSubtitle
<1>3. CASE User
  BY <1>3 DEF prepare, User, Close, PlayPause, SelectRoute, Seek, ChooseSubtitle
<1>4. CASE Outside
  BY <1>4 DEF prepare, Outside, Schedule, Connect, OpenInput, Advance, Fault, LoseFocus, GainFocus, CastLoaded, TearDown
<1> QED BY <1>1, <1>2, <1>3, <1>4 DEF Next

LEMMA ReadyNext ==
    ASSUME TypeOK, ReadyOK, Next
    PROVE  ReadyOK'
<1>1. looper \in Seq(Messages) /\ executor \in Seq(TaskRecords) /\ (running => executor # <<>>)
      /\ position \in Subtitles
  BY DEF TypeOK
<1>2. ASSUME NEW result \in Results, EndPrepare(result) PROVE ReadyOK'
  <2>1. /\ executor # <<>> /\ executor' = Tail(executor)
        /\ UNCHANGED <<isTorrentVideoReady, mPrepareVideoTask>>
        /\ IF Head(executor).cancelled THEN UNCHANGED looper ELSE Post(result)
        /\ Head(executor).kind \in PrepareTasks
    BY <1>1, <1>2 DEF EndPrepare, EndTask
  <2>2. CASE Head(executor).cancelled
    <3>1. OneLive(executor') /\ (NoneLive(executor) => NoneLive(executor'))
      BY <1>1, <2>1, LiveTail DEF ReadyOK
    <3> QED BY <2>1, <2>2, <3>1 DEF ReadyOK
  <2>3. CASE ~Head(executor).cancelled
    <3>1. Live(Head(executor)) /\ Head(executor) = executor[1] /\ 1 \in DOMAIN executor
      BY <1>1, <2>1, <2>3 DEF Live
    <3>2. ~NoneLive(executor)
      BY <3>1 DEF NoneLive
    <3>3. OneLive(executor') /\ NoneLive(executor')
      BY <1>1, <2>1, <3>1, LiveTail DEF ReadyOK
    <3>4. ~Has(looper, Results) /\ ~isTorrentVideoReady /\ mPrepareVideoTask # "none"
      BY <3>2 DEF ReadyOK
    <3>5. Once(looper', Results)
      BY <1>1, <2>1, <2>3, <3>4, PostQueue, PlainMessages DEF ReadyOK
    <3> QED BY <2>1, <3>3, <3>4, <3>5 DEF ReadyOK
  <2> QED BY <2>2, <2>3
<1>3. ASSUME ~\E result \in Results : EndPrepare(result)
      PROVE  Once(looper', Results) /\ (Has(looper', Results) => Has(looper, Results))
  <2>1. CASE QuietQueue
    BY <1>1, <2>1, Quiet, WatchedSets DEF ReadyOK
  <2>2. ASSUME NEW m \in Messages \ Results, Post(m)
        PROVE  Once(looper', Results) /\ (Has(looper', Results) => Has(looper, Results))
    BY <1>1, <2>2, PostQueue DEF ReadyOK
  <2>3. /\ "connected" \in Messages \ Results /\ "playing" \in Messages \ Results
        /\ Lifecycle \subseteq Messages \ Results
    BY MessageNames DEF Lifecycle, Results
  <2>4. ASSUME NEW m \in Lifecycle, Schedule(m) PROVE Post(m)
    BY <2>4 DEF Schedule
  <2> QED BY <1>1, <1>3, <2>1, <2>2, <2>3, <2>4, QueueStep
<1>4. ASSUME ~\E result \in Results : EndPrepare(result), UNCHANGED <<isTorrentVideoReady, mPrepareVideoTask>>,
             OneLive(executor'), NoneLive(executor) => NoneLive(executor')
      PROVE  ReadyOK'
  BY <1>3, <1>4 DEF ReadyOK
<1>5. CASE OnConnected
  <2>1. Once(looper', Results) /\ (Has(looper', Results) => Has(looper, Results))
    BY <1>1, <1>5, HandleQueue, WatchedSets DEF OnConnected, ReadyOK
  <2>2. CASE UNCHANGED <<isTorrentVideoReady, mPrepareVideoTask, executor>>
    BY <2>1, <2>2 DEF ReadyOK
  <2>3. CASE mPrepareVideoTask = "none" /\ Prepare(Append(executor, Task("load", Without)))
    <3>1. NoneLive(executor) /\ ~Has(looper', Results)
      BY <2>1, <2>3 DEF ReadyOK
    <3>2. OneLive(executor') /\ ~isTorrentVideoReady' /\ mPrepareVideoTask' # "none"
      BY <1>1, <2>3, <3>1, LiveAppend, TaskKinds DEF Prepare
    <3> QED BY <2>1, <3>1, <3>2 DEF ReadyOK
  <2> QED BY <1>5, <2>2, <2>3 DEF OnConnected, LoadVideo
<1>6. CASE OnSucceeded
  <2>1. Handle("succeeded", <<>>) /\ "succeeded" \in Results /\ {"succeeded"} \subseteq Results
    BY <1>6 DEF OnSucceeded, Results
  <2>2. Has(looper, Results) /\ Once(looper', Results) /\ ~Has(looper', Results)
    <3>1. Has(looper, {"succeeded"}) /\ "stopped" \notin Results
      BY <1>1, <2>1, HandleQueue, WatchedSets
    <3>2. Has(looper, Results)
      BY <2>1, <3>1, HasSub
    <3> QED BY <1>1, <2>1, <3>1, <3>2, HandleQueue DEF ReadyOK
  <2>3. NoneLive(executor) /\ mPrepareVideoTask # "none"
    BY <2>2 DEF ReadyOK
  <2>4. /\ executor' = Append(Cancelled({"subtitle"}), Task("subtitle", position))
        /\ UNCHANGED mPrepareVideoTask
    BY <1>6 DEF OnSucceeded, DownloadSubtitle
  <2>5. /\ ~Live(Task("subtitle", position)) /\ Cancelled({"subtitle"}) \in Seq(TaskRecords)
        /\ NoneLive(Cancelled({"subtitle"}))
    BY <1>1, <2>3, TaskKinds, CancelledTasks, LiveCancelled DEF Live
  <2>6. NoneLive(executor')
    BY <1>1, <2>4, <2>5, LiveAppend, TaskKinds
  <2>7. OneLive(executor')
    BY <2>6 DEF OneLive, NoneLive
  <2> QED BY <2>2, <2>3, <2>4, <2>6, <2>7 DEF ReadyOK
<1>7. CASE OnParsed
  <2>1. ~Has(looper', Results)
    BY <1>1, <1>7, StoppedPosts, RevokeQueue DEF OnParsed
  <2>2. Once(looper', Results)
    BY <2>1 DEF Has, Once
  <2>3. /\ executor' = Append(Cancelled(PrepareTasks), Task("reload", Without))
        /\ ~isTorrentVideoReady' /\ mPrepareVideoTask' # "none"
    BY <1>7 DEF OnParsed, Prepare, ReloadTasks
  <2>4. Cancelled(PrepareTasks) \in Seq(TaskRecords) /\ NoneLive(Cancelled(PrepareTasks))
    BY <1>1, CancelledTasks, LiveCancelled
  <2>5. OneLive(executor')
    BY <2>3, <2>4, LiveAppend, TaskKinds
  <2> QED BY <2>1, <2>2, <2>3, <2>5 DEF ReadyOK
<1>8. CASE /\ ~\E result \in Results : EndPrepare(result)
           /\ ~OnConnected /\ ~OnSucceeded /\ ~OnParsed
  <2> USE ReadyStep, <1>8
  <2>1. CASE UNCHANGED executor
    BY <1>4, <2>1 DEF ReadyOK
  <2>2. CASE executor # <<>> /\ executor' = Tail(executor)
    BY <1>1, <1>4, <2>2, LiveTail DEF ReadyOK
  <2>3. CASE \E kinds : executor' = Cancelled(kinds)
    BY <1>1, <1>4, <2>3, LiveCancelled DEF ReadyOK
  <2>4. ASSUME NEW choice \in Subtitles, ChooseSubtitle(choice) PROVE ReadyOK'
    <3>1. executor' = Append(Cancelled({"subtitle"}), Task("subtitle", choice))
      BY <2>4 DEF ChooseSubtitle, DownloadSubtitle
    <3>2. ~Live(Task("subtitle", choice)) /\ Cancelled({"subtitle"}) \in Seq(TaskRecords)
      BY <1>1, TaskKinds, CancelledTasks DEF Live
    <3>3. OneLive(executor') /\ (NoneLive(executor) => NoneLive(executor'))
      BY <1>1, <3>1, <3>2, TaskKinds, LiveAppend, LiveCancelled DEF ReadyOK
    <3> QED BY <1>4, <3>3
  <2>5. CASE StartTask \/ EndSubtitle
    BY <1>1, <2>1, <2>2, <2>5 DEF StartTask, EndSubtitle, EndTask
  <2>6. CASE OnDestroy
    BY <2>3, <2>6 DEF OnDestroy
  <2> QED BY <2>1, <2>4, <2>5, <2>6, ExecutorStep
<1> QED BY <1>2, <1>5, <1>6, <1>7, <1>8

-----------------------------------------------------------------------------
(* What stays as it is.                                                     *)

LEMMA StaysDestroyed ==
    ASSUME TypeOK, LifeOK, Next, activity = "destroyed"
    PROVE  UNCHANGED activity
<1>1. looper \in Seq(Messages)
  BY DEF TypeOK
<1>2. ~OnResume
  BY <1>1, HandleQueue DEF OnResume, LifeOK
<1>3. ~OnPause
  BY <1>1, StoppedPosts, HandleQueue DEF OnPause, LifeOK
<1> QED BY <1>2, <1>3, LifeStep DEF OnDestroy, OnConnected, OnVoutLost, Connect

LEMMA SwitchStays ==
    ASSUME TypeOK, LifeOK, Next, ~mSwitchingView'
    PROVE  ~mSwitchingView
<1>1. CASE OnResume
  BY <1>1 DEF OnResume, LifeOK
<1> QED BY <1>1, LifeStep DEF OnPause, OnDestroy, OnConnected, OnVoutLost, Connect

LEMMA PlayingWaits ==
    ASSUME TypeOK, Next, ~OnPlaying, ~mSwitchingView, Has(looper, {"playing"})
    PROVE  Has(looper', {"playing"})
<1>1. looper \in Seq(Messages)
  BY DEF TypeOK
<1>2. ASSUME NEW m \in Messages, Post(m) PROVE Has(looper', {"playing"})
  BY <1>1, <1>2, PostQueue
<1>3. ASSUME NEW m, NEW p \in {<<>>, Stopped}, Handle(m, p), m # "playing" PROVE Has(looper', {"playing"})
  BY <1>1, <1>3, StoppedPosts, HandleQueue
<1>4. CASE Revokes
  <2>1. {"playing"} \cap (Results \cup {"revoked"}) = {}
    BY DEF Results
  <2> QED BY <1>1, <1>4, <2>1, StoppedPosts, RevokeQueue DEF Revokes
<1>5. CASE QuietQueue
  BY <1>2, <1>3, <1>4, <1>5, PlainMessages DEF QuietQueue, Ignore
<1> QED BY <1>1, <1>2, <1>5, QueueStep, PlainMessages, MessageNames DEF Schedule

-----------------------------------------------------------------------------
(* The subtitles.                                                           *)

IsSub(task) == task.kind = "subtitle"
NoSub(tasks) == \A i \in DOMAIN tasks : ~IsSub(tasks[i])

\* Of the loads of subtitles only the last one counts, and it loads the choice.
LastLoads(tasks, choice) ==
    \A i \in DOMAIN tasks : IsSub(tasks[i]) =>
        IF tasks[i].cancelled THEN \E j \in DOMAIN tasks : IsSub(tasks[j]) /\ i < j
                              ELSE tasks[i].choice = choice

SubOK ==
    activity # "destroyed" =>
        LastLoads(executor, position) /\ (NoSub(executor) => subtitles \in {Without, position})

LEMMA SubTail ==
    ASSUME NEW q \in Seq(TaskRecords), q # <<>>, NEW choice, LastLoads(q, choice)
    PROVE  /\ LastLoads(Tail(q), choice)
           /\ NoSub(Tail(q)) => IF IsSub(Head(q)) THEN ~Head(q).cancelled /\ Head(q).choice = choice ELSE NoSub(q)
<1>1. ASSUME NEW i \in DOMAIN Tail(q)
      PROVE  i + 1 \in DOMAIN q /\ q[i + 1] = Tail(q)[i] /\ i \in Nat
  BY <1>1, QueueTail
<1>2. ASSUME NEW i \in DOMAIN q, i # 1
      PROVE  i - 1 \in DOMAIN Tail(q) /\ q[i] = Tail(q)[i - 1] /\ i \in Nat
  BY <1>2, QueueTail
<1>3. 1 \in DOMAIN q /\ q[1] = Head(q)
  BY QueueTail
<1>4. ASSUME NEW i \in DOMAIN Tail(q), IsSub(Tail(q)[i]), Tail(q)[i].cancelled
      PROVE  \E j \in DOMAIN Tail(q) : IsSub(Tail(q)[j]) /\ i < j
  <2>1. PICK j \in DOMAIN q : IsSub(q[j]) /\ i + 1 < j
    BY <1>1, <1>4 DEF LastLoads
  <2>2. j # 1 /\ i \in Nat
    BY <1>1, <2>1
  <2>3. j - 1 \in DOMAIN Tail(q) /\ IsSub(Tail(q)[j - 1]) /\ j \in Nat
    BY <1>2, <2>1, <2>2
  <2>4. i < j - 1
    BY <2>1, <2>2, <2>3
  <2> QED BY <2>3, <2>4
<1>5. LastLoads(Tail(q), choice)
  BY <1>1, <1>4 DEF LastLoads
<1>6. ASSUME NoSub(Tail(q)), NEW i \in DOMAIN q, IsSub(q[i]) PROVE i = 1
  BY <1>2, <1>6 DEF NoSub
<1>7. ASSUME NoSub(Tail(q)), IsSub(Head(q)) PROVE ~Head(q).cancelled /\ Head(q).choice = choice
  <2>1. ~\E j \in DOMAIN q : IsSub(q[j]) /\ 1 < j
    BY <1>6, <1>7
  <2> QED BY <1>3, <1>7, <2>1 DEF LastLoads
<1>8. NoSub(Tail(q)) /\ ~IsSub(Head(q)) => NoSub(q)
  BY <1>3, <1>6 DEF NoSub
<1> QED BY <1>5, <1>7, <1>8

LEMMA SubAppend ==
    ASSUME NEW q \in Seq(TaskRecords), NEW task \in TaskRecords, ~IsSub(task), NEW choice, LastLoads(q, choice)
    PROVE  LastLoads(Append(q, task), choice) /\ (NoSub(Append(q, task)) => NoSub(q))
<1> DEFINE a == Append(q, task)
<1>1. /\ DOMAIN a = 1 .. Len(q) + 1 /\ DOMAIN q = 1 .. Len(q) /\ Len(q) \in Nat
      /\ \A i \in DOMAIN q : i \in DOMAIN a /\ a[i] = q[i]
      /\ \A i \in DOMAIN a : ~IsSub(a[i]) \/ i \in DOMAIN q
  BY AppendTask
<1> HIDE DEF a
<1>2. ASSUME NEW i \in DOMAIN a, IsSub(a[i])
      PROVE IF a[i].cancelled THEN \E j \in DOMAIN a : IsSub(a[j]) /\ i < j
                              ELSE a[i].choice = choice
  <2>1. i \in DOMAIN q /\ a[i] = q[i]
    BY <1>1, <1>2
  <2> QED BY <1>1, <1>2, <2>1 DEF LastLoads
<1>3. LastLoads(a, choice)
  BY <1>2 DEF LastLoads
<1>4. NoSub(a) => NoSub(q)
  BY <1>1 DEF NoSub
<1> QED BY <1>3, <1>4 DEF a

LEMMA SubCancelled ==
    ASSUME executor \in Seq(TaskRecords), NEW kinds, "subtitle" \notin kinds, NEW choice, LastLoads(executor, choice)
    PROVE  LastLoads(Cancelled(kinds), choice) /\ (NoSub(Cancelled(kinds)) => NoSub(executor))
<1> DEFINE c == Cancelled(kinds)
<1>1. DOMAIN c = DOMAIN executor
  BY CancelledTasks
<1>2. \A i \in DOMAIN executor : /\ IsSub(c[i]) <=> IsSub(executor[i])
                                 /\ c[i].choice = executor[i].choice
                                 /\ IsSub(executor[i]) => c[i].cancelled = executor[i].cancelled
  <2>1. ASSUME NEW i \in DOMAIN executor
        PROVE  /\ c[i].kind = executor[i].kind /\ c[i].choice = executor[i].choice
               /\ c[i].cancelled = (executor[i].cancelled \/ executor[i].kind \in kinds)
               /\ executor[i].cancelled \in BOOLEAN
    <3>1. executor[i] \in TaskRecords
      BY <2>1
    <3> QED BY <2>1, <3>1, CancelledTasks DEF TaskRecords
  <2> QED BY <2>1 DEF IsSub
<1> HIDE DEF c
<1> QED BY <1>1, <1>2 DEF LastLoads, NoSub, c

LEMMA SubReplaced ==
    ASSUME executor \in Seq(TaskRecords), NEW choice \in Subtitles
    PROVE  /\ LastLoads(Append(Cancelled({"subtitle"}), Task("subtitle", choice)), choice)
           /\ ~NoSub(Append(Cancelled({"subtitle"}), Task("subtitle", choice)))
<1> DEFINE c == Cancelled({"subtitle"})
           t == Task("subtitle", choice)
           a == Append(c, t)
<1>1. c \in Seq(TaskRecords) /\ \A i \in DOMAIN c : IsSub(c[i]) => c[i].cancelled
  <2>1. c \in Seq(TaskRecords) /\ DOMAIN c = 1 .. Len(executor)
    BY CancelledTasks
  <2>2. ASSUME NEW i \in DOMAIN c, c[i].kind = "subtitle" PROVE c[i].cancelled
    <3>1. /\ c[i].kind = executor[i].kind
          /\ c[i].cancelled = (executor[i].cancelled \/ executor[i].kind \in {"subtitle"})
      BY <2>1, CancelledTasks
    <3>2. executor[i].kind \in {"subtitle"}
      BY <2>2, <3>1
    <3> QED BY <3>1, <3>2
  <2> QED BY <2>1, <2>2 DEF IsSub
<1>2. t \in TaskRecords /\ IsSub(t) /\ ~t.cancelled /\ t.choice = choice
  BY NewTask, KindNames DEF IsSub
<1> HIDE DEF c, t
<1>3. /\ DOMAIN a = 1 .. Len(c) + 1 /\ DOMAIN c = 1 .. Len(c) /\ Len(c) \in Nat
      /\ \A i \in 1 .. Len(c) : a[i] = c[i]
      /\ a[Len(c) + 1] = t
  BY <1>1, <1>2, AppendTask
<1> HIDE DEF a
<1>4. Len(c) + 1 \in DOMAIN a /\ IsSub(a[Len(c) + 1])
  BY <1>2, <1>3
<1>5. ASSUME NEW i \in DOMAIN a, IsSub(a[i])
      PROVE  IF a[i].cancelled THEN \E j \in DOMAIN a : IsSub(a[j]) /\ i < j
                               ELSE a[i].choice = choice
  <2>1. CASE i = Len(c) + 1
    BY <1>2, <1>3, <2>1
  <2>2. CASE i \in 1 .. Len(c)
    <3>1. a[i].cancelled
      BY <1>1, <1>3, <1>5, <2>2
    <3>2. i < Len(c) + 1
      BY <1>3, <2>2
    <3> QED BY <1>4, <3>1, <3>2
  <2> QED BY <1>3, <2>1, <2>2
<1> QED BY <1>4, <1>5 DEF LastLoads, NoSub, a, c, t

\* Which actions change the choice or what is beside the video.
LEMMA SubsStep ==
    ASSUME Next
    PROVE  \/ UNCHANGED <<position, subtitles>>
           \/ OnSucceeded \/ EndSubtitle \/ \E choice \in Subtitles : ChooseSubtitle(choice)
<1> USE DEF subs
<1>1. CASE MainThread
  BY <1>1 DEF MainThread, SkipResume, OnResume, OnPause, OnDestroy, OnConnected, OnUnconnected,
     OnFailed, OnCancelled, Ignore, OnPlaying, OnStopped, OnParsed, OnEnd, OnVoutLost, OnHwError, OnLoss, OnGain
<1>2. CASE Tasks
  BY <1>2 DEF Tasks, StartTask, EndPrepare
<1>3. CASE User
  BY <1>3 DEF User, Close, PlayPause, SelectRoute, Seek, Subtitles
<1>4. CASE Outside
  BY <1>4 DEF Outside, Schedule, Connect, OpenInput, Advance, Fault, LoseFocus, GainFocus, CastLoaded, TearDown
<1> QED BY <1>1, <1>2, <1>3, <1>4 DEF Next

LEMMA SubNext ==
    ASSUME TypeOK, LifeOK, SubOK, Next
    PROVE  SubOK'
<1>1. executor \in Seq(TaskRecords) /\ (running => executor # <<>>) /\ position \in Subtitles
  BY DEF TypeOK
<1> SUFFICES ASSUME activity' # "destroyed"
             PROVE  LastLoads(executor', position') /\ (NoSub(executor') => subtitles' \in {Without, position'})
  BY DEF SubOK
<1>2. LastLoads(executor, position) /\ (NoSub(executor) => subtitles \in {Without, position})
  BY StaysDestroyed DEF SubOK
<1>3. ASSUME UNCHANGED <<position, subtitles>>, LastLoads(executor', position), NoSub(executor') => NoSub(executor)
      PROVE  LastLoads(executor', position') /\ (NoSub(executor') => subtitles' \in {Without, position'})
  BY <1>2, <1>3
<1>4. ASSUME NEW choice \in Subtitles, position' = choice,
             executor' = Append(Cancelled({"subtitle"}), Task("subtitle", choice))
      PROVE  LastLoads(executor', position') /\ (NoSub(executor') => subtitles' \in {Without, position'})
  BY <1>1, <1>4, SubReplaced
<1>5. CASE OnSucceeded
  BY <1>1, <1>4, <1>5 DEF OnSucceeded, DownloadSubtitle
<1>6. ASSUME NEW choice \in Subtitles, ChooseSubtitle(choice)
      PROVE  LastLoads(executor', position') /\ (NoSub(executor') => subtitles' \in {Without, position'})
  BY <1>4, <1>6 DEF ChooseSubtitle, DownloadSubtitle
<1>7. CASE EndSubtitle
  <2>1. /\ executor # <<>> /\ executor' = Tail(executor) /\ UNCHANGED position /\ IsSub(Head(executor))
        /\ subtitles' \in {Head(executor).choice, Without}
    BY <1>1, <1>7 DEF EndSubtitle, EndTask, Loaded, IsSub
  <2>2. LastLoads(executor', position) /\ (NoSub(executor') => Head(executor).choice = position)
    BY <1>1, <1>2, <2>1, SubTail
  <2> QED BY <2>1, <2>2
<1>8. CASE UNCHANGED <<position, subtitles>> /\ ~OnSucceeded /\ ~(\E choice \in Subtitles : ChooseSubtitle(choice)) /\ ~EndSubtitle
  <2>1. CASE UNCHANGED executor
    BY <1>2, <1>3, <1>8, <2>1
  <2>2. CASE StartTask
    <3>1. executor # <<>> /\ (UNCHANGED executor \/ (executor' = Tail(executor) /\ Head(executor).cancelled))
      BY <2>2 DEF StartTask
    <3>2. executor' = Tail(executor) => LastLoads(executor', position) /\ (NoSub(executor') => NoSub(executor))
      BY <1>1, <1>2, <3>1, SubTail
    <3> QED BY <1>3, <1>8, <2>1, <3>1, <3>2
  <2>3. ASSUME NEW result \in Results, EndPrepare(result)
        PROVE  LastLoads(executor', position') /\ (NoSub(executor') => subtitles' \in {Without, position'})
    <3>1. executor # <<>> /\ executor' = Tail(executor) /\ ~IsSub(Head(executor))
      BY <1>1, <2>3 DEF EndPrepare, EndTask, PrepareTasks, IsSub
    <3>2. LastLoads(executor', position) /\ (NoSub(executor') => NoSub(executor))
      BY <1>1, <1>2, <3>1, SubTail
    <3> QED BY <1>3, <1>8, <3>2
  <2>4. CASE OnConnected
    <3>1. UNCHANGED executor \/ executor' = Append(executor, Task("load", Without))
      BY <2>4 DEF OnConnected, LoadVideo, Prepare
    <3>2. ~IsSub(Task("load", Without)) /\ Task("load", Without) \in TaskRecords
      BY TaskKinds DEF Task, IsSub
    <3>3. executor' = Append(executor, Task("load", Without)) =>
             LastLoads(executor', position) /\ (NoSub(executor') => NoSub(executor))
      BY <1>1, <1>2, <3>2, SubAppend
    <3> QED BY <1>3, <1>8, <2>1, <3>1, <3>3
  <2>5. CASE OnParsed
    <3>1. executor' = Append(Cancelled(PrepareTasks), Task("reload", Without))
      BY <2>5 DEF OnParsed, Prepare, ReloadTasks
    <3>2. ~IsSub(Task("reload", Without)) /\ Task("reload", Without) \in TaskRecords /\ "subtitle" \notin PrepareTasks
      BY TaskKinds DEF Task, IsSub, PrepareTasks
    <3>3. /\ Cancelled(PrepareTasks) \in Seq(TaskRecords)
          /\ LastLoads(Cancelled(PrepareTasks), position)
          /\ NoSub(Cancelled(PrepareTasks)) => NoSub(executor)
      BY <1>1, <1>2, <3>2, CancelledTasks, SubCancelled
    <3>4. LastLoads(executor', position) /\ (NoSub(executor') => NoSub(executor))
      BY <3>1, <3>2, <3>3, SubAppend
    <3> QED BY <1>3, <1>8, <3>4
  <2>6. ~OnDestroy
    BY DEF OnDestroy
  <2> QED BY <1>8, <2>1, <2>2, <2>3, <2>4, <2>5, <2>6, ExecutorStep
<1> QED BY <1>5, <1>6, <1>7, <1>8, SubsStep

-----------------------------------------------------------------------------
(* The Chromecast.                                                          *)

Started == vlc.state \in {"opening", "resuming", "playing"}

CastOK ==
    /\ isCastEnabled => isRouteSelected
    /\ isRouteSelected /\ ~isCastEnabled /\ ~overlap => ~Started
    /\ activity # "destroyed" /\ isCastEnabled /\ IsPlaying /\ ~overlap /\ ~mSwitchingView =>
          Has(looper, {"playing"})

\* Which actions change the route, and which ones notice that one connects.
LEMMA CastStep ==
    ASSUME Next
    PROVE  \/ UNCHANGED <<isRouteSelected, isCastEnabled, overlap>>
           \/ UNCHANGED <<isRouteSelected, isCastEnabled>> /\ Overlap
           \/ SelectRoute \/ CastLoaded \/ \E time \in 0 .. Length : TearDown(time)
<1> USE DEF cast, hist
<1>1. CASE MainThread
  BY <1>1 DEF MainThread, SkipResume, OnResume, OnPause, OnDestroy, OnConnected, OnUnconnected, OnSucceeded, PopcornPlayAt,
     OnFailed, OnCancelled, Ignore, OnPlaying, OnStopped, OnParsed, OnEnd, OnVoutLost, OnHwError, OnLoss, OnGain
<1>2. CASE Tasks
  BY <1>2 DEF Tasks, StartTask, EndPrepare, EndSubtitle
<1>3. CASE User
  BY <1>3 DEF User, Close, PlayPause, Seek, ChooseSubtitle
<1>4. CASE Outside
  BY <1>4 DEF Outside, Schedule, Connect, OpenInput, Advance, Fault, LoseFocus, GainFocus
<1> QED BY <1>1, <1>2, <1>3, <1>4 DEF Next

LEMMA VlcMoves ==
    ASSUME vlc \in VlcRecords
    PROVE  /\ \A time : PlayIndex(time) => vlc'.state = "opening"
           /\ Play => vlc'.state \in {vlc.state, "resuming", "opening"}
           /\ Play /\ vlc'.state \notin {vlc.state, "resuming"} => vlc.state \in {"stopped", "ended"}
           /\ Play /\ vlc.state = "playing" => vlc'.state = "playing"
           /\ PauseVlc => vlc'.state = IF vlc.state = "playing" THEN "paused" ELSE vlc.state
           /\ Stop => vlc'.state = IF vlc.state = "idle" THEN "idle" ELSE "stopped"
           /\ \A time : vlc' = [vlc EXCEPT !.time = time] => vlc'.state = vlc.state
           /\ \A state : vlc' = [vlc EXCEPT !.state = state] => vlc'.state = state
<1>1. \A time : PlayIndex(time) => vlc'.state = "opening"
  BY DEF PlayIndex
<1>2. /\ \A time : vlc' = [vlc EXCEPT !.time = time] => vlc'.state = vlc.state
      /\ \A state : vlc' = [vlc EXCEPT !.state = state] => vlc'.state = state
  BY DEF VlcRecords
<1>3. ASSUME Play
      PROVE  IF vlc.state = "paused" THEN vlc'.state = "resuming"
             ELSE IF vlc.state \in {"stopped", "ended"} THEN vlc'.state = "opening"
             ELSE vlc'.state = vlc.state
  BY <1>2, <1>3 DEF Play
<1>4. PauseVlc => vlc'.state = IF vlc.state = "playing" THEN "paused" ELSE vlc.state
  BY <1>2 DEF PauseVlc, IsPlaying
<1>5. Stop => vlc'.state = IF vlc.state = "idle" THEN "idle" ELSE "stopped"
  BY DEF Stop
<1> QED BY <1>1, <1>2, <1>3, <1>4, <1>5

\* Only a start makes libVLC play, and it notices a route that connects.
LEMMA StartStep ==
    ASSUME TypeOK, Next
    PROVE  /\ Started' => Started \/ Overlap \/ (~isRouteSelected /\ UNCHANGED isRouteSelected)
           /\ IsPlaying' => IsPlaying \/ OpenInput
<1> DEFINE goal == /\ Started' => Started \/ Overlap \/ (~isRouteSelected /\ UNCHANGED isRouteSelected)
                   /\ IsPlaying' => IsPlaying \/ OpenInput
<1>1. vlc \in VlcRecords
  BY DEF TypeOK
<1>2. CASE UNCHANGED vlc \/ PauseVlc \/ Stop
  BY <1>1, <1>2, VlcMoves DEF Started, IsPlaying
<1>3. ASSUME NEW time, PlayIndex(time), Overlap PROVE goal
  BY <1>1, <1>3, VlcMoves DEF IsPlaying
<1>4. CASE Play /\ (Overlap \/ (~isRouteSelected /\ UNCHANGED isRouteSelected))
  BY <1>1, <1>4, VlcMoves DEF IsPlaying
<1>5. CASE OnPause \/ OnParsed \/ OnPlaying \/ OnLoss \/ SelectRoute
  BY <1>2, <1>5 DEF OnPause, OnParsed, OnPlaying, PauseForCast, OnLoss, SelectRoute
<1>6. CASE OnConnected \/ OnSucceeded \/ OnHwError
  BY <1>2, <1>3, <1>6 DEF OnConnected, OnSucceeded, OnHwError, PopcornPlayAt
<1>7. CASE OnGain \/ PlayPause
  BY <1>2, <1>4, <1>7 DEF OnGain, PlayPause, PopcornPlay, PopcornPause, cast
<1>8. CASE OpenInput
  BY <1>8 DEF OpenInput, Started
<1>9. CASE Advance
  BY <1>9 DEF Advance, Started, IsPlaying
<1>10. CASE (\E delta \in {-2, 2} : Seek(delta)) \/ \E time \in 0 .. Length : TearDown(time)
  <2>1. vlc'.state = vlc.state
    BY <1>1, <1>10, VlcMoves DEF Seek, TearDown
  <2> QED BY <2>1 DEF Started, IsPlaying
<1> QED BY <1>2, <1>5, <1>6, <1>7, <1>8, <1>9, <1>10, VlcStep

LEMMA CastNext ==
    ASSUME TypeOK, LifeOK, CastOK, Next
    PROVE  CastOK'
<1>1. vlc \in VlcRecords /\ looper \in Seq(Messages) /\ isCastEnabled \in BOOLEAN /\ isRouteSelected \in BOOLEAN
  BY DEF TypeOK
<1>2. SelectRoute => ~isRouteSelected /\ ~IsPlaying' /\ (Started' => overlap') /\ UNCHANGED isCastEnabled
  BY <1>1, VlcMoves DEF SelectRoute, Started, IsPlaying
<1>3. CastLoaded => /\ isRouteSelected /\ ~isCastEnabled /\ isRouteSelected' /\ isCastEnabled'
                    /\ UNCHANGED <<vlc, overlap>>
  BY DEF CastLoaded, hist
<1>4. (\E time \in 0 .. Length : TearDown(time)) => ~isRouteSelected' /\ ~isCastEnabled'
  BY DEF TearDown
<1>5. isCastEnabled' => isRouteSelected'
  BY <1>2, <1>3, <1>4, CastStep DEF CastOK, SelectRoute
<1>6. ASSUME isRouteSelected', ~isCastEnabled', ~overlap' PROVE ~Started'
  <2>1. ~Overlap \/ ~(isRouteSelected /\ ~isCastEnabled)
    BY <1>6 DEF Overlap
  <2>2. CASE UNCHANGED <<isRouteSelected, isCastEnabled>>
    <3>1. isRouteSelected /\ ~isCastEnabled /\ ~Overlap
      BY <1>6, <2>1, <2>2
    <3>2. UNCHANGED overlap
      BY <1>2, <1>3, <1>4, <1>6, <2>2, <3>1, CastStep
    <3>3. ~Started
      BY <1>6, <3>1, <3>2 DEF CastOK
    <3> QED BY <3>1, <3>3, StartStep
  <2>3. CASE SelectRoute
    BY <1>2, <1>6, <2>3
  <2> QED BY <1>3, <1>4, <1>6, <2>2, <2>3, CastStep
<1>7. ASSUME activity' # "destroyed", isCastEnabled', IsPlaying', ~overlap', ~mSwitchingView'
      PROVE  Has(looper', {"playing"})
  <2>1. activity # "destroyed" /\ ~mSwitchingView
    BY <1>7, StaysDestroyed, SwitchStays
  <2>2. CASE OpenInput
    <3>1. Post("playing")
      BY <2>1, <2>2 DEF OpenInput, Event, Post
    <3> QED BY <1>1, <3>1, PostQueue, MessageNames
  <2>3. CASE IsPlaying /\ ~OnPlaying
    <3>1. isCastEnabled /\ ~overlap
      BY <1>2, <1>3, <1>4, <1>7, <2>3, CastStep DEF CastOK, Overlap, IsPlaying, Started
    <3>2. Has(looper, {"playing"})
      BY <2>1, <2>3, <3>1 DEF CastOK
    <3> QED BY <2>1, <2>3, <3>2, PlayingWaits
  <2>4. CASE OnPlaying
    <3>1. ~isCastEnabled
      BY <1>1, <1>7, <2>4, VlcMoves DEF OnPlaying, PauseForCast, IsPlaying
    <3> QED BY <1>7, <2>4, <3>1 DEF OnPlaying, cast
  <2> QED BY <1>7, <2>2, <2>3, <2>4, StartStep
<1> QED BY <1>5, <1>6, <1>7 DEF CastOK

-----------------------------------------------------------------------------
(* The position.                                                            *)

KeptOK == left > 0 => VIDEO_RESUME_TIME = GoesOnAt(left)

LEMMA LeftStep ==
    ASSUME Next
    PROVE  OnPause \/ left' = NoPosition \/ UNCHANGED <<left, VIDEO_RESUME_TIME>>
<1> USE DEF lifecycle, hist
<1>1. CASE MainThread
  BY <1>1 DEF MainThread, SkipResume, OnResume, OnDestroy, OnConnected, OnUnconnected, OnSucceeded, PopcornPlayAt,
     OnFailed, OnCancelled, Ignore, OnPlaying, OnStopped, OnParsed, OnEnd, OnVoutLost, OnHwError, OnLoss, OnGain
<1>2. CASE Tasks
  BY <1>2 DEF Tasks, StartTask, EndPrepare, EndSubtitle
<1>3. CASE User
  BY <1>3 DEF User, Close, PlayPause, SelectRoute, Seek, ChooseSubtitle
<1>4. CASE Outside
  BY <1>4 DEF Outside, Schedule, Connect, OpenInput, Advance, Fault, LoseFocus, GainFocus, CastLoaded, TearDown
<1> QED BY <1>1, <1>2, <1>3, <1>4 DEF Next

LEMMA KeptNext ==
    ASSUME TypeOK, KeptOK, Next
    PROVE  KeptOK'
<1>1. vlc.time \in Times /\ Length \in Nat
  BY PlayerAssumption DEF TypeOK, VlcRecords
<1>2. CASE OnPause
  BY <1>1, <1>2 DEF KeptOK, OnPause, SavedTime, GoesOnAt, Times, NoPosition
<1>3. CASE left' = NoPosition \/ UNCHANGED <<left, VIDEO_RESUME_TIME>>
  BY <1>3 DEF KeptOK, GoesOnAt, NoPosition
<1> QED BY <1>2, <1>3, LeftStep

-----------------------------------------------------------------------------
(* Silence.                                                                 *)

Off   == vlc.state \in {"idle", "stopped"}
Meant == ~mSwitchingView /\ ~hasty /\ ~regained

\* The answer of the audio service that is handled is the one that is asked for.
AnswerOK ==
    /\ Has(looper, {"connected"}) => service = "answered" \/ hasty
    /\ ~hasty => Once(looper, {"connected"})

\* Who holds the focus, or will, when libVLC is off has its end in the queue;
\* and it comes before the activity is destroyed.
SilentOK ==
    /\ AnswerOK
    /\ activity \in {"paused", "destroyed"} /\ Meant => Off
    /\ ~mSwitchingView /\ Off /\ (focus # "none" \/ Has(looper, {"playing"})) => Covered(looper)
    /\ Meant => InTime(looper)
    /\ activity = "destroyed" /\ Meant => focus = "none" /\ ~Has(looper, {"playing"})

\* Which actions change what excuses a sound.
LEMMA ExcuseStep ==
    ASSUME Next
    PROVE  (OnPause \/ OnConnected \/ UNCHANGED hasty) /\ (OnResume \/ OnGain \/ UNCHANGED regained)
<1> USE DEF hist
<1>1. CASE MainThread
  BY <1>1 DEF MainThread, SkipResume, OnResume, OnPause, OnDestroy, OnConnected, OnUnconnected, OnSucceeded,
     OnFailed, OnCancelled, Ignore, OnPlaying, OnStopped, OnParsed, OnEnd, OnVoutLost, OnHwError, OnLoss, OnGain
<1>2. CASE Tasks
  BY <1>2 DEF Tasks, StartTask, EndPrepare, EndSubtitle
<1>3. CASE User
  BY <1>3 DEF User, Close, PlayPause, SelectRoute, Seek, ChooseSubtitle
<1>4. CASE Outside
  BY <1>4 DEF Outside, Schedule, Connect, OpenInput, Advance, Fault, LoseFocus, GainFocus, CastLoaded, TearDown
<1> QED BY <1>1, <1>2, <1>3, <1>4 DEF Next

LEMMA MeantBefore ==
    ASSUME TypeOK, LifeOK, Next, activity' # "resumed", Meant'
    PROVE  Meant
<1>1. ~mSwitchingView
  BY SwitchStays DEF Meant
<1>2. ~hasty
  <2>1. CASE OnPause
    BY <2>1 DEF OnPause, Meant
  <2>2. CASE OnConnected
    <3>1. service = "unbound"
      BY <2>2 DEF OnConnected, LifeOK
    <3> QED BY <2>2, <3>1 DEF OnConnected, Meant
  <2> QED BY <2>1, <2>2, ExcuseStep DEF Meant
<1>3. ~regained
  <2>1. ~OnResume
    BY DEF OnResume
  <2>2. CASE OnGain
    BY <2>2 DEF OnGain, Meant
  <2> QED BY <2>1, <2>2, ExcuseStep DEF Meant
<1> QED BY <1>1, <1>2, <1>3 DEF Meant

\* What ends a silence, and what begins one.
LEMMA OffEnds ==
    ASSUME TypeOK, Next, Off, ~Off'
    PROVE  OnConnected \/ (OnGain /\ regained') \/ activity = "resumed"
<1>1. vlc \in VlcRecords
  BY DEF TypeOK
<1>2. ~UNCHANGED vlc /\ ~Stop
  BY <1>1, VlcMoves DEF Off
<1>3. ~PauseVlc
  BY <1>1, VlcMoves DEF Off
<1>4. CASE OnPause \/ OnParsed \/ OnPlaying \/ OnLoss
  BY <1>2, <1>3, <1>4 DEF OnPause, OnParsed, OnPlaying, PauseForCast, OnLoss
<1>5. CASE OnSucceeded \/ OnHwError
  BY <1>2, <1>5 DEF OnSucceeded, OnHwError, PopcornPlayAt
<1>6. CASE OnGain
  BY <1>2, <1>6 DEF OnGain
<1>7. CASE PlayPause \/ SelectRoute \/ \E delta \in {-2, 2} : Seek(delta)
  BY <1>7 DEF PlayPause, SelectRoute, Seek, Act
<1>8. ~OpenInput /\ ~Advance
  BY DEF OpenInput, Advance, IsPlaying, Off
<1>9. ~\E time \in 0 .. Length : TearDown(time)
  BY <1>1, VlcMoves DEF TearDown, Off
<1> QED BY <1>2, <1>4, <1>5, <1>6, <1>7, <1>8, <1>9, VlcStep

LEMMA OffBegins ==
    ASSUME TypeOK, Next, ~Off, Off'
    PROVE  Covered(looper')
<1>1. vlc \in VlcRecords /\ looper \in Seq(Messages)
  BY DEF TypeOK
<1>2. ~UNCHANGED vlc /\ ~PauseVlc /\ ~Play /\ ~\E time : PlayIndex(time)
  BY <1>1, VlcMoves DEF Off
<1>3. Stopped = <<"stopped">>
  BY DEF Off, Stopped
<1>4. ASSUME NEW m, Handle(m, Stopped) PROVE Covered(looper')
  BY <1>1, <1>3, <1>4, HandleQueue
<1>5. CASE OnPause
  BY <1>2, <1>4, <1>5 DEF OnPause
<1>6. CASE OnParsed
  BY <1>1, <1>3, <1>6, RevokeQueue DEF OnParsed
<1>7. CASE OnHwError
  BY <1>4, <1>7 DEF OnHwError
<1>8. ~OnConnected /\ ~OnSucceeded
  BY <1>2 DEF OnConnected, OnSucceeded, PopcornPlayAt
<1>9. ~OnPlaying /\ ~OnLoss /\ ~OnGain /\ ~PlayPause /\ ~SelectRoute
  BY <1>2 DEF OnPlaying, PauseForCast, OnLoss, OnGain, PlayPause, PopcornPlay, PopcornPause, SelectRoute
<1>10. ~OpenInput /\ ~Advance
  BY <1>1, VlcMoves DEF OpenInput, Advance, Off
<1>11. ~(\E delta \in {-2, 2} : Seek(delta)) /\ ~\E time \in 0 .. Length : TearDown(time)
  BY <1>1, VlcMoves DEF Seek, TearDown, Off
<1> QED BY <1>2, <1>5, <1>6, <1>7, <1>8, <1>9, <1>10, <1>11, VlcStep

LEMMA FocusStep ==
    ASSUME Next, focus' # "none"
    PROVE  focus # "none" \/ OnPlaying
<1>1. CASE MainThread
  BY <1>1 DEF MainThread, SkipResume, OnResume, OnPause, OnDestroy, OnConnected, OnUnconnected, OnSucceeded, Abandon,
     OnFailed, OnCancelled, Ignore, OnStopped, OnParsed, OnEnd, OnVoutLost, OnHwError, OnLoss, OnGain
<1>2. CASE Tasks
  BY <1>2 DEF Tasks, StartTask, EndPrepare, EndSubtitle
<1>3. CASE User
  BY <1>3 DEF User, Close, PlayPause, SelectRoute, Seek, ChooseSubtitle
<1>4. CASE Outside
  BY <1>4 DEF Outside, Schedule, Connect, OpenInput, Advance, Fault, LoseFocus, GainFocus, CastLoaded, TearDown
<1> QED BY <1>1, <1>2, <1>3, <1>4 DEF Next

\* Who posts that libVLC plays, and that the service has answered.
LEMMA Posters ==
    ASSUME TypeOK, Next
    PROVE  /\ Has(looper', {"playing"}) => Has(looper, {"playing"}) \/ OpenInput
           /\ Has(looper', {"connected"}) => Has(looper, {"connected"}) \/ (Connect /\ Post("connected"))
           /\ Once(looper, {"connected"}) =>
                Once(looper', {"connected"}) \/ (Connect /\ Post("connected"))
<1>1. looper \in Seq(Messages)
  BY DEF TypeOK
<1>2. CASE QuietQueue
  BY <1>1, <1>2, Quiet, WatchedSets
<1>3. ASSUME NEW m \in Messages, Post(m)
      PROVE  /\ m # "playing" /\ Has(looper', {"playing"}) => Has(looper, {"playing"})
             /\ m # "connected" => /\ Has(looper', {"connected"}) => Has(looper, {"connected"})
                                   /\ Once(looper, {"connected"}) => Once(looper', {"connected"})
  BY <1>1, <1>3, PostQueue
<1>4. ASSUME NEW m \in Lifecycle \cup Results PROVE m \in Messages /\ m # "playing" /\ m # "connected"
  BY <1>4, PlainMessages DEF Lifecycle, Results
<1>5. ASSUME NEW m \in Lifecycle, Schedule(m) PROVE Post(m)
  BY <1>5 DEF Schedule
<1> QED BY <1>1, <1>2, <1>3, <1>4, <1>5, QueueStep, MessageNames

LEMMA AnswerNext ==
    ASSUME TypeOK, LifeOK, AnswerOK, Next
    PROVE  AnswerOK'
<1>1. looper \in Seq(Messages) /\ hasty \in BOOLEAN
  BY DEF TypeOK
<1>2. CASE OnConnected
  <2>1. Has(looper, {"connected"}) /\ Handle("connected", <<>>)
    BY <1>1, <1>2, HandleQueue DEF OnConnected
  <2>2. Once(looper, {"connected"}) => Once(looper', {"connected"}) /\ ~Has(looper', {"connected"})
    BY <1>1, <2>1, HandleQueue
  <2>3. "connected" \in ToSet(Tail(looper)) <=> Has(looper', {"connected"})
    <3>1. looper' = Tail(looper)
      BY <1>1, <2>1, QueueTail DEF Handle
    <3> QED BY <3>1 DEF ToSet, Has
  <2>4. hasty' <=> hasty /\ (service # "answered" \/ Has(looper', {"connected"}))
    BY <1>1, <1>2, <2>3 DEF OnConnected
  <2>5. Has(looper', {"connected"}) => hasty'
    BY <2>1, <2>2, <2>4 DEF AnswerOK
  <2>6. ~hasty' => Once(looper', {"connected"})
    <3>1. CASE hasty
      BY <2>1, <2>4, <3>1 DEF Has, Once
    <3>2. CASE ~hasty
      BY <2>2, <3>2 DEF AnswerOK
    <3> QED BY <3>1, <3>2
  <2> QED BY <2>5, <2>6 DEF AnswerOK
<1>3. CASE Connect
  <2>1. service = "asked" /\ UNCHANGED hasty
    BY <1>3 DEF Connect, hist
  <2>2. Has(looper, {"connected"}) => hasty
    BY <2>1 DEF AnswerOK
  <2>3. CASE service' = "answered" /\ Post("connected")
    <3>1. ~hasty => Once(looper', {"connected"})
      BY <1>1, <2>2, <2>3, PostQueue, MessageNames DEF AnswerOK
    <3> QED BY <2>1, <2>3, <3>1 DEF AnswerOK
  <2>4. CASE Post("unconnected")
    BY <1>1, <2>1, <2>2, <2>4, PostQueue, MessageNames DEF AnswerOK
  <2> QED BY <1>3, <2>3, <2>4 DEF Connect
<1>4. CASE ~OnConnected /\ ~Connect
  <2>1. /\ Has(looper', {"connected"}) => Has(looper, {"connected"})
        /\ Once(looper, {"connected"}) => Once(looper', {"connected"})
    BY <1>4, Posters
  <2>2. CASE OnPause
    <3>1. hasty \/ service \in {"asked", "answered"} => hasty'
      BY <2>2 DEF OnPause
    <3> QED BY <2>1, <3>1 DEF AnswerOK
  <2>3. CASE OnResume
    <3>1. service = "unbound" /\ UNCHANGED hasty
      BY <1>1, <2>3, HandleQueue DEF OnResume, LifeOK
    <3> QED BY <2>1, <3>1 DEF AnswerOK
  <2>4. CASE ~OnPause /\ ~OnResume
    <3>1. UNCHANGED <<service, hasty>>
      BY <1>4, <2>4, LifeStep, ExcuseStep DEF OnDestroy, OnVoutLost
    <3> QED BY <2>1, <3>1 DEF AnswerOK
  <2> QED BY <2>2, <2>3, <2>4
<1> QED BY <1>2, <1>3, <1>4

\* One that is paused, or gone, stays off.
LEMMA StaysOff ==
    ASSUME TypeOK, LifeOK, AnswerOK, Next, Off, activity # "resumed", activity' # "resumed", Meant'
    PROVE  Off'
<1>1. looper \in Seq(Messages)
  BY DEF TypeOK
<1>2. CASE OnConnected
  <2>1. Has(looper, {"connected"})
    BY <1>1, <1>2, HandleQueue DEF OnConnected
  <2>2. hasty /\ service = "unbound"
    BY <2>1 DEF AnswerOK, LifeOK
  <2>3. hasty'
    BY <1>2, <2>2 DEF OnConnected
  <2> QED BY <2>3 DEF Meant
<1> QED BY <1>2, OffEnds DEF Meant

LEMMA SilentNext ==
    ASSUME TypeOK, LifeOK, LifeOK', SilentOK, Next
    PROVE  SilentOK'
<1>1. looper \in Seq(Messages)
  BY DEF TypeOK
<1>2. AnswerOK'
  BY AnswerNext DEF SilentOK
<1>3. ASSUME activity \in {"paused", "destroyed"}, Meant PROVE Off
  BY <1>3 DEF SilentOK
<1>4. ASSUME activity' \in {"paused", "destroyed"}, Meant' PROVE Off'
  <2>1. CASE OnPause
    <3>1. Stop
      BY <1>4, <2>1 DEF OnPause, Meant
    <3>2. vlc \in VlcRecords
      BY DEF TypeOK
    <3> QED BY <3>1, <3>2, VlcMoves DEF Off
  <2>2. CASE OnDestroy
    <3>1. activity = "paused" /\ UNCHANGED vlc
      <4>1. Has(looper, {"onDestroy"})
        BY <1>1, <2>2, HasTail DEF OnDestroy
      <4> QED BY <2>2, <4>1 DEF OnDestroy, LifeOK
    <3> QED BY <1>3, <1>4, <3>1, MeantBefore DEF Off
  <2>3. CASE ~OnPause /\ ~OnDestroy
    <3>1. UNCHANGED activity
      BY <1>4, <2>3, LifeStep DEF OnResume, OnConnected, OnVoutLost, Connect
    <3> QED BY <1>3, <1>4, <3>1, MeantBefore, StaysOff DEF SilentOK
  <2> QED BY <2>1, <2>2, <2>3
<1>5. ASSUME ~mSwitchingView', Off', focus' # "none" \/ Has(looper', {"playing"}) PROVE Covered(looper')
  <2>1. ~mSwitchingView
    BY <1>5, SwitchStays
  <2>2. CASE Off
    <3>1. ~OpenInput
      BY <2>2 DEF OpenInput, Off
    <3>2. CASE focus # "none" \/ Has(looper, {"playing"})
      <4>1. Covered(looper)
        BY <2>1, <2>2, <3>2 DEF SilentOK
      <4>2. ASSUME NEW m \in Messages, Post(m), m # "playing" PROVE Covered(looper')
        BY <1>1, <4>1, <4>2, PostQueue
      <4>3. ASSUME NEW m, NEW p \in {<<>>, Stopped}, Handle(m, p), m = "stopped" => OnStopped \/ Ignore
            PROVE  Covered(looper')
        <5>1. Covered(looper') \/ (m = "stopped" /\ ~Has(looper', {"playing"}))
          BY <1>1, <4>1, <4>3, StoppedPosts, HandleQueue
        <5>2. CASE m = "stopped" /\ ~Has(looper', {"playing"})
          <6>1. focus' = "none"
            BY <2>1, <4>3, <5>2 DEF OnStopped, Abandon, Ignore
          <6> QED BY <1>5, <5>2, <6>1
        <5> QED BY <5>1, <5>2
      <4>4. CASE Revokes
        BY <1>1, <4>1, <4>4, StoppedPosts, RevokeQueue DEF Revokes
      <4>5. CASE QuietQueue
        <5>1. \A m \in Plain : m \in Messages /\ m # "playing"
          BY PlainMessages DEF Plain
        <5> QED BY <4>1, <4>2, <4>3, <4>4, <4>5, <5>1 DEF QuietQueue
      <4>6. ASSUME NEW m \in Lifecycle \cup Results PROVE m \in Messages /\ m # "playing"
        BY <4>6, PlainMessages DEF Lifecycle, Results
      <4> QED BY <1>1, <3>1, <4>2, <4>5, <4>6, QueueStep, MessageNames DEF Schedule
    <3>3. CASE focus = "none" /\ ~Has(looper, {"playing"})
      <4>1. ~OnPlaying
        BY <1>1, <3>3, HandleQueue DEF OnPlaying
      <4> QED BY <1>5, <3>1, <3>3, <4>1, FocusStep, Posters
    <3> QED BY <3>2, <3>3
  <2>3. CASE ~Off
    BY <1>5, <2>3, OffBegins
  <2> QED BY <2>2, <2>3
<1>6. ASSUME Meant' PROVE InTime(looper')
  <2>1. CASE ~Has(looper', {"onDestroy"})
    BY <2>1 DEF InTime, Has
  <2>2. CASE Has(looper', {"onDestroy"})
    <3>1. activity' = "paused"
      BY <2>2 DEF LifeOK
    <3>2. Meant
      BY <1>6, <3>1, MeantBefore
    <3>3. InTime(looper)
      BY <3>2 DEF SilentOK
    <3>4. ASSUME NEW m \in Messages, Post(m), m # "stopped" PROVE InTime(looper')
      BY <1>1, <3>3, <3>4, PostQueue
    <3>5. CASE QuietQueue
      <4>1. Has(looper, {"onDestroy"})
        BY <1>1, <2>2, <3>5, Quiet, WatchedSets
      <4>2. activity = "paused"
        BY <4>1 DEF LifeOK
      <4>3. Stopped = <<>>
        BY <1>3, <3>2, <4>2 DEF Off, Stopped
      <4>4. ASSUME NEW m, Handle(m, <<>>) PROVE InTime(looper')
        BY <1>1, <3>3, <4>4, HandleQueue
      <4>5. CASE Revokes
        BY <1>1, <3>3, <4>3, <4>5, RevokeQueue DEF Revokes
      <4>6. \A m \in Plain : m \in Messages /\ m # "stopped"
        BY PlainMessages DEF Plain
      <4> QED BY <3>3, <3>4, <3>5, <4>3, <4>4, <4>5, <4>6 DEF QuietQueue
    <3>6. ASSUME NEW m \in Lifecycle \cup Results \cup {"playing", "connected"} PROVE m \in Messages /\ m # "stopped"
      BY <3>6, PlainMessages, MessageNames DEF Lifecycle, Results
    <3> QED BY <1>1, <3>4, <3>5, <3>6, QueueStep DEF Schedule
  <2> QED BY <2>1, <2>2
<1>7. ASSUME activity' = "destroyed", Meant' PROVE focus' = "none" /\ ~Has(looper', {"playing"})
  <2>1. Meant
    BY <1>7, MeantBefore
  <2>2. CASE OnDestroy
    <3>1. Has(looper, {"onDestroy"})
      BY <1>1, <2>2, HasTail DEF OnDestroy
    <3>2. activity = "paused"
      BY <3>1 DEF LifeOK
    <3>3. InTime(looper) /\ looper # <<>> /\ Head(looper) = "onDestroy"
      BY <2>1, <2>2 DEF SilentOK, OnDestroy
    <3>4. ~Has(looper, {"stopped"})
      BY <1>1, <3>3, InTimeTail
    <3>5. ~Covered(looper)
      BY <3>4 DEF Covered, Has
    <3>6. focus = "none" /\ ~Has(looper, {"playing"})
      BY <1>3, <2>1, <3>2, <3>5 DEF SilentOK, Meant
    <3>7. UNCHANGED focus /\ ~OpenInput
      BY <1>3, <2>1, <2>2, <3>2 DEF OnDestroy, OpenInput, Off
    <3> QED BY <3>6, <3>7, Posters
  <2>3. CASE activity = "destroyed"
    <3>1. focus = "none" /\ ~Has(looper, {"playing"}) /\ Off
      BY <2>1, <2>3 DEF SilentOK
    <3>2. ~OpenInput
      BY <3>1 DEF OpenInput, Off
    <3>3. ~OnPlaying
      BY <1>1, <3>1, HandleQueue DEF OnPlaying
    <3> QED BY <3>1, <3>2, <3>3, FocusStep, Posters
  <2>4. OnDestroy \/ activity = "destroyed"
    BY <1>7, LifeStep DEF OnResume, OnPause, OnConnected, OnVoutLost, Connect
  <2> QED BY <2>2, <2>3, <2>4
<1> QED BY <1>2, <1>4, <1>5, <1>6, <1>7 DEF SilentOK

-----------------------------------------------------------------------------
(* The invariant, and the theorems.                                         *)

PlayerInv == TypeOK /\ LifeOK /\ ReadyOK /\ SubOK /\ CastOK /\ SilentOK /\ KeptOK

LEMMA PlayerInit == Init => PlayerInv
<1> SUFFICES ASSUME Init PROVE PlayerInv
  OBVIOUS
<1>1. looper = <<"onResume">> /\ executor = <<>>
  BY DEF Init
<1>2. \A S : Once(looper, S)
  BY <1>1, OnceOne
<1>3. \A S : "onResume" \notin S => ~Has(looper, S)
  BY <1>1, HasOne
<1>4. LifeOK
  BY <1>2, <1>3 DEF Init, LifeOK
<1>5. NoneLive(executor) /\ OneLive(executor) /\ NoSub(executor) /\ \A c : LastLoads(executor, c)
  BY <1>1 DEF NoneLive, OneLive, NoSub, LastLoads
<1>6. ReadyOK
  BY <1>2, <1>3, <1>5 DEF ReadyOK, Init, Results
<1>7. SubOK
  BY <1>5 DEF SubOK, Init
<1>8. CastOK
  BY DEF CastOK, Init
<1>9. AnswerOK
  BY <1>2, <1>3 DEF AnswerOK
<1>10. SilentOK
  <2>1. InTime(looper)
    BY <1>3 DEF InTime, Has
  <2>2. focus = "none" /\ activity = "created" /\ ~Has(looper, {"playing"})
    BY <1>3 DEF Init
  <2> QED BY <1>9, <2>1, <2>2 DEF SilentOK
<1>11. KeptOK
  BY DEF KeptOK, Init, NoPosition
<1> QED BY <1>4, <1>6, <1>7, <1>8, <1>10, <1>11, InitType DEF PlayerInv

LEMMA PlayerNext == PlayerInv /\ [Next]_vars => PlayerInv'
<1> SUFFICES ASSUME PlayerInv, [Next]_vars PROVE PlayerInv'
  OBVIOUS
<1>1. TypeOK'
  BY NextType DEF PlayerInv
<1>2. CASE Next
  <2>1. LifeOK'
    BY <1>2, LifeNext DEF PlayerInv
  <2>2. ReadyOK' /\ SubOK' /\ CastOK' /\ KeptOK'
    BY <1>2, ReadyNext, SubNext, CastNext, KeptNext DEF PlayerInv
  <2>3. SilentOK'
    BY <1>2, <2>1, SilentNext DEF PlayerInv
  <2> QED BY <1>1, <2>1, <2>2, <2>3 DEF PlayerInv
<1>3. CASE UNCHANGED vars
  <2> USE <1>3 DEF PlayerInv, vars, lifecycle, prepare, cast, subs, hist, leaving, screen
  <2>1. LifeOK'
    BY DEF LifeOK
  <2>2. ReadyOK'
    BY DEF ReadyOK
  <2>3. SubOK'
    BY DEF SubOK
  <2>4. CastOK'
    BY DEF CastOK, Started, IsPlaying
  <2>5. SilentOK'
    BY DEF SilentOK, AnswerOK, Off, Meant
  <2>6. KeptOK'
    BY DEF KeptOK
  <2> QED BY <1>1, <2>1, <2>2, <2>3, <2>4, <2>5, <2>6
<1> QED BY <1>2, <1>3

LEMMA Invariance == Spec => []PlayerInv
BY PlayerInit, PlayerNext, PTL DEF Spec

LEMMA WaitsHas == \A S : Waits(S) <=> Has(looper, S)
BY DEF Waits, Has

(* An activity that is paused, or gone, is silent, in whatever order the    *)
(* results, the answers, the events and the focus come; and one that is     *)
(* gone has given the focus back: its "stopped" is handled before it is     *)
(* destroyed, and no "playing" comes behind it.                             *)
THEOREM SilentIsSafe == Spec => []SilentWhenPaused
<1>1. PlayerInv => SilentWhenPaused
  BY DEF PlayerInv, SilentOK, Off, Meant, SilentWhenPaused
<1> QED BY <1>1, Invariance, PTL

(* Of however many preparations were asked for, only the last can make the  *)
(* video ready; once it has, no other one can start the video again.        *)
THEOREM ReadyIsSafe == Spec => []ReadyIsCurrent
<1>1. PlayerInv => ReadyIsCurrent
  BY WaitsHas DEF PlayerInv, ReadyOK, NoneLive, Live, ReadyIsCurrent
<1> QED BY <1>1, Invariance, PTL

(* While the Chromecast plays the device does not, but for the moment until *)
(* it handles that it does; unless it was started while a route connected.  *)
THEOREM OneScreenIsSafe == Spec => []OneScreen
<1>1. PlayerInv => OneScreen
  BY WaitsHas DEF PlayerInv, CastOK, OneScreen
<1> QED BY <1>1, Invariance, PTL

(* The subtitles that are left beside the video are the ones chosen last,   *)
(* however many loads of other ones were cancelled on the way.              *)
THEOREM SubtitlesAreChosen == Spec => []SubtitlesAsChosen
<1>1. PlayerInv => SubtitlesAsChosen
  <2> SUFFICES ASSUME PlayerInv, executor = <<>>, activity # "destroyed", subtitles # Without
               PROVE  subtitles = position
    BY DEF SubtitlesAsChosen
  <2>1. NoSub(executor)
    BY DEF NoSub
  <2> QED BY <2>1 DEF PlayerInv, SubOK
<1> QED BY <1>1, Invariance, PTL

(* A video goes on where it was left, less five seconds, whatever happened  *)
(* between the pause and the answer of the audio service.                   *)
THEOREM PositionIsKept == Spec => PositionKept
<1>1. PlayerInv => (OnConnected /\ isTorrentVideoReady /\ left > 0 => vlc'.time = GoesOnAt(left))
  <2> SUFFICES ASSUME PlayerInv, OnConnected, isTorrentVideoReady, left > 0 PROVE vlc'.time = GoesOnAt(left)
    OBVIOUS
  <2>1. VIDEO_RESUME_TIME = GoesOnAt(left) /\ vlc' = [state |-> "opening", time |-> ResumeFrom]
    BY DEF PlayerInv, KeptOK, OnConnected, PlayIndex
  <2>2. left \in Times /\ Length \in Nat
    BY PlayerAssumption DEF PlayerInv, TypeOK
  <2>3. GoesOnAt(left) \in Nat
    BY <2>2 DEF GoesOnAt, Times, NoPosition
  <2>4. ResumeFrom = GoesOnAt(left)
    BY <2>1, <2>3 DEF ResumeFrom
  <2> QED BY <2>1, <2>4
<1> QED BY <1>1, Invariance, PTL DEF PositionKept
=============================================================================
