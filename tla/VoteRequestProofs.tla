-------------------------- MODULE VoteRequestProofs --------------------------
(***************************************************************************)
(* Proofs about VoteRequest: for any number of devices, requests, polls,   *)
(* retries and lost responses, a request is rated by the address of its    *)
(* client or of a misread proxy, never by one that was made up, the guard  *)
(* lets through and refuses what its limits say, and a device that makes   *)
(* up no tokens votes for a poll within the dedup window only as often as  *)
(* it sends requests without one.                                          *)
(***************************************************************************)
EXTENDS VoteRequest, FiniteSetTheorems, SequenceTheorems, WellFoundedInduction, TLAPS

(* An attempt of Guard is late only when it was given up: the one that is  *)
(* waited for is not among them.                                           *)
Attempts ==
    \A r \in Requests : /\ req[r].late <= req[r].sent
                        /\ req[r].pc = "waiting" => req[r].late < req[r].sent
                        /\ req[r].pc = "new" => req[r].late = 0

(* A token is the name of a request that was bare, of the same device. *)
Issued(token, d, v) == token \in Requests /\ v[token].bare /\ DeviceOf[token] = d

Tokens ==
    /\ \A d \in Devices : jar[d].token # None => Issued(jar[d].token, d, vote)
    /\ \A d \in Devices : jar[d].token = None => jar[d].expires = 0
    /\ \A r \in Requests :
          /\ vote[r].pc = "new" => ~vote[r].bare
          /\ vote[r].pc \in {"asking", "answered"} => Issued(vote[r].token, DeviceOf[r], vote)

(* A ballot was counted with the token tok[r], which still has the dedup   *)
(* key of the last of its ballots for the poll.                            *)
CountedWith(tok) ==
    \A r \in Requests : countedAt[r] > 0 =>
        /\ countedAt[r] <= now
        /\ vote[r].pc \in {"answered", "over"}
        /\ Issued(tok[r], DeviceOf[r], vote)
        /\ countedAt[r] + DedupTTL <= dedup[PollOf[r]][tok[r]]
        /\ \A q \in Requests \ {r} :
              countedAt[q] > 0 /\ PollOf[q] = PollOf[r] /\ tok[q] = tok[r] =>
                 countedAt[q] + DedupTTL <= countedAt[r] \/ countedAt[r] + DedupTTL <= countedAt[q]

Counted == \E tok \in [Requests -> Requests] : CountedWith(tok)

IInv ==
    /\ VoteTypeOK
    /\ Attempts
    /\ AddressIsTheClients
    /\ Tokens
    /\ Counted

USE GuardAssumption

-----------------------------------------------------------------------------
(* Positions have a last one. *)
LEMMA MaxIsLast ==
    ASSUME NEW n \in Nat, NEW T \in SUBSET (1 .. n), T # {}
    PROVE  Max(T) \in T /\ \A i \in T : Max(T) >= i
<1> DEFINE D == {n - i : i \in T}
<1>1. D \subseteq Nat /\ D # {}
  <2>1. \A i \in T : n - i \in Nat
    OBVIOUS
  <2>2. PICK i \in T : TRUE
    OBVIOUS
  <2> QED
    BY <2>1, <2>2
<1>2. PICK d \in D : \A e \in D : <<e, d>> \notin OpToRel(<, Nat)
  BY <1>1, WFMin, NatLessThanWellFounded, Zenon
<1>3. \A e \in D : ~(e < d)
  BY <1>1, <1>2, Zenon DEF OpToRel
<1>4. PICK m \in T : d = n - m
  OBVIOUS
<1>5. \A i \in T : n - i \in D
  OBVIOUS
<1> HIDE DEF D
<1>6. \A i \in T : m >= i
  BY <1>3, <1>4, <1>5
<1> QED
  BY <1>6, Zenon DEF Max

(* Where a route comes from, and who wrote down what. *)
LEMMA RouteFields ==
    ASSUME NEW route \in Routes
    PROVE  LET path == route.path
               kept == Front(path)
               before == Len(route.forged)
           IN /\ Len(path) \in Nat \ {0} /\ before \in Nat
              /\ \A i \in 1 .. Len(path) : path[i] \in Written \cup {Garbage}
              /\ \A i \in 1 .. Len(path) : path[i] # Garbage => path[i].ip \in Nat
              /\ path[1] # Garbage => path[1].ip = Client
              /\ \A i \in 2 .. Len(path) : path[i] # Garbage => Plain(path[i].ip) \in Trusted
              /\ path[Len(path)] # Garbage /\ Peer(route) = path[Len(path)].ip
              /\ DOMAIN kept = 1 .. Len(path) - 1 /\ Len(kept) = Len(path) - 1
              /\ \A i \in 1 .. Len(path) - 1 : kept[i] = path[i]
              /\ DOMAIN Hops(route) = 1 .. before + Len(path) - 1
              /\ \A i \in 1 .. Len(path) - 1 : Hops(route)[before + i] = path[i]
<1> DEFINE F == Written \cup {Garbage}
           path == route.path
           kept == Front(path)
<1>1. route.forged \in Seq(F) /\ path \in Seq(F) /\ path # <<>> /\ Last(path) # Garbage
  BY RequestAssumption
<1>2. /\ path[1] # Garbage => path[1].ip = Client
      /\ \A i \in 2 .. Len(path) : path[i] # Garbage => Plain(path[i].ip) \in Trusted
  BY RequestAssumption
<1> HIDE DEF F
<1>3. /\ Len(path) \in Nat \ {0} /\ Len(route.forged) \in Nat
      /\ \A i \in 1 .. Len(path) : path[i] \in F
  BY <1>1, LenProperties, EmptySeq, ElementOfSeq
<1>4. kept \in Seq(F) /\ Len(kept) = Len(path) - 1 /\ \A i \in 1 .. Len(path) - 1 : kept[i] = path[i]
  BY <1>1, <1>3 DEF Front
<1>5. /\ DOMAIN Hops(route) = 1 .. Len(route.forged) + Len(path) - 1
      /\ \A i \in 1 .. Len(path) - 1 : Hops(route)[Len(route.forged) + i] = kept[i]
  <2>1. Hops(route) = route.forged \o kept
    BY DEF Hops
  <2> HIDE DEF kept
  <2>2. /\ Hops(route) \in Seq(F) /\ Len(Hops(route)) = Len(route.forged) + Len(kept)
        /\ \A i \in 1 .. Len(route.forged) + Len(kept) :
              Hops(route)[i] = IF i <= Len(route.forged) THEN route.forged[i]
                               ELSE kept[i - Len(route.forged)]
    <3> DEFINE own == route.forged
    <3>1. own \in Seq(F) /\ kept \in Seq(F)
      BY <1>1, <1>4
    <3> HIDE DEF own
    <3>2. /\ own \o kept \in Seq(F) /\ Len(own \o kept) = Len(own) + Len(kept)
          /\ \A i \in 1 .. Len(own) + Len(kept) :
                (own \o kept)[i] = IF i <= Len(own) THEN own[i] ELSE kept[i - Len(own)]
      BY <3>1, ConcatProperties, Zenon
    <3> QED
      BY <2>1, <3>2 DEF own
  <2>3. DOMAIN Hops(route) = 1 .. Len(Hops(route))
    BY <2>2, LenProperties
  <2>4. ASSUME NEW i \in 1 .. Len(path) - 1
        PROVE  Hops(route)[Len(route.forged) + i] = kept[i]
    <3> DEFINE k == Len(route.forged) + i
    <3>1. /\ k \in 1 .. Len(route.forged) + Len(kept) /\ ~(k <= Len(route.forged))
          /\ k - Len(route.forged) = i
      <4>1. Len(kept) = Len(path) - 1 /\ Len(path) \in Nat /\ Len(route.forged) \in Nat
        BY <1>3, <1>4
      <4> HIDE DEF path
      <4> QED
        BY <4>1
    <3> HIDE DEF k
    <3>2. Hops(route)[k] = kept[k - Len(route.forged)]
      BY <2>2, <3>1
    <3> QED
      BY <3>1, <3>2 DEF k
  <2> QED
    BY <1>3, <1>4, <2>2, <2>3, <2>4
<1>6. DOMAIN kept = 1 .. Len(path) - 1
  BY <1>4, LenProperties
<1>7. path[Len(path)] # Garbage /\ Peer(route) = path[Len(path)].ip
  BY <1>1 DEF Last, Peer
<1>8. \A i \in 1 .. Len(path) : path[i] # Garbage => path[i].ip \in Nat
  BY <1>3 DEF F, Written
<1> QED
  BY <1>2, <1>3, <1>4, <1>5, <1>6, <1>7, <1>8 DEF F

(* The last hop that is not trusted, as it is written, is the client's     *)
(* own or one after it, which only a proxy on the way can have written.    *)
LEMMA ResolvedOnTheWay ==
    ASSUME NEW route \in Routes
    PROVE  /\ ResolveClientIP(route) \in Nat /\ Standins(route) \subseteq Nat
           /\ IF Standins(route) = {} THEN ResolveClientIP(route) = Client
              ELSE ResolveClientIP(route) \in Standins(route)
<1> DEFINE path == route.path
           kept == Front(path)
           before == Len(route.forged)
           hops == Hops(route)
           far == {kept[i].ip : i \in {j \in 2 .. Len(kept) : kept[j] \notin Trusted \cup {Garbage}}}
           lost == IF Garbage \in ToSet(kept) THEN {Peer(route)} ELSE {}
<1>1. Standins(route) = far \cup lost
  BY DEF Standins
<1>2. /\ Len(path) \in Nat \ {0} /\ before \in Nat
      /\ \A i \in 1 .. Len(path) : path[i] # Garbage => path[i].ip \in Nat
      /\ path[1] # Garbage => path[1].ip = Client
      /\ \A i \in 2 .. Len(path) : path[i] # Garbage => Plain(path[i].ip) \in Trusted
      /\ path[Len(path)] # Garbage /\ Peer(route) = path[Len(path)].ip
      /\ DOMAIN kept = 1 .. Len(path) - 1 /\ Len(kept) = Len(path) - 1
      /\ \A i \in 1 .. Len(path) - 1 : kept[i] = path[i]
      /\ DOMAIN hops = 1 .. before + Len(path) - 1
      /\ \A i \in 1 .. Len(path) - 1 : hops[before + i] = path[i]
  BY RouteFields
<1>3. /\ Garbage \notin Trusted /\ Client \in Nat
      /\ \A form \in Trusted : form.ip # Client
      /\ Plain(Client).ip = Client
  BY RequestAssumption DEF Plain
<1> HIDE DEF kept, path, before, hops
<1>4. Peer(route) \in Nat /\ far \subseteq Nat /\ lost \subseteq Nat
  <2>1. Len(path) \in 1 .. Len(path)
    BY <1>2
  <2>2. Peer(route) \in Nat
    BY <1>2, <2>1
  <2>3. \A i \in 2 .. Len(kept) : kept[i] # Garbage => kept[i].ip \in Nat
    BY <1>2
  <2> QED
    BY <2>2, <2>3
<1>5. Garbage \in ToSet(kept) <=> \E i \in 1 .. Len(path) - 1 : path[i] = Garbage
  BY <1>2 DEF ToSet
<1>6. CASE Len(path) = 1
  <2>1. Peer(route) = Client /\ Plain(Client) \notin Trusted
    BY <1>2, <1>3, <1>6
  <2>2. ResolveClientIP(route) = Client
    BY <2>1 DEF ResolveClientIP
  <2>3. far = {} /\ lost = {}
    BY <1>2, <1>5, <1>6
  <2> QED
    BY <1>1, <1>3, <2>2, <2>3
<1>7. CASE Len(path) > 1
  <2> DEFINE U == Untrusted(hops)
             end == before + Len(path) - 1
             m == Max(U)
             k == m - before
  <2>1. end \in Nat /\ U \in SUBSET (1 .. end)
    BY <1>2 DEF Untrusted
  <2>2. before + 1 \in U
    <3>1. 1 \in 1 .. Len(path) - 1 /\ before + 1 \in 1 .. before + Len(path) - 1
      BY <1>2, <1>7
    <3>2. hops[before + 1] = path[1] /\ path[1] \notin Trusted
      BY <1>2, <1>3, <3>1
    <3> QED
      BY <1>2, <3>1, <3>2 DEF Untrusted
  <2>3. m \in U /\ \A i \in U : m >= i
    <3> HIDE DEF U, end
    <3> QED
      BY <2>1, <2>2, MaxIsLast
  <2> HIDE DEF m
  <2>4. k \in 1 .. Len(path) - 1 /\ m = before + k
    BY <1>2, <2>1, <2>2, <2>3
  <2>5. hops[m] = path[k] /\ path[k] \notin Trusted
    BY <1>2, <2>3, <2>4 DEF Untrusted
  <2>6. \A i \in 1 .. Len(path) - 1 : i > k => path[i] \in Trusted
    <3> SUFFICES ASSUME NEW i \in 1 .. Len(path) - 1, i > k PROVE path[i] \in Trusted
      OBVIOUS
    <3>1. before + i \in 1 .. before + Len(path) - 1 /\ ~(m >= before + i)
      BY <1>2, <2>4
    <3> QED
      BY <1>2, <2>3, <3>1 DEF Untrusted
  <2> HIDE DEF k
  <2>7. Plain(Peer(route)) \in Trusted
    BY <1>2, <1>7
  <2>8. ResolveClientIP(route) = IF path[k] # Garbage THEN path[k].ip ELSE Peer(route)
    BY <2>3, <2>5, <2>7 DEF ResolveClientIP, hops, m
  <2> HIDE DEF U
  <2>9. CASE path[k] = Garbage
    <3>1. Peer(route) \in lost
      BY <1>5, <2>4, <2>9
    <3> QED
      BY <1>1, <1>4, <2>8, <2>9, <3>1
  <2>10. CASE path[k] # Garbage /\ k = 1
    <3>1. ResolveClientIP(route) = Client
      BY <1>2, <2>8, <2>10
    <3>2. \A i \in 1 .. Len(path) - 1 : path[i] # Garbage /\ (i > 1 => path[i] \in Trusted)
      BY <1>2, <1>3, <2>6, <2>10
    <3>3. far = {} /\ lost = {}
      BY <1>2, <1>5, <3>2
    <3> QED
      BY <1>1, <1>3, <3>1, <3>3
  <2>11. CASE path[k] # Garbage /\ k > 1
    <3>1. k \in 2 .. Len(kept) /\ kept[k] = path[k] /\ kept[k] \notin Trusted \cup {Garbage}
      BY <1>2, <2>4, <2>5, <2>11
    <3>2. path[k].ip \in far
      BY <3>1
    <3> QED
      BY <1>1, <1>4, <2>8, <2>11, <3>2
  <2> QED
    BY <2>4, <2>9, <2>10, <2>11
<1> QED
  BY <1>2, <1>6, <1>7

-----------------------------------------------------------------------------
(* Guard: the keys of the address and the attempts of a request. *)
LEMMA HitIsKey ==
    ASSUME now \in Nat, NEW key \in Key, NEW window \in Nat
    PROVE  Hit(key, window) \in Key
  BY DEF Hit, Key

LEMMA ScriptTypes ==
    ASSUME TypeOK, NEW p \in Polls, RunScript(p)
    PROVE  /\ rate' \in Key /\ quota' \in [Polls -> Key]
           /\ runs' \subseteq Run /\ IsFiniteSet(runs')
<1>1. now \in Times /\ now \in Nat
  BY DEF TypeOK, Times
<1>2. RateHit \in Key /\ QuotaHit(p) \in Key
  BY <1>1, HitIsKey DEF TypeOK, RateHit, QuotaHit
<1>3. rate' \in Key /\ quota' \in [Polls -> Key]
  BY <1>2 DEF RunScript, TypeOK
<1>4. Verdict(p) \in Verdicts
  BY DEF Verdict, Verdicts
<1>5. Cardinality(Alike(now, p, Verdict(p))) + 1 \in Nat
  BY FS_Subset, FS_CardinalityType DEF TypeOK, Alike
<1>6. runs' \subseteq Run /\ IsFiniteSet(runs')
  <2> DEFINE x == [n |-> Cardinality(Alike(now, p, Verdict(p))) + 1,
                   at |-> now, poll |-> p, verdict |-> Verdict(p)]
  <2>1. runs' = runs \cup {x} /\ runs \subseteq Run /\ IsFiniteSet(runs)
    BY DEF RunScript, TypeOK
  <2>2. x \in Run
    BY <1>1, <1>4, <1>5 DEF Run
  <2> HIDE DEF x
  <2> QED
    BY <2>1, <2>2, FS_AddElement
<1> QED
  BY <1>3, <1>6

LEMMA GuardStep ==
    ASSUME TypeOK, Attempts, NEW r \in Requests,
           Send(r) \/ Answer(r) \/ GiveUp(r) \/ RunLate(r)
    PROVE  TypeOK' /\ Attempts' /\ now' = now
<1> DEFINE k == req[r]
<1> DEFINE Fits(x) == /\ x \in Call /\ x.late <= x.sent
                      /\ x.pc = "waiting" => x.late < x.sent
                      /\ x.pc = "new" => x.late = 0
<1>1. Fits(k) /\ k.sent \in 0 .. MaxRetries + 1 /\ k.late \in 0 .. MaxRetries + 1
  BY DEF TypeOK, Call, Attempts
<1>2. \E c : req' = [req EXCEPT ![r] = c] /\ Fits(c)
  <2>1. CASE Send(r)
    <3> DEFINE c == [k EXCEPT !.pc = "waiting", !.sent = 1]
    <3>1. k.pc = "new" /\ req' = [req EXCEPT ![r] = c]
      BY <2>1 DEF Send, TypeOK
    <3>2. k \in Call /\ k.late = 0 /\ 1 \in 0 .. MaxRetries + 1
      BY <1>1, <3>1
    <3>3. c.pc = "waiting" /\ c.sent = 1 /\ c.late = 0 /\ c \in Call
      BY <3>2 DEF Call
    <3> HIDE DEF c
    <3>4. Fits(c)
      BY <3>3
    <3> QED
      BY <3>1, <3>4
  <2>2. CASE Answer(r)
    <3> DEFINE c == [k EXCEPT !.pc = Verdict(PollOf[r])]
    <3>1. req' = [req EXCEPT ![r] = c]
      BY <2>2 DEF Answer
    <3>2. Verdict(PollOf[r]) \in Verdicts
      BY DEF Verdict, Verdicts
    <3>3. Fits(c)
      BY <1>1, <3>2 DEF Call, Verdicts
    <3> QED
      BY <3>1, <3>3
  <2>3. CASE GiveUp(r)
    <3> DEFINE c == [k EXCEPT !.late = k.late + 1,
                              !.sent = IF k.sent <= MaxRetries THEN k.sent + 1 ELSE k.sent,
                              !.pc = IF k.sent <= MaxRetries THEN k.pc ELSE "unavailable"]
    <3>1. k.pc = "waiting" /\ req' = [req EXCEPT ![r] = c]
      BY <2>3 DEF GiveUp, TypeOK
    <3>2. /\ c.late = k.late + 1
          /\ c.sent = IF k.sent <= MaxRetries THEN k.sent + 1 ELSE k.sent
          /\ c.pc = IF k.sent <= MaxRetries THEN "waiting" ELSE "unavailable"
      BY <1>1, <3>1 DEF Call
    <3>3. c.late <= c.sent /\ (c.pc = "waiting" => c.late < c.sent) /\ c.pc # "new"
      BY <1>1, <3>1, <3>2
    <3>4. c \in Call
      <4>1. k.late + 1 \in 0 .. MaxRetries + 1
        BY <1>1, <3>1
      <4>2. (IF k.sent <= MaxRetries THEN k.sent + 1 ELSE k.sent) \in 0 .. MaxRetries + 1
        BY <1>1
      <4> QED
        BY <1>1, <3>1, <4>1, <4>2 DEF Call
    <3> HIDE DEF c
    <3> QED
      BY <3>1, <3>3, <3>4
  <2>4. CASE RunLate(r)
    <3> DEFINE c == [k EXCEPT !.late = k.late - 1]
    <3>1. k.late > 0 /\ req' = [req EXCEPT ![r] = c]
      BY <2>4 DEF RunLate
    <3>2. Fits(c)
      BY <1>1, <3>1 DEF Call
    <3> QED
      BY <3>1, <3>2
  <2> QED
    BY <2>1, <2>2, <2>3, <2>4
<1>3. req' \in [Requests -> Call] /\ Attempts'
  <2>1. PICK c : req' = [req EXCEPT ![r] = c] /\ Fits(c)
    BY <1>2
  <2>2. c \in Call /\ req \in [Requests -> Call]
    BY <2>1 DEF TypeOK
  <2> HIDE DEF Fits
  <2>3. /\ req' \in [Requests -> Call]
        /\ \A q \in Requests : req'[q] = IF q = r THEN c ELSE req[q]
    BY <2>1, <2>2
  <2>4. \A q \in Requests : Fits(req[q])
    BY <2>2 DEF Fits, Attempts
  <2>5. \A q \in Requests : Fits(req'[q])
    BY <2>1, <2>3, <2>4
  <2> QED
    BY <2>3, <2>5 DEF Fits, Attempts
<1>4. /\ rate' \in Key /\ quota' \in [Polls -> Key]
      /\ runs' \subseteq Run /\ IsFiniteSet(runs')
  <2>1. CASE Send(r) \/ GiveUp(r)
    BY <2>1 DEF Send, GiveUp, TypeOK
  <2>2. CASE Answer(r) \/ RunLate(r)
    BY <2>2, ScriptTypes DEF Answer, RunLate
  <2> QED
    BY <2>1, <2>2
<1>5. now' = now
  BY DEF Send, Answer, GiveUp, RunLate
<1> QED
  BY <1>3, <1>4, <1>5 DEF TypeOK

-----------------------------------------------------------------------------
(* The limits of Guard.  The runs of R that are in the window that ends    *)
(* with e, those after its first instant, and those less than a window     *)
(* before it.                                                              *)
Since(R, e, window) == {x \in R : e <= x.at + window}
After(R, e, window) == {x \in R : e < x.at + window}
Before(R, e, window) == {x \in R : e < x.at + 2 * window /\ x.at + window < e}

(* A key counts the runs H that hit it since its window began, ...         *)
Exact(H, key, window, t) ==
    /\ key.hits = Cardinality(Since(H, key.expires, window))
    /\ key.expires <= t + window
    /\ key.expires = 0 \/ key.hits > 0
    /\ \A x \in H : x.at < key.expires

(* ... lets no more than the limit pass, of them those A that are allowed, *)
(* and one fewer outside of the instant the window began with: that        *)
(* instant is too early for any stretch that reaches the next window.      *)
Bounded(A, key, window, limit) ==
    /\ Cardinality(Since(A, key.expires, window)) <= limit
    /\ Cardinality(After(A, key.expires, window)) < limit
    /\ \/ Cardinality(After(A, key.expires, window)) = 0
       \/ Cardinality(After(A, key.expires, window)) < key.hits
    /\ Cardinality(Before(A, key.expires, window)) < limit
    /\ \A t \in Times : Within(A, window, t) < 2 * limit

RateKept ==
    RateLimit > 0 =>
        /\ Exact(runs, rate, RateWindow, now)
        /\ Bounded(Allowed, rate, RateWindow, RateLimit)

QuotaKept ==
    PollQuota > 0 => \A p \in Polls :
        /\ Exact(Passed(p), quota[p], QuotaWindow, now)
        /\ Bounded(AllowedFor(p), quota[p], QuotaWindow, PollQuota)

(* A run is numbered after those it is like, and is over. *)
Numbered ==
    \A x \in runs : x.at <= now /\ x.n <= Cardinality(Alike(x.at, x.poll, x.verdict))

GuardIInv == TypeOK /\ Attempts /\ Numbered /\ RateKept /\ QuotaKept

LEMMA FiniteParts ==
    ASSUME NEW R, IsFiniteSet(R), NEW S \in SUBSET R
    PROVE  IsFiniteSet(S) /\ Cardinality(S) \in Nat /\ Cardinality(S) <= Cardinality(R)
  BY FS_Subset, FS_CardinalityType

LEMMA OneMore ==
    ASSUME NEW R, IsFiniteSet(R), NEW x
    PROVE  /\ IsFiniteSet(R \cup {x}) /\ Cardinality(R \cup {x}) \in Nat
           /\ Cardinality(R \cup {x}) <= Cardinality(R) + 1
           /\ x \notin R => Cardinality(R \cup {x}) = Cardinality(R) + 1
  BY FS_AddElement, FS_CardinalityType

(* INCR and EXPIRE: the key goes on counting its window, or begins one.    *)
LEMMA HitExact ==
    ASSUME now \in Nat, NEW H, IsFiniteSet(H), \A x \in H : x.at \in Nat,
           NEW x0, x0 \notin H, x0.at = now,
           NEW key \in Key, NEW window \in Nat \ {0}, Exact(H, key, window, now)
    PROVE  Exact(H \cup {x0}, Hit(key, window), window, now)
<1> DEFINE e == key.expires
           G == H \cup {x0}
           next == Hit(key, window)
<1>1. /\ e \in Nat /\ key.hits \in Nat /\ e <= now + window
      /\ \A x \in H : x.at < e
      /\ key.hits = Cardinality(Since(H, e, window))
  BY DEF Key, Exact
<1>2. CASE now < e
  <2>1. next.hits = key.hits + 1 /\ next.expires = e
    BY <1>2 DEF Hit, Key
  <2>2. Since(G, e, window) = Since(H, e, window) \cup {x0}
    BY <1>1 DEF Since
  <2>3. Cardinality(Since(G, e, window)) = Cardinality(Since(H, e, window)) + 1
    <3>1. IsFiniteSet(Since(H, e, window)) /\ x0 \notin Since(H, e, window)
      BY FiniteParts DEF Since
    <3> QED
      BY <2>2, <3>1, OneMore
  <2> QED
    BY <1>1, <1>2, <2>1, <2>3 DEF Exact
<1>3. CASE ~(now < e)
  <2>1. next.hits = 1 /\ next.expires = now + window
    BY <1>3 DEF Hit
  <2>2. Since(G, now + window, window) = {x0}
    BY <1>1, <1>3 DEF Since
  <2>3. \A x \in G : x.at < now + window
    BY <1>1, <1>3
  <2>4. Cardinality({x0}) = 1
    BY FS_Singleton
  <2> HIDE DEF next, G
  <2>5. next.hits = Cardinality(Since(G, next.expires, window))
    BY <2>1, <2>2, <2>4
  <2> QED
    BY <2>1, <2>3, <2>5 DEF Exact, next, G
<1> QED
  BY <1>2, <1>3

(* What a stretch that ends at or after the last hit holds is in the       *)
(* key's window, or less than a window before it.                          *)
LEMMA StretchIsCovered ==
    ASSUME NEW A, IsFiniteSet(A), \A x \in A : x.at \in Nat, NEW e \in Nat,
           NEW window \in Nat, NEW t \in Nat, e <= t + window
    PROVE  /\ Within(A, window, t) \in Nat
           /\ Within(A, window, t)
                 <= Cardinality(Before(A, e, window)) + Cardinality(Since(A, e, window))
<1> DEFINE S == {x \in A : x.at <= t /\ t < x.at + window}
           B == Before(A, e, window)
           C == Since(A, e, window)
<1>1. S \subseteq B \cup C
  BY DEF Before, Since
<1>2. /\ IsFiniteSet(B) /\ IsFiniteSet(C) /\ IsFiniteSet(B \cap C)
      /\ Cardinality(B) \in Nat /\ Cardinality(C) \in Nat /\ Cardinality(B \cap C) \in Nat
  <2>1. B \in SUBSET A /\ C \in SUBSET A /\ B \cap C \in SUBSET A
    BY DEF Before, Since
  <2> HIDE DEF B, C
  <2> QED
    BY <2>1, FiniteParts
<1> HIDE DEF B, C
<1>3. IsFiniteSet(B \cup C) /\ Cardinality(B \cup C) <= Cardinality(B) + Cardinality(C)
  <2>1. /\ IsFiniteSet(B \cup C)
        /\ Cardinality(B \cup C) = Cardinality(B) + Cardinality(C) - Cardinality(B \cap C)
    BY <1>2, FS_Union
  <2> QED
    BY <1>2, <2>1
<1>4. Cardinality(S) \in Nat /\ Cardinality(S) <= Cardinality(B \cup C)
  BY <1>1, <1>3, FiniteParts
<1>5. Cardinality(B \cup C) \in Nat
  BY <1>3, FS_CardinalityType
<1> QED
  BY <1>2, <1>3, <1>4, <1>5 DEF Within, B, C

(* Side by side, two windows let through less than twice the limit: B is   *)
(* the run x0 when it is allowed, and empty when it is not.                *)
LEMMA HitBounded ==
    ASSUME now \in Nat, NEW H, IsFiniteSet(H), \A x \in H : x.at \in Nat,
           NEW A \in SUBSET H, IsFiniteSet(A),
           NEW x0, x0.at = now, NEW B \in SUBSET {x0},
           NEW key \in Key, NEW window \in Nat \ {0}, NEW limit \in Nat \ {0},
           Exact(H, key, window, now), Bounded(A, key, window, limit),
           B # {} => Hit(key, window).hits <= limit
    PROVE  Bounded(A \cup B, Hit(key, window), window, limit)
<1> DEFINE e == key.expires
           G == A \cup B
           next == Hit(key, window)
           f == next.expires
<1>1. /\ e \in Nat /\ key.hits \in Nat /\ e <= now + window
      /\ \A x \in H : x.at < e
      /\ e = 0 \/ key.hits > 0
  BY DEF Key, Exact
<1>2. /\ \A x \in A : x.at \in Nat /\ x.at < e
      /\ B = {} \/ B = {x0}
      /\ IsFiniteSet(G) /\ \A x \in G : x.at \in Nat
  <2>1. B = {} \/ B = {x0}
    OBVIOUS
  <2>2. B = {} => G = A
    OBVIOUS
  <2>3. B = {x0} => G = A \cup {x0}
    OBVIOUS
  <2>4. \A x \in G : x.at \in Nat
    BY <2>1
  <2> HIDE DEF G
  <2>5. IsFiniteSet(A \cup {x0})
    BY OneMore
  <2>6. IsFiniteSet(G)
    BY <2>1, <2>2, <2>3, <2>5
  <2> QED
    BY <1>1, <2>1, <2>4, <2>6
<1>3. /\ Cardinality(Since(A, e, window)) \in Nat
      /\ Cardinality(After(A, e, window)) \in Nat
      /\ Cardinality(Before(A, e, window)) \in Nat
      /\ Cardinality(Since(G, f, window)) \in Nat
      /\ Cardinality(After(G, f, window)) \in Nat
      /\ Cardinality(Before(G, f, window)) \in Nat
  <2>1. ASSUME NEW R, IsFiniteSet(R), NEW u
        PROVE  /\ Cardinality(Since(R, u, window)) \in Nat
               /\ Cardinality(After(R, u, window)) \in Nat
               /\ Cardinality(Before(R, u, window)) \in Nat
    <3>1. /\ Since(R, u, window) \in SUBSET R /\ After(R, u, window) \in SUBSET R
          /\ Before(R, u, window) \in SUBSET R
      BY DEF Since, After, Before
    <3> QED
      BY <2>1, <3>1, FiniteParts
  <2> HIDE DEF G, f, e
  <2> QED
    BY <1>2, <2>1
<1>4. /\ Cardinality(Since(A, e, window)) <= limit
      /\ Cardinality(After(A, e, window)) < limit
      /\ Cardinality(After(A, e, window)) = 0 \/ Cardinality(After(A, e, window)) < key.hits
      /\ Cardinality(Before(A, e, window)) < limit
      /\ \A t \in Times : Within(A, window, t) < 2 * limit
  BY DEF Bounded
<1>5. /\ Cardinality(Since(G, f, window)) <= limit
      /\ Cardinality(After(G, f, window)) < limit
      /\ Cardinality(After(G, f, window)) = 0 \/ Cardinality(After(G, f, window)) < next.hits
      /\ Cardinality(Before(G, f, window)) < limit
      /\ f \in Nat /\ f <= now + window
  <2>1. CASE now < e
    <3>1. next.hits = key.hits + 1 /\ f = e /\ key.hits > 0
      BY <1>1, <2>1 DEF Hit, Key
    <3>2. Since(G, e, window) = Since(A, e, window) \cup B
      BY <1>1, <1>2 DEF Since
    <3>3. After(G, e, window) \subseteq After(A, e, window) \cup B
      BY DEF After
    <3>4. Before(G, e, window) = Before(A, e, window)
      BY <1>1, <1>2 DEF Before
    <3>5. CASE B = {}
      <4>1. G = A
        BY <3>5
      <4> HIDE DEF G, f, e, next
      <4> QED
        BY <1>1, <1>3, <1>4, <3>1, <4>1
    <3>6. CASE B = {x0}
      <4>1. Cardinality(Since(G, e, window)) <= key.hits + 1
        <5>1. IsFiniteSet(Since(A, e, window)) /\ IsFiniteSet(Since(H, e, window))
          BY FiniteParts DEF Since
        <5>2. Since(A, e, window) \in SUBSET Since(H, e, window)
          BY DEF Since
        <5>3. Cardinality(Since(A, e, window)) <= key.hits
          BY <5>1, <5>2, FiniteParts DEF Exact
        <5>4. Cardinality(Since(A, e, window) \cup {x0}) <= Cardinality(Since(A, e, window)) + 1
          BY <5>1, OneMore
        <5> HIDE DEF G, f, e
        <5> QED
          BY <1>1, <1>3, <3>1, <3>2, <3>6, <5>3, <5>4
      <4>2. Cardinality(After(G, e, window)) <= Cardinality(After(A, e, window)) + 1
        <5>1. IsFiniteSet(After(A, e, window))
          BY FiniteParts DEF After
        <5>2. /\ IsFiniteSet(After(A, e, window) \cup {x0})
              /\ Cardinality(After(A, e, window) \cup {x0}) \in Nat
              /\ Cardinality(After(A, e, window) \cup {x0}) <= Cardinality(After(A, e, window)) + 1
          BY <5>1, OneMore
        <5> HIDE DEF G, f, e
        <5>3. After(G, e, window) \in SUBSET (After(A, e, window) \cup {x0})
          BY <3>3, <3>6
        <5>4. /\ Cardinality(After(G, e, window)) \in Nat
              /\ Cardinality(After(G, e, window)) <= Cardinality(After(A, e, window) \cup {x0})
          BY <5>2, <5>3, FiniteParts
        <5> QED
          BY <1>3, <5>2, <5>4
      <4>3. key.hits + 1 <= limit
        BY <3>1, <3>6
      <4> HIDE DEF G, f, e, next
      <4> QED
        BY <1>1, <1>3, <1>4, <3>1, <3>4, <4>1, <4>2, <4>3
    <3> QED
      BY <1>2, <3>5, <3>6
  <2>2. CASE ~(now < e)
    <3>1. next.hits = 1 /\ f = now + window
      BY <2>2 DEF Hit
    <3>2. Since(G, now + window, window) = B /\ After(G, now + window, window) = {}
      BY <1>1, <1>2, <2>2 DEF Since, After
    <3>3. Before(G, now + window, window) \subseteq After(A, e, window)
      BY <1>1, <1>2, <2>2 DEF Before, After
    <3>4. Cardinality(B) <= 1 /\ Cardinality({}) = 0
      <4>1. Cardinality({}) = 0 /\ Cardinality({x0}) = 1
        BY FS_EmptySet, FS_Singleton
      <4>2. B = {} => Cardinality(B) = 0
        BY <4>1
      <4>3. B = {x0} => Cardinality(B) = 1
        BY <4>1
      <4> QED
        BY <1>2, <4>1, <4>2, <4>3
    <3>5. /\ Cardinality(Before(G, f, window)) <= Cardinality(After(A, e, window))
      <4>1. IsFiniteSet(After(A, e, window))
        BY FiniteParts DEF After
      <4> HIDE DEF G, f, e
      <4> QED
        BY <3>1, <3>3, <4>1, FiniteParts
    <3> HIDE DEF G, f, e, next
    <3> QED
      BY <1>1, <1>3, <1>4, <3>1, <3>2, <3>4, <3>5
  <2> QED
    BY <2>1, <2>2
<1>6. ASSUME NEW t \in Times PROVE Within(G, window, t) < 2 * limit
  <2>0. t \in Nat
    BY DEF Times
  <2>1. CASE t < now
    <3>1. {x \in G : x.at <= t /\ t < x.at + window} = {x \in A : x.at <= t /\ t < x.at + window}
      BY <1>2, <2>0, <2>1
    <3> HIDE DEF G
    <3> QED
      BY <1>4, <3>1 DEF Within
  <2>2. CASE now <= t
    <3> HIDE DEF G, f
    <3>1. /\ Within(G, window, t) \in Nat
          /\ Within(G, window, t)
               <= Cardinality(Before(G, f, window)) + Cardinality(Since(G, f, window))
      BY <1>2, <1>5, <2>0, <2>2, StretchIsCovered
    <3> QED
      BY <1>3, <1>5, <3>1
  <2> QED
    BY <2>0, <2>1, <2>2
<1> HIDE DEF G, f
<1>7. Bounded(G, next, window, limit)
  BY <1>5, <1>6 DEF Bounded, f
<1> QED
  BY <1>7 DEF G

(* guardScript keeps both limits. *)
LEMMA ScriptKeeps ==
    ASSUME GuardIInv, NEW p \in Polls, RunScript(p), now' = now
    PROVE  Numbered' /\ RateKept' /\ QuotaKept'
<1> DEFINE v == Verdict(p)
           x0 == [n |-> Cardinality(Alike(now, p, v)) + 1, at |-> now, poll |-> p, verdict |-> v]
<1>1. /\ now \in Nat /\ runs \subseteq Run /\ IsFiniteSet(runs)
      /\ \A x \in runs : x.at \in Nat
      /\ rate \in Key /\ quota \in [Polls -> Key]
  BY DEF GuardIInv, TypeOK, Times, Run
<1>2. /\ runs' = runs \cup {x0}
      /\ rate' = RateHit
      /\ quota' = IF v = "rate_limited" THEN quota ELSE [quota EXCEPT ![p] = QuotaHit(p)]
  BY DEF RunScript
<1>3. /\ x0.at = now /\ x0.poll = p /\ x0.verdict = v
      /\ x0.n = Cardinality(Alike(now, p, v)) + 1
  OBVIOUS
<1> HIDE DEF x0
<1>4. \A t, q, u :
         /\ IsFiniteSet(Alike(t, q, u)) /\ Cardinality(Alike(t, q, u)) \in Nat
         /\ IsFiniteSet(Alike(t, q, u)')
         /\ Cardinality(Alike(t, q, u)) <= Cardinality(Alike(t, q, u)')
  <2> SUFFICES ASSUME NEW t, NEW q, NEW u
               PROVE  /\ IsFiniteSet(Alike(t, q, u)) /\ Cardinality(Alike(t, q, u)) \in Nat
                      /\ IsFiniteSet(Alike(t, q, u)')
                      /\ Cardinality(Alike(t, q, u)) <= Cardinality(Alike(t, q, u)')
    OBVIOUS
  <2>1. IsFiniteSet(runs')
    BY <1>1, <1>2, OneMore
  <2>2. IsFiniteSet(Alike(t, q, u)) /\ IsFiniteSet(Alike(t, q, u)')
    BY <1>1, <2>1, FiniteParts DEF Alike
  <2>3. Alike(t, q, u) \in SUBSET (Alike(t, q, u)')
    BY <1>2 DEF Alike
  <2> QED
    BY <2>2, <2>3, FiniteParts
<1>5. x0 \notin runs
  BY <1>3, <1>4 DEF GuardIInv, Numbered
<1>6. Numbered'
  <2> SUFFICES ASSUME NEW x \in runs'
               PROVE  x.n <= Cardinality(Alike(x.at, x.poll, x.verdict)')
    <3>1. \A x \in runs' : x.at <= now
      BY <1>1, <1>2, <1>3 DEF GuardIInv, Numbered
    <3> QED
      BY <3>1 DEF Numbered
  <2> DEFINE old == Alike(x.at, x.poll, x.verdict)
             new == {y \in runs' : y.at = x.at /\ y.poll = x.poll /\ y.verdict = x.verdict}
  <2>1. /\ old = {y \in runs : y.at = x.at /\ y.poll = x.poll /\ y.verdict = x.verdict}
        /\ Alike(x.at, x.poll, x.verdict)' = new
    BY DEF Alike
  <2>2. /\ IsFiniteSet(old) /\ Cardinality(old) \in Nat
        /\ Cardinality(new) \in Nat /\ Cardinality(old) <= Cardinality(new)
    BY <1>4, <2>1, FS_CardinalityType
  <2>3. CASE x \in runs
    <3>1. x.n \in Nat /\ x.n <= Cardinality(old)
      BY <1>1, <2>3 DEF GuardIInv, Numbered, Run
    <3> HIDE DEF old, new
    <3> QED
      BY <2>1, <2>2, <3>1
  <2>4. CASE x = x0
    <3>1. new = old \cup {x0} /\ x0 \notin old
      BY <1>2, <1>5, <2>1, <2>4
    <3>2. x.n = Cardinality(old) + 1
      BY <1>3, <2>4
    <3> HIDE DEF old, new
    <3>3. Cardinality(new) = Cardinality(old) + 1
      BY <2>2, <3>1, OneMore
    <3> QED
      BY <2>1, <2>2, <3>2, <3>3
  <2> QED
    BY <1>2, <2>3, <2>4
<1>7. RateKept'
  <2> SUFFICES ASSUME RateLimit > 0
               PROVE  /\ Exact(runs', rate', RateWindow, now)
                      /\ Bounded(Allowed', rate', RateWindow, RateLimit)
    BY DEF RateKept
  <2> DEFINE B == IF v = "allow" THEN {x0} ELSE {}
  <2>1. /\ Exact(runs, rate, RateWindow, now)
        /\ Bounded(Allowed, rate, RateWindow, RateLimit)
        /\ rate' = Hit(rate, RateWindow)
    BY <1>2 DEF GuardIInv, RateKept, RateHit
  <2>2. Exact(runs', rate', RateWindow, now)
    BY <1>1, <1>2, <1>3, <1>5, <2>1, HitExact
  <2>3. /\ Allowed' = Allowed \cup B /\ B \in SUBSET {x0}
        /\ Allowed \in SUBSET runs /\ IsFiniteSet(Allowed)
    BY <1>1, <1>2, <1>3, FiniteParts DEF Allowed
  <2>4. B # {} => Hit(rate, RateWindow).hits <= RateLimit
    <3>1. Hit(rate, RateWindow).hits \in Nat
      BY <1>1, HitIsKey DEF Key
    <3> QED
      BY <3>1 DEF Verdict, Over, RateHit
  <2> HIDE DEF B, v
  <2>0. RateLimit \in Nat \ {0} /\ RateWindow \in Nat \ {0} /\ RateLimit > 0
    OBVIOUS
  <2>5. Bounded(Allowed \cup B, Hit(rate, RateWindow), RateWindow, RateLimit)
    BY <1>1, <1>3, <2>0, <2>1, <2>3, <2>4, HitBounded
  <2> QED
    BY <2>1, <2>2, <2>3, <2>5
<1>8. QuotaKept'
  <2> SUFFICES ASSUME PollQuota > 0, NEW q \in Polls
               PROVE  /\ Exact(Passed(q)', quota'[q], QuotaWindow, now)
                      /\ Bounded(AllowedFor(q)', quota'[q], QuotaWindow, PollQuota)
    BY DEF QuotaKept
  <2>1. /\ Exact(Passed(q), quota[q], QuotaWindow, now)
        /\ Bounded(AllowedFor(q), quota[q], QuotaWindow, PollQuota)
    BY DEF GuardIInv, QuotaKept
  <2>2. CASE q # p \/ v = "rate_limited"
    <3>1. Passed(q)' = Passed(q) /\ AllowedFor(q)' = AllowedFor(q) /\ quota'[q] = quota[q]
      BY <1>1, <1>2, <1>3, <2>2 DEF Passed, AllowedFor, Allowed
    <3> QED
      BY <2>1, <3>1
  <2>3. CASE q = p /\ v # "rate_limited"
    <3> DEFINE B == IF v = "allow" THEN {x0} ELSE {}
    <3>1. quota'[p] = Hit(quota[p], QuotaWindow) /\ quota[p] \in Key
      BY <1>1, <1>2, <2>3 DEF QuotaHit
    <3>2. /\ Passed(p)' = Passed(p) \cup {x0} /\ x0 \notin Passed(p)
          /\ Passed(p) \in SUBSET runs /\ IsFiniteSet(Passed(p))
      BY <1>1, <1>2, <1>3, <1>5, <2>3, FiniteParts DEF Passed
    <3>3. Exact(Passed(p)', quota'[p], QuotaWindow, now)
      BY <1>1, <1>3, <2>1, <2>3, <3>1, <3>2, HitExact
    <3>4. /\ AllowedFor(p)' = AllowedFor(p) \cup B /\ B \in SUBSET {x0}
          /\ AllowedFor(p) \in SUBSET Passed(p) /\ IsFiniteSet(AllowedFor(p))
      BY <1>1, <1>2, <1>3, FiniteParts DEF AllowedFor, Allowed, Passed
    <3>5. B # {} => Hit(quota[p], QuotaWindow).hits <= PollQuota
      <4>1. Hit(quota[p], QuotaWindow).hits \in Nat
        BY <1>1, HitIsKey DEF Key
      <4> QED
        BY <4>1 DEF Verdict, Over, QuotaHit
    <3> HIDE DEF B, v
    <3>0. PollQuota \in Nat \ {0} /\ QuotaWindow \in Nat \ {0}
      OBVIOUS
    <3>6. \A x \in Passed(p) : x.at \in Nat
      BY <1>1, <3>2
    <3>7. Bounded(AllowedFor(p) \cup B, Hit(quota[p], QuotaWindow), QuotaWindow, PollQuota)
      BY <1>1, <1>3, <2>1, <2>3, <3>0, <3>1, <3>2, <3>4, <3>5, <3>6, HitBounded
    <3> QED
      BY <2>3, <3>1, <3>3, <3>4, <3>7
  <2> QED
    BY <2>2, <2>3
<1> QED
  BY <1>6, <1>7, <1>8

LEMMA InitGuardIInv == Init => GuardIInv
<1> SUFFICES ASSUME Init PROVE GuardIInv
  OBVIOUS
<1>1. TypeOK /\ Attempts /\ Numbered
  BY FS_EmptySet DEF Init, TypeOK, Times, Key, NoKey, Call, Attempts, Numbered
<1>2. ASSUME NEW window \in Nat, NEW limit \in Nat, limit > 0
      PROVE  Exact({}, NoKey, window, now) /\ Bounded({}, NoKey, window, limit)
  <2>1. \A e : Since({}, e, window) = {} /\ After({}, e, window) = {} /\ Before({}, e, window) = {}
    BY DEF Since, After, Before
  <2>2. \A t : Within({}, window, t) = Cardinality({})
    <3>1. \A t : {x \in {} : x.at <= t /\ t < x.at + window} = {}
      OBVIOUS
    <3> QED
      BY <3>1 DEF Within
  <2>3. Cardinality({}) = 0 /\ NoKey.hits = 0 /\ NoKey.expires = 0 /\ now = 1
    BY FS_EmptySet DEF NoKey, Init
  <2> QED
    BY <1>2, <2>1, <2>2, <2>3 DEF Exact, Bounded
<1>3. runs = {} /\ rate = NoKey /\ Allowed = {}
  BY DEF Init, Allowed
<1>4. \A p \in Polls : Passed(p) = {} /\ AllowedFor(p) = {} /\ quota[p] = NoKey
  BY DEF Init, Passed, AllowedFor, Allowed
<1> QED
  BY <1>1, <1>2, <1>3, <1>4 DEF GuardIInv, RateKept, QuotaKept

LEMMA StepGuardIInv == GuardIInv /\ [Next]_vars => GuardIInv'
<1> SUFFICES ASSUME GuardIInv, [Next]_vars PROVE GuardIInv'
  OBVIOUS
<1>1. ASSUME NEW r \in Requests, Send(r) \/ Answer(r) \/ GiveUp(r) \/ RunLate(r)
      PROVE  GuardIInv'
  <2>1. TypeOK' /\ Attempts' /\ now' = now
    BY <1>1, GuardStep DEF GuardIInv
  <2>2. CASE Answer(r) \/ RunLate(r)
    BY <2>1, <2>2, ScriptKeeps DEF Answer, RunLate, GuardIInv
  <2>3. CASE Send(r) \/ GiveUp(r)
    BY <2>1, <2>3 DEF Send, GiveUp, GuardIInv, Numbered, Alike, RateKept, QuotaKept,
                      Allowed, AllowedFor, Passed
  <2> QED
    BY <1>1, <2>2, <2>3
<1>2. CASE Tick \/ UNCHANGED vars
  <2>1. UNCHANGED <<rate, quota, req, runs>> /\ now \in Nat /\ now' \in Nat /\ now <= now'
    BY <1>2 DEF Tick, vars, GuardIInv, TypeOK, Times
  <2>2. TypeOK' /\ Attempts' /\ Numbered'
    <3>1. TypeOK' /\ Attempts'
      BY <1>2 DEF Tick, vars, GuardIInv, TypeOK, Times, Attempts
    <3>2. \A x \in runs : x.at \in Nat
      BY DEF GuardIInv, TypeOK, Run, Times
    <3> QED
      BY <2>1, <3>1, <3>2 DEF GuardIInv, Numbered, Alike
  <2>3. ASSUME NEW H, NEW key \in Key, NEW window \in Nat, Exact(H, key, window, now)
        PROVE  Exact(H, key, window, now')
    <3>1. key.expires \in Nat
      BY DEF Key
    <3> QED
      BY <2>1, <2>3, <3>1 DEF Exact
  <2>4. rate \in Key /\ \A p \in Polls : quota[p] \in Key
    BY DEF GuardIInv, TypeOK
  <2>5. RateKept'
    BY <2>1, <2>3, <2>4 DEF GuardIInv, RateKept, Allowed
  <2>6. QuotaKept'
    BY <2>1, <2>3, <2>4 DEF GuardIInv, QuotaKept, AllowedFor, Allowed, Passed
  <2> QED
    BY <2>2, <2>5, <2>6 DEF GuardIInv
<1> QED
  BY <1>1, <1>2 DEF Next

-----------------------------------------------------------------------------
(* The requests of devices use Guard as AbuseGuard has it: a handler sends *)
(* a call, whose attempts are answered, given up or run late, or leaves    *)
(* the keys of the address alone (CastVote, VoteService.Cast).             *)
THEOREM GuardIsKept == VoteSpec => Spec
<1>1. VoteInit => Init
  BY DEF VoteInit
<1>2. [VoteNext]_<<vars, voteVars>> => [Next]_vars
  <2> SUFFICES ASSUME [VoteNext]_<<vars, voteVars>> PROVE [Next]_vars
    OBVIOUS
  <2>1. ASSUME NEW r \in Requests, Arrive(r) PROVE Send(r) \/ UNCHANGED vars
    BY <2>1 DEF Arrive
  <2>2. ASSUME NEW r \in Requests, Ask(r) PROVE Answer(r) \/ RunLate(r) \/ GiveUp(r)
    BY <2>2 DEF Ask
  <2>3. ASSUME NEW r \in Requests, RefusedElsewhere(r) \/ Cast(r) \/ Receive(r)
        PROVE  UNCHANGED vars
    BY <2>3 DEF RefusedElsewhere, Cast, Receive
  <2> QED
    BY <2>1, <2>2, <2>3 DEF VoteNext, Next
<1> QED
  BY <1>1, <1>2, PTL DEF VoteSpec, Spec

(* The keys of Guard count the runs of their windows, through retries and  *)
(* late attempts (guardScript).                                            *)
THEOREM GuardInvariance == VoteSpec => []GuardIInv
  BY GuardIsKept, InitGuardIInv, StepGuardIInv, PTL DEF Spec

(* Less than twice a limit is let through in any stretch of its window's   *)
(* length, for any number of requests, polls and retries (guardScript).    *)
THEOREM BurstsAreBounded == VoteSpec => []BurstIsBounded
<1>1. GuardIInv => BurstIsBounded
  BY DEF GuardIInv, RateKept, QuotaKept, Bounded, BurstIsBounded
<1> QED
  BY <1>1, GuardInvariance, PTL

(* A key that was hit just now counts runs of the last window only. *)
LEMMA HitsAreRecent ==
    ASSUME NEW t \in Nat, NEW H, IsFiniteSet(H), \A x \in H : x.at \in Nat /\ x.at <= t,
           NEW key \in Key, t < key.expires, NEW window \in Nat, Exact(H, key, window, t)
    PROVE  key.hits <= Within(H, window, t) /\ Within(H, window, t) \in Nat
<1> DEFINE recent == {x \in H : x.at <= t /\ t < x.at + window}
<1>1. Since(H, key.expires, window) \in SUBSET recent
  BY DEF Since, Key
<1>2. IsFiniteSet(recent)
  BY FiniteParts
<1>3. key.hits = Cardinality(Since(H, key.expires, window))
  BY DEF Exact
<1> HIDE DEF recent
<1>4. key.hits <= Cardinality(recent) /\ Cardinality(recent) \in Nat
  BY <1>1, <1>2, <1>3, FiniteParts, FS_CardinalityType
<1> QED
  BY <1>4 DEF Within, recent

(* A call is refused only when the runs of the last window, its own and    *)
(* late ones included, exceed the limit it is refused by (guardScript).    *)
THEOREM RefusalsAreEarned == VoteSpec => RefusalIsEarned
<1> DEFINE Earned ==
      \A r \in Requests :
          /\ req[r].pc = "waiting" /\ req'[r].pc = "rate_limited" =>
                Within(runs', RateWindow, now) > RateLimit
          /\ req[r].pc = "waiting" /\ req'[r].pc = "quota_exceeded" =>
                Within(Passed(PollOf[r])', QuotaWindow, now) > PollQuota
<1>1. ASSUME GuardIInv, GuardIInv', Next, NEW r \in Requests, req[r].pc = "waiting",
             req'[r].pc \in {"rate_limited", "quota_exceeded"}
      PROVE  /\ req'[r].pc = "rate_limited" => Within(runs', RateWindow, now) > RateLimit
             /\ req'[r].pc = "quota_exceeded" =>
                   Within(Passed(PollOf[r])', QuotaWindow, now) > PollQuota
  <2> DEFINE p == PollOf[r]
             v == Verdict(p)
  <2>1. /\ req \in [Requests -> Call] /\ now \in Nat /\ rate \in Key /\ quota \in [Polls -> Key]
        /\ p \in Polls
    BY <1>1 DEF GuardIInv, TypeOK, Times
  <2>2. Answer(r)
    <3>1. req' # req /\ req'[r].pc # req[r].pc
      BY <1>1
    <3>2. ~Tick
      BY <3>1 DEF Tick
    <3>3. \A q \in Requests : ~Send(q) /\ ~GiveUp(q) /\ ~RunLate(q)
      BY <1>1, <2>1, <3>1 DEF Send, GiveUp, RunLate, Call
    <3>4. PICK q \in Requests : Answer(q)
      BY <1>1, <3>2, <3>3 DEF Next
    <3>5. q = r
      BY <2>1, <3>1, <3>4 DEF Answer
    <3> QED
      BY <3>4, <3>5
  <2>3. RunScript(p) /\ now' = now /\ req'[r].pc = v
    BY <2>1, <2>2 DEF Answer, Call
  <2>4. /\ runs' \subseteq Run /\ IsFiniteSet(runs') /\ rate' \in Key /\ quota'[p] \in Key
        /\ \A x \in runs' : x.at \in Nat /\ x.at <= now
    BY <1>1, <2>1, <2>3 DEF GuardIInv, TypeOK, Numbered, Run, Times
  <2>5. \A key, window : window \in Nat \ {0} => now < Hit(key, window).expires
    BY <2>1 DEF Hit
  <2>6. ASSUME v = "rate_limited" PROVE Within(runs', RateWindow, now) > RateLimit
    <3>1. RateLimit > 0 /\ rate' = Hit(rate, RateWindow) /\ rate'.hits > RateLimit
      BY <2>3, <2>6 DEF Verdict, Over, RunScript, RateHit
    <3>2. Exact(runs', rate', RateWindow, now) /\ now < rate'.expires
      BY <1>1, <2>3, <2>5, <3>1 DEF GuardIInv, RateKept
    <3>3. rate'.hits <= Within(runs', RateWindow, now) /\ Within(runs', RateWindow, now) \in Nat
      BY <2>1, <2>4, <3>2, HitsAreRecent
    <3> QED
      BY <2>4, <3>1, <3>3 DEF Key
  <2>7. ASSUME v = "quota_exceeded" PROVE Within(Passed(p)', QuotaWindow, now) > PollQuota
    <3>1. PollQuota > 0 /\ quota'[p] = Hit(quota[p], QuotaWindow) /\ quota'[p].hits > PollQuota
      BY <2>1, <2>3, <2>7 DEF Verdict, Over, RunScript, QuotaHit
    <3>2. Exact(Passed(p)', quota'[p], QuotaWindow, now) /\ now < quota'[p].expires
      BY <1>1, <2>1, <2>3, <2>5, <3>1 DEF GuardIInv, QuotaKept
    <3>3. Passed(p)' \in SUBSET (runs') /\ IsFiniteSet(Passed(p)')
      BY <2>4, FiniteParts DEF Passed
    <3>4. /\ quota'[p].hits <= Within(Passed(p)', QuotaWindow, now)
          /\ Within(Passed(p)', QuotaWindow, now) \in Nat
      BY <2>1, <2>4, <3>2, <3>3, HitsAreRecent
    <3> QED
      BY <2>4, <3>1, <3>4 DEF Key
  <2> QED
    BY <2>3, <2>6, <2>7
<1>2. GuardIInv /\ GuardIInv' /\ [Next]_vars => [Earned]_vars
  BY <1>1
<1> QED
  BY <1>2, GuardInvariance, GuardIsKept, PTL DEF Spec, RefusalIsEarned

-----------------------------------------------------------------------------
LEMMA Constants ==
    /\ IsFiniteSet(Requests) /\ None \notin Requests
    /\ \A r \in Requests : DeviceOf[r] \in Devices /\ PollOf[r] \in Polls
    /\ CookieTTL \in Nat \ {0} /\ DedupTTL \in Nat \ {0} /\ MaxLosses \in Nat
    /\ Client \in Nat
  BY RequestAssumption

LEMMA InitIInv == VoteInit => IInv
<1> SUFFICES ASSUME VoteInit PROVE IInv
  OBVIOUS
<1> USE DEF VoteInit
<1>1. TypeOK
  BY FS_EmptySet DEF Init, TypeOK, Times, Key, NoKey, Call
<1>2. VoteTypeOK
  BY <1>1, Constants DEF VoteTypeOK, Cookie, Vote, Times
<1>3. Attempts
  BY DEF Init, Attempts
<1>4. Tokens /\ AddressIsTheClients
  BY DEF Tokens, AddressIsTheClients
<1>5. Counted
  <2>1. CountedWith([r \in Requests |-> r])
    BY DEF CountedWith
  <2>2. [r \in Requests |-> r] \in [Requests -> Requests]
    OBVIOUS
  <2> QED
    BY <2>1, <2>2 DEF Counted
<1> QED
  BY <1>2, <1>3, <1>4, <1>5 DEF IInv

(* The handlers of requests go on, and no token is issued. *)
LEMMA TokensKept ==
    ASSUME Tokens, jar' = jar,
           \A q \in Requests :
              /\ vote'[q].bare = vote[q].bare /\ vote'[q].token = vote[q].token
              /\ vote'[q].pc = vote[q].pc \/ (vote[q].pc = "asking" /\ vote'[q].pc = "answered")
    PROVE  Tokens'
<1>1. \A token, d : Issued(token, d, vote) => Issued(token, d, vote')
  BY DEF Issued
<1>2. ASSUME NEW q \in Requests
      PROVE  /\ vote'[q].pc = "new" => ~vote'[q].bare
             /\ vote'[q].pc \in {"asking", "answered"} =>
                   Issued(vote'[q].token, DeviceOf[q], vote')
  BY <1>1 DEF Tokens
<1> QED
  BY <1>1, <1>2 DEF Tokens

(* ... and no ballot is counted. *)
LEMMA CountedKept ==
    ASSUME Counted, now \in Nat, now' \in Nat, now <= now',
           countedAt' = countedAt, countedAt \in [Requests -> Nat], dedup' = dedup,
           \A q \in Requests :
              /\ vote[q].bare => vote'[q].bare
              /\ vote[q].pc \in {"answered", "over"} => vote'[q].pc \in {"answered", "over"}
    PROVE  Counted'
<1>1. PICK tok \in [Requests -> Requests] : CountedWith(tok)
  BY DEF Counted
<1>2. \A r \in Requests : countedAt[r] <= now => countedAt[r] <= now'
  OBVIOUS
<1>3. \A token, d : Issued(token, d, vote) => Issued(token, d, vote')
  BY DEF Issued
<1>4. CountedWith(tok)'
  BY <1>1, <1>2, <1>3 DEF CountedWith
<1> QED
  BY <1>4 DEF Counted

-----------------------------------------------------------------------------
LEMMA ArriveIInv == ASSUME IInv, NEW r \in Requests, Arrive(r) PROVE IInv'
<1> USE Constants
<1>1. PICK seen \in Resolved, pc \in {"asking", "answered"} :
          /\ vote' = [vote EXCEPT ![r] =
                         [pc |-> pc, address |-> seen.address, standins |-> seen.standins,
                          token |-> TokenFor(r), bare |-> Brought(r) = None]]
          /\ IF pc = "asking" /\ seen.address = Client THEN Send(r) ELSE UNCHANGED vars
  BY DEF Arrive
<1> DEFINE v == [pc |-> pc, address |-> seen.address, standins |-> seen.standins,
                 token |-> TokenFor(r), bare |-> Brought(r) = None]
<1>2. vote[r].pc = "new" /\ ~vote[r].bare /\ UNCHANGED <<jar, dedup, countedAt, losses>>
  BY DEF Arrive, IInv, Tokens
<1>3. /\ seen.address \in Nat /\ seen.standins \subseteq Nat
      /\ IF seen.standins = {} THEN seen.address = Client ELSE seen.address \in seen.standins
  <2>1. PICK route \in Routes :
           seen = [address |-> ResolveClientIP(route), standins |-> Standins(route)]
    BY DEF Resolved
  <2> QED
    BY <2>1, ResolvedOnTheWay
<1>4. /\ Brought(r) # None => Issued(Brought(r), DeviceOf[r], vote)
      /\ TokenFor(r) = IF Brought(r) = None THEN r ELSE Brought(r)
  BY DEF Brought, IInv, Tokens, TokenFor
<1>5. v \in Vote
  BY <1>3, <1>4 DEF Vote, Issued
<1>6. /\ vote' \in [Requests -> Vote]
      /\ \A q \in Requests : vote'[q] = IF q = r THEN v ELSE vote[q]
  BY <1>1, <1>5 DEF IInv, VoteTypeOK
<1>7. TypeOK' /\ Attempts' /\ now' = now
  <2>1. CASE Send(r)
    BY <2>1, GuardStep DEF IInv, VoteTypeOK
  <2>2. CASE UNCHANGED vars
    BY <2>2 DEF vars, IInv, VoteTypeOK, TypeOK, Attempts
  <2> QED
    BY <1>1, <2>1, <2>2
<1> HIDE DEF v
<1>8. VoteTypeOK'
  BY <1>2, <1>6, <1>7 DEF IInv, VoteTypeOK
<1>9. \A token, d : Issued(token, d, vote) => Issued(token, d, vote')
  BY <1>2, <1>6 DEF Issued
<1>10. Tokens'
  <2>1. v.pc \in {"asking", "answered"} /\ Issued(v.token, DeviceOf[r], vote')
    <3>1. v.pc = pc /\ v.token = TokenFor(r) /\ v.bare = (Brought(r) = None)
      BY DEF v
    <3>2. CASE Brought(r) = None
      <4>1. v.token = r /\ vote'[r] = v
        BY <1>4, <1>6, <3>1, <3>2
      <4>2. vote'[r].bare
        BY <3>1, <3>2, <4>1, Zenon
      <4> QED
        BY <3>1, <4>1, <4>2 DEF Issued
    <3>3. CASE Brought(r) # None
      BY <1>4, <1>9, <3>1, <3>3
    <3> QED
      BY <3>2, <3>3
  <2> QED
    BY <1>2, <1>6, <1>9, <2>1 DEF IInv, Tokens
<1>11. Counted'
  <2>1. now \in Nat /\ countedAt \in [Requests -> Nat]
    BY DEF IInv, VoteTypeOK, TypeOK, Times
  <2>2. \A q \in Requests :
           /\ vote[q].bare => vote'[q].bare
           /\ vote[q].pc \in {"answered", "over"} => vote'[q].pc \in {"answered", "over"}
    BY <1>2, <1>6
  <2>3. Counted
    BY DEF IInv
  <2> QED
    BY <1>2, <1>7, <2>1, <2>2, <2>3, CountedKept
<1>12. AddressIsTheClients'
  BY <1>3, <1>6 DEF IInv, AddressIsTheClients, v
<1> QED
  BY <1>7, <1>8, <1>10, <1>11, <1>12 DEF IInv

(* A handler that asks has its answer. *)
LEMMA AnsweredFields ==
    ASSUME IInv, NEW r \in Requests,
           vote' = vote \/ (vote[r].pc = "asking" /\ vote' = [vote EXCEPT ![r].pc = "answered"])
    PROVE  /\ vote' \in [Requests -> Vote]
           /\ \A q \in Requests :
                 /\ vote'[q].bare = vote[q].bare /\ vote'[q].token = vote[q].token
                 /\ vote'[q].address = vote[q].address /\ vote'[q].standins = vote[q].standins
                 /\ vote'[q].standins = vote[q].standins
                 /\ \/ vote'[q].pc = vote[q].pc
                    \/ vote[q].pc = "asking" /\ vote'[q].pc = "answered"
<1>1. vote \in [Requests -> Vote]
  BY DEF IInv, VoteTypeOK
<1>2. CASE vote' = vote
  BY <1>1, <1>2
<1>3. CASE vote[r].pc = "asking" /\ vote' = [vote EXCEPT ![r].pc = "answered"]
  <2> DEFINE v == [vote[r] EXCEPT !.pc = "answered"]
  <2>1. /\ v \in Vote /\ v.pc = "answered" /\ v.bare = vote[r].bare
        /\ v.token = vote[r].token /\ v.address = vote[r].address
        /\ v.standins = vote[r].standins
    BY <1>1 DEF Vote
  <2>2. vote' = [vote EXCEPT ![r] = v]
    BY <1>3
  <2> HIDE DEF v
  <2> QED
    BY <1>1, <1>3, <2>1, <2>2
<1> QED
  BY <1>2, <1>3

LEMMA AskIInv == ASSUME IInv, NEW r \in Requests, Ask(r) PROVE IInv'
<1> USE Constants
<1>1. /\ Answer(r) \/ RunLate(r) \/ GiveUp(r)
      /\ losses' \in 0 .. MaxLosses
      /\ UNCHANGED <<jar, dedup, countedAt>>
      /\ vote' = vote \/ (vote[r].pc = "asking" /\ vote' = [vote EXCEPT ![r].pc = "answered"])
  BY DEF Ask, IInv, VoteTypeOK
<1>2. TypeOK' /\ Attempts' /\ now' = now
  BY <1>1, GuardStep DEF IInv, VoteTypeOK
<1>3. vote' \in [Requests -> Vote]
  BY <1>1, AnsweredFields
<1>4. VoteTypeOK'
  BY <1>1, <1>2, <1>3 DEF IInv, VoteTypeOK
<1>5. \A q \in Requests :
         /\ vote'[q].bare = vote[q].bare /\ vote'[q].token = vote[q].token
         /\ vote'[q].address = vote[q].address /\ vote'[q].standins = vote[q].standins
         /\ \/ vote'[q].pc = vote[q].pc
            \/ vote[q].pc = "asking" /\ vote'[q].pc = "answered"
  BY <1>1, AnsweredFields
<1>6. Tokens'
  BY <1>1, <1>5, TokensKept DEF IInv
<1>7. Counted'
  <2>1. now \in Nat /\ countedAt \in [Requests -> Nat]
    BY DEF IInv, VoteTypeOK, TypeOK, Times
  <2> QED
    BY <1>1, <1>2, <1>5, <2>1, CountedKept DEF IInv
<1>8. AddressIsTheClients'
  BY <1>5 DEF IInv, AddressIsTheClients
<1> QED
  BY <1>2, <1>4, <1>6, <1>7, <1>8 DEF IInv

LEMMA RefusedElsewhereIInv ==
    ASSUME IInv, NEW r \in Requests, RefusedElsewhere(r) PROVE IInv'
<1>1. /\ vote[r].pc = "asking" /\ vote' = [vote EXCEPT ![r].pc = "answered"]
      /\ UNCHANGED <<vars, jar, dedup, countedAt, losses>>
  BY DEF RefusedElsewhere
<1>2. /\ vote' \in [Requests -> Vote]
      /\ \A q \in Requests :
            /\ vote'[q].bare = vote[q].bare /\ vote'[q].token = vote[q].token
            /\ vote'[q].address = vote[q].address /\ vote'[q].standins = vote[q].standins
            /\ \/ vote'[q].pc = vote[q].pc
               \/ vote[q].pc = "asking" /\ vote'[q].pc = "answered"
  BY <1>1, AnsweredFields
<1>3. /\ now' = now /\ now \in Nat /\ TypeOK' /\ Attempts'
      /\ countedAt \in [Requests -> Nat]
  BY <1>1 DEF vars, IInv, VoteTypeOK, TypeOK, Attempts, Times
<1>4. VoteTypeOK'
  BY <1>1, <1>2, <1>3 DEF IInv, VoteTypeOK
<1>5. Tokens'
  BY <1>1, <1>2, TokensKept DEF IInv
<1>6. Counted'
  BY <1>1, <1>2, <1>3, CountedKept DEF IInv
<1>7. AddressIsTheClients'
  BY <1>2 DEF IInv, AddressIsTheClients
<1> QED
  BY <1>3, <1>4, <1>5, <1>6, <1>7 DEF IInv

(* The one step that counts: the dedup key of the token is over, so every  *)
(* ballot that was counted with it before is a dedup window old.           *)
LEMMA CountBallot ==
    ASSUME IInv, NEW r \in Requests, vote[r].pc = "asking", vote'[r].pc = "answered",
           now >= dedup[PollOf[r]][vote[r].token], now' = now,
           dedup' = [dedup EXCEPT ![PollOf[r]][vote[r].token] = now + DedupTTL],
           countedAt' = [countedAt EXCEPT ![r] = now],
           \A q \in Requests : /\ vote'[q].bare = vote[q].bare
                               /\ q # r => vote'[q].pc = vote[q].pc
    PROVE  Counted'
<1> USE Constants
<1>1. PICK tok \in [Requests -> Requests] : CountedWith(tok)
  BY DEF IInv, Counted
<1>2. PICK token \in Requests : token = vote[r].token /\ Issued(token, DeviceOf[r], vote)
  BY DEF IInv, Tokens, Issued
<1> DEFINE p == PollOf[r]
           new == [tok EXCEPT ![r] = token]
<1>3. now \in Nat \ {0} /\ dedup \in [Polls -> [Requests -> Nat]]
  <2>1. now \in Times /\ dedup \in [Polls -> [Requests -> Nat]]
    BY DEF IInv, VoteTypeOK, TypeOK
  <2> QED
    BY <2>1 DEF Times
<1>4. \A q \in Requests : countedAt[q] \in Nat
  BY DEF IInv, VoteTypeOK
<1>5. \A t, d : Issued(t, d, vote) => Issued(t, d, vote')
  BY DEF Issued
<1>6. /\ new \in [Requests -> Requests] /\ new[r] = token
      /\ \A q \in Requests \ {r} : new[q] = tok[q]
  BY <1>2
<1>7. /\ countedAt'[r] = now /\ \A q \in Requests \ {r} : countedAt'[q] = countedAt[q]
  BY DEF IInv, VoteTypeOK
<1>8. \A a \in Polls, t \in Requests :
         dedup'[a][t] = IF a = p /\ t = token THEN now + DedupTTL ELSE dedup[a][t]
  BY <1>2, <1>3
<1> HIDE DEF new
<1>9. ASSUME NEW q \in Requests \ {r}, countedAt[q] > 0
      PROVE  /\ countedAt[q] <= now /\ vote'[q].pc \in {"answered", "over"}
             /\ Issued(tok[q], DeviceOf[q], vote')
             /\ countedAt[q] + DedupTTL <= dedup[PollOf[q]][tok[q]]
             /\ countedAt[q] + DedupTTL <= dedup'[PollOf[q]][tok[q]]
             /\ PollOf[q] = p /\ tok[q] = token => countedAt[q] + DedupTTL <= now
  <2>1. /\ countedAt[q] <= now /\ vote[q].pc \in {"answered", "over"}
        /\ Issued(tok[q], DeviceOf[q], vote)
        /\ countedAt[q] + DedupTTL <= dedup[PollOf[q]][tok[q]]
    BY <1>1, <1>9 DEF CountedWith
  <2>2. dedup[PollOf[q]][tok[q]] \in Nat /\ tok[q] \in Requests
    BY <1>3, <2>1 DEF Issued
  <2>3. PollOf[q] = p /\ tok[q] = token => dedup[PollOf[q]][tok[q]] <= now
    BY <1>2
  <2>4. dedup'[PollOf[q]][tok[q]] = IF PollOf[q] = p /\ tok[q] = token
                                    THEN now + DedupTTL ELSE dedup[PollOf[q]][tok[q]]
    BY <1>8, <2>2
  <2> QED
    BY <1>5, <1>3, <1>4, <2>1, <2>2, <2>3, <2>4, Constants
<1>10. CountedWith(new)'
  <2>1. ASSUME NEW q \in Requests, countedAt'[q] > 0
        PROVE  /\ countedAt'[q] <= now' /\ vote'[q].pc \in {"answered", "over"}
               /\ Issued(new[q], DeviceOf[q], vote')
               /\ countedAt'[q] + DedupTTL <= dedup'[PollOf[q]][new[q]]
    <3>1. CASE q = r
      BY <1>2, <1>5, <1>6, <1>7, <1>8, <1>3, <3>1
    <3>2. CASE q # r
      BY <1>6, <1>7, <1>9, <2>1, <3>2
    <3> QED
      BY <3>1, <3>2
  <2>2. ASSUME NEW q \in Requests, NEW o \in Requests \ {q}, countedAt'[q] > 0,
               countedAt'[o] > 0, PollOf[o] = PollOf[q], new[o] = new[q]
        PROVE  \/ countedAt'[o] + DedupTTL <= countedAt'[q]
               \/ countedAt'[q] + DedupTTL <= countedAt'[o]
    <3>1. CASE q = r
      BY <1>6, <1>7, <1>9, <2>2, <3>1
    <3>2. CASE o = r
      BY <1>6, <1>7, <1>9, <2>2, <3>2
    <3>3. CASE q # r /\ o # r
      BY <1>1, <1>6, <1>7, <2>2, <3>3 DEF CountedWith
    <3> QED
      BY <3>1, <3>2, <3>3
  <2> QED
    BY <2>1, <2>2 DEF CountedWith
<1> QED
  BY <1>6, <1>10 DEF Counted

LEMMA CastIInv == ASSUME IInv, NEW r \in Requests, Cast(r) PROVE IInv'
<1> USE Constants
<1>1. /\ vote[r].pc = "asking" /\ vote' = [vote EXCEPT ![r].pc = "answered"]
      /\ UNCHANGED <<vars, jar, losses>>
  BY DEF Cast
<1>2. /\ vote' \in [Requests -> Vote]
      /\ \A q \in Requests :
            /\ vote'[q].bare = vote[q].bare /\ vote'[q].token = vote[q].token
            /\ vote'[q].address = vote[q].address /\ vote'[q].standins = vote[q].standins
            /\ \/ vote'[q].pc = vote[q].pc
               \/ vote[q].pc = "asking" /\ vote'[q].pc = "answered"
  BY <1>1, AnsweredFields
<1>3. /\ now' = now /\ now \in Nat /\ now \in 0 .. MaxTime /\ TypeOK' /\ Attempts'
      /\ countedAt \in [Requests -> 0 .. MaxTime]
  BY <1>1 DEF vars, IInv, VoteTypeOK, TypeOK, Attempts, Times
<1>4. countedAt' \in [Requests -> 0 .. MaxTime] /\ dedup' \in [Polls -> [Requests -> Nat]]
  <2>1. now + DedupTTL \in Nat /\ dedup \in [Polls -> [Requests -> Nat]]
    BY <1>3 DEF IInv, VoteTypeOK
  <2>2. CASE UNCHANGED <<dedup, countedAt>>
    BY <1>3, <2>1, <2>2
  <2>3. CASE /\ dedup' = [dedup EXCEPT ![PollOf[r]][vote[r].token] = now + DedupTTL]
             /\ countedAt' = [countedAt EXCEPT ![r] = now]
    BY <1>3, <2>1, <2>3
  <2> QED
    BY <2>2, <2>3 DEF Cast
<1>5. VoteTypeOK'
  BY <1>1, <1>2, <1>3, <1>4 DEF IInv, VoteTypeOK
<1>6. Tokens'
  BY <1>1, <1>2, TokensKept DEF IInv
<1>7. Counted'
  <2>1. CASE UNCHANGED <<dedup, countedAt>>
    <3>1. countedAt \in [Requests -> Nat]
      BY <1>3
    <3> QED
      BY <1>2, <1>3, <2>1, <3>1, CountedKept DEF IInv
  <2>2. CASE /\ now >= dedup[PollOf[r]][vote[r].token]
             /\ dedup' = [dedup EXCEPT ![PollOf[r]][vote[r].token] = now + DedupTTL]
             /\ countedAt' = [countedAt EXCEPT ![r] = now]
    <3>1. vote'[r].pc = "answered" /\ \A q \in Requests \ {r} : vote'[q].pc = vote[q].pc
      BY <1>1 DEF IInv, VoteTypeOK, Vote
    <3> QED
      BY <1>1, <1>2, <1>3, <2>2, <3>1, CountBallot
  <2> QED
    BY <2>1, <2>2 DEF Cast
<1>8. AddressIsTheClients'
  BY <1>2 DEF IInv, AddressIsTheClients
<1> QED
  BY <1>3, <1>5, <1>6, <1>7, <1>8 DEF IInv

LEMMA ReceiveIInv == ASSUME IInv, NEW r \in Requests, Receive(r) PROVE IInv'
<1> USE Constants
<1> DEFINE v == [vote[r] EXCEPT !.pc = "over", !.token = None,
                                !.address = Client, !.standins = {}]
<1>1. /\ vote[r].pc = "answered" /\ vote' = [vote EXCEPT ![r] = v]
      /\ UNCHANGED <<vars, dedup, countedAt>>
  BY DEF Receive, IInv, VoteTypeOK, Vote
<1>2. /\ v \in Vote /\ v.pc = "over" /\ v.bare = vote[r].bare
      /\ v.address = Client /\ v.standins = {}
  BY RequestAssumption DEF IInv, VoteTypeOK, Vote
<1>3. /\ vote' \in [Requests -> Vote]
      /\ \A q \in Requests : vote'[q] = IF q = r THEN v ELSE vote[q]
  BY <1>1, <1>2 DEF IInv, VoteTypeOK
<1> HIDE DEF v
<1>4. now' = now /\ now \in Nat \ {0} /\ TypeOK' /\ Attempts'
  BY <1>1 DEF vars, IInv, VoteTypeOK, TypeOK, Attempts, Times
<1>5. \A token, d : Issued(token, d, vote) => Issued(token, d, vote')
  BY <1>2, <1>3 DEF Issued
<1>6. /\ jar' \in [Devices -> Cookie] /\ losses' \in 0 .. MaxLosses
      /\ \A d \in Devices : /\ jar'[d].token # None => Issued(jar'[d].token, d, vote')
                            /\ jar'[d].token = None => jar'[d].expires = 0
  <2>1. CASE UNCHANGED jar
    <3>1. losses' \in 0 .. MaxLosses
      BY DEF Receive, IInv, VoteTypeOK
    <3>2. \A d \in Devices : /\ jar[d].token # None => Issued(jar[d].token, d, vote)
                             /\ jar[d].token = None => jar[d].expires = 0
      BY DEF IInv, Tokens
    <3>3. jar' \in [Devices -> Cookie]
      BY <2>1 DEF IInv, VoteTypeOK
    <3> QED
      BY <1>5, <2>1, <3>1, <3>2, <3>3
  <2>2. CASE /\ vote[r].token = r /\ UNCHANGED losses
             /\ jar' = [jar EXCEPT ![DeviceOf[r]] = [token |-> r, expires |-> now + CookieTTL]]
    <3> DEFINE c == [token |-> r, expires |-> now + CookieTTL]
    <3>1. c \in Cookie /\ c.token = r
      BY <1>4 DEF Cookie
    <3> HIDE DEF c
    <3>2. /\ jar' \in [Devices -> Cookie]
          /\ \A d \in Devices : jar'[d] = IF d = DeviceOf[r] THEN c ELSE jar[d]
      BY <2>2, <3>1 DEF c, IInv, VoteTypeOK
    <3>3. Issued(r, DeviceOf[r], vote')
      BY <1>1, <1>5, <2>2 DEF IInv, Tokens
    <3>4. r # None /\ losses' \in 0 .. MaxLosses
      BY <2>2 DEF IInv, VoteTypeOK
    <3> QED
      BY <1>5, <3>1, <3>2, <3>3, <3>4 DEF IInv, Tokens
  <2> QED
    BY <2>1, <2>2 DEF Receive
<1>7. VoteTypeOK'
  BY <1>1, <1>3, <1>4, <1>6 DEF IInv, VoteTypeOK
<1>8. Tokens'
  BY <1>2, <1>3, <1>5, <1>6 DEF IInv, Tokens
<1>9. Counted'
  <2>1. countedAt \in [Requests -> Nat]
    BY DEF IInv, VoteTypeOK
  <2> QED
    BY <1>1, <1>2, <1>3, <1>4, <2>1, CountedKept DEF IInv
<1>10. AddressIsTheClients'
  BY <1>1, <1>2, <1>3 DEF IInv, AddressIsTheClients
<1> QED
  BY <1>4, <1>7, <1>8, <1>9, <1>10 DEF IInv

LEMMA StepIInv == IInv /\ [VoteNext]_<<vars, voteVars>> => IInv'
<1> SUFFICES ASSUME IInv, [VoteNext]_<<vars, voteVars>> PROVE IInv'
  OBVIOUS
<1>1. CASE UNCHANGED voteVars /\ (Tick \/ UNCHANGED vars)
  <2>1. UNCHANGED <<jar, vote, dedup, countedAt, losses>>
    BY <1>1 DEF voteVars
  <2>2. TypeOK' /\ Attempts' /\ now \in Nat /\ now' \in Nat /\ now <= now'
    BY <1>1 DEF Tick, vars, IInv, VoteTypeOK, TypeOK, Attempts, Times
  <2>3. VoteTypeOK' /\ AddressIsTheClients' /\ Tokens'
    BY <2>1, <2>2 DEF IInv, VoteTypeOK, AddressIsTheClients, Tokens
  <2>4. Counted'
    <3>1. countedAt \in [Requests -> Nat]
      BY DEF IInv, VoteTypeOK
    <3> QED
      BY <2>1, <2>2, <3>1, CountedKept DEF IInv
  <2> QED
    BY <2>2, <2>3, <2>4 DEF IInv
<1>2. ASSUME NEW r \in Requests,
             Arrive(r) \/ Ask(r) \/ RefusedElsewhere(r) \/ Cast(r) \/ Receive(r)
      PROVE  IInv'
  BY <1>2, ArriveIInv, AskIInv, RefusedElsewhereIInv, CastIInv, ReceiveIInv
<1> QED
  BY <1>1, <1>2 DEF VoteNext

-----------------------------------------------------------------------------
(* Addresses, tokens and the attempts of Guard stay what they are through  *)
(* all retries and lost responses (RealIP, VoterCookie, Guard, CastVote).  *)
THEOREM Invariance == VoteSpec => []IInv
  BY InitIInv, StepIInv, PTL DEF VoteSpec

(* Keys, cookies and requests stay within their types; late attempts of    *)
(* Guard never outnumber those sent.                                       *)
THEOREM TypeCorrect == VoteSpec => []VoteTypeOK
<1>1. IInv => VoteTypeOK
  BY DEF IInv
<1> QED
  BY <1>1, Invariance, PTL

(* A request is rated by its client's address, whatever its headers name   *)
(* and however many proxies it came through, or by that of a proxy that    *)
(* another wrote down in a form no prefix of TRUSTED_PROXY_CIDRS contains, *)
(* or that is the last behind one that is not accepted; never by one the   *)
(* client made up (resolveClientIP).                                       *)
THEOREM RatedByOwnAddress == VoteSpec => []AddressIsTheClients
<1>1. IInv => AddressIsTheClients
  BY DEF IInv
<1> QED
  BY <1>1, Invariance, PTL

(* A device that makes up no tokens votes for a poll within the dedup      *)
(* window at most once for each request it sent without one (VoterCookie,  *)
(* VoterHash, CastBallot).                                                 *)
THEOREM OneVotePerBareRequest == VoteSpec => []VotesWithinBareRequests
<1>1. IInv => VotesWithinBareRequests
  <2> SUFFICES ASSUME IInv, NEW d \in Devices, NEW p \in Polls, NEW t \in Times
               PROVE  LET sent == {r \in Requests : DeviceOf[r] = d} IN
                      Cardinality({r \in sent : /\ PollOf[r] = p
                                                /\ countedAt[r] \in (t - DedupTTL + 1) .. t
                                                /\ countedAt[r] > 0})
                          <= Cardinality({r \in sent : vote[r].bare})
    BY DEF VotesWithinBareRequests
  <2> USE Constants
  <2> DEFINE sent == {r \in Requests : DeviceOf[r] = d}
             votes == {r \in sent : /\ PollOf[r] = p
                                    /\ countedAt[r] \in (t - DedupTTL + 1) .. t
                                    /\ countedAt[r] > 0}
             bare == {r \in sent : vote[r].bare}
  <2>1. PICK tok \in [Requests -> Requests] : CountedWith(tok)
    BY DEF IInv, Counted
  <2> DEFINE f == [r \in votes |-> tok[r]]
  <2>2. f \in [votes -> bare]
    BY <2>1 DEF CountedWith, Issued
  <2>3. ASSUME NEW r \in votes, NEW q \in votes, f[r] = f[q] PROVE r = q
    <3>1. t \in Nat /\ countedAt[r] \in Nat /\ countedAt[q] \in Nat
      BY DEF IInv, VoteTypeOK, Times
    <3>2. /\ t - DedupTTL + 1 <= countedAt[r] /\ countedAt[r] <= t
          /\ t - DedupTTL + 1 <= countedAt[q] /\ countedAt[q] <= t
      BY <3>1
    <3>3. r # q => \/ countedAt[q] + DedupTTL <= countedAt[r]
                   \/ countedAt[r] + DedupTTL <= countedAt[q]
      BY <2>1, <2>3 DEF CountedWith
    <3> QED
      BY <3>1, <3>2, <3>3
  <2>4. IsFiniteSet(bare)
    BY FS_Subset
  <2> HIDE DEF f, votes, bare
  <2>5. f \in Injection(votes, bare)
    BY <2>2, <2>3 DEF Injection, IsInjective
  <2>6. Cardinality(votes) <= Cardinality(bare)
    BY <2>4, <2>5, FS_Injection
  <2> QED
    BY <2>6 DEF votes, bare
<1> QED
  BY <1>1, Invariance, PTL
=============================================================================
