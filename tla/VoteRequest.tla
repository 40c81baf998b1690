----------------------------- MODULE VoteRequest -----------------------------
(***************************************************************************)
(* POST /polls/{poll_id}/votes, from the device to the two Redis scripts:  *)
(* RealIP finds the client's address behind the proxies, VoterCookie its   *)
(* token, which it issues when the request brings none (middleware/        *)
(* identity.go); CastVote and VoteService.Cast ask Guard by the address    *)
(* and CastBallot by the token (controller/handlers.go, service/vote.go);  *)
(* the response takes an issued token back, whatever has become of the     *)
(* ballot, and may be lost.                                                *)
(*                                                                         *)
(* AbuseGuard has Guard and its retries for the one address of all         *)
(* devices; a request that is taken for another's asks keys that are not   *)
(* modelled, and may be let through or refused.  CastBallot has the        *)
(* retries of the script that is one step here.                            *)
(***************************************************************************)
EXTENDS AbuseGuard, FiniteSetsExt, SequencesExt

CONSTANTS
    Devices,
    DeviceOf,   \* [Requests -> Devices]
    Routes,     \* how a request gets here: the hops it names itself, and its path,
                \* the client and the proxies as the next machine writes them
    Client,     \* the address of the devices
    Trusted,    \* the written forms that a prefix of TRUSTED_PROXY_CIDRS contains
    Garbage,    \* a hop netip.ParseAddr does not accept
    Unknown,    \* the address of a peer without one
    None,       \* no token
    CookieTTL,  \* VOTER_COOKIE_TTL
    DedupTTL,   \* VOTE_DEDUP_TTL
    MaxLosses   \* bound: attempts of Guard given up, and responses lost

(* An IPv4 address and the same one mapped to IPv6, ::ffff:a.b.c.d, are    *)
(* written differently, and a prefix that contains one of the two forms    *)
(* does not contain the other.                                             *)
Written == [ip : Nat, mapped : BOOLEAN]
Plain(ip) == [ip |-> ip, mapped |-> FALSE]

(* The proxies are trusted, in the plain form at least, and the devices    *)
(* are not; a hop may be written in a form that is not accepted, with a    *)
(* port for instance, but the peer of a TCP connection has an address.     *)
ASSUME RequestAssumption ==
    /\ IsFiniteSet(Requests)
    /\ DeviceOf \in [Requests -> Devices]
    /\ Garbage \notin Written /\ Trusted \subseteq Written
    /\ Client \in Nat /\ \A form \in Trusted : form.ip # Client
    /\ \A route \in Routes :
          /\ route.forged \in Seq(Written \cup {Garbage})
          /\ route.path \in Seq(Written \cup {Garbage})
          /\ route.path # <<>> /\ Last(route.path) # Garbage
          /\ route.path[1] # Garbage => route.path[1].ip = Client
          /\ \A i \in 2 .. Len(route.path) :
                route.path[i] # Garbage => Plain(route.path[i].ip) \in Trusted
    /\ None \notin Requests
    /\ CookieTTL \in Nat \ {0} /\ DedupTTL \in Nat \ {0} /\ MaxLosses \in Nat

VARIABLES
    jar,        \* jar[d]: the cookie that device d keeps
    vote,       \* vote[r]: what the handler knows of request r
    dedup,      \* dedup[p][t]: when the dedup key of token t for poll p expires
    countedAt,  \* history: when the ballot of r was counted, 0 when never
    losses

voteVars == <<jar, vote, dedup, countedAt, losses>>

(* A token is named by the request it was issued for.  Two fields are      *)
(* history: bare, the request has brought no token; standins, the          *)
(* addresses its path puts in place of the client's.                       *)
Cookie == [token : Requests \cup {None}, expires : Nat]
Vote == [pc : {"new", "asking", "answered", "over"}, address : Nat \cup {Unknown},
         standins : SUBSET Nat, token : Requests \cup {None}, bare : BOOLEAN]

VoteTypeOK ==
    /\ TypeOK
    /\ jar \in [Devices -> Cookie]
    /\ vote \in [Requests -> Vote]
    /\ dedup \in [Polls -> [Requests -> Nat]]
    /\ countedAt \in [Requests -> 0 .. MaxTime]
    /\ losses \in 0 .. MaxLosses

VoteInit ==
    /\ Init
    /\ jar = [d \in Devices |-> [token |-> None, expires |-> 0]]
    /\ vote = [r \in Requests |-> [pc |-> "new", address |-> Client, standins |-> {},
                                   token |-> None, bare |-> FALSE]]
    /\ dedup = [p \in Polls |-> [r \in Requests |-> 0]]
    /\ countedAt = [r \in Requests |-> 0]
    /\ losses = 0

-----------------------------------------------------------------------------
(* parseAddr: the peer of this process, in its plain form. *)
Peer(route) == IF Last(route.path) = Garbage THEN Unknown ELSE Last(route.path).ip

(* X-Forwarded-For as it arrives: what the client has put there, and the   *)
(* peer of every proxy.                                                    *)
Hops(route) == route.forged \o Front(route.path)

(* isTrusted, of a hop in the form it is written.                          *)
Untrusted(hops) == {i \in DOMAIN hops : hops[i] \notin Trusted}

(* Mutated forms of the definitions below, used by the mutant runs only. *)

FirstUntrustedHop(route) ==
    IF Plain(Peer(route)) \notin Trusted \/ Untrusted(Hops(route)) = {} THEN Peer(route)
    ELSE LET hop == Hops(route)[Min(Untrusted(Hops(route)))]
         IN IF hop = Garbage THEN Peer(route) ELSE hop.ip

TokenAnew(r) == r

(* resolveClientIP: the last hop that is no trusted proxy, unmapped only   *)
(* then, unless nonsense stands there; the header of a peer that is not    *)
(* trusted is ignored.                                                     *)
ResolveClientIP(route) ==
    LET peer == Peer(route)
        hops == Hops(route)
        last == hops[Max(Untrusted(hops))]
    IN IF Plain(peer) \in Trusted /\ Untrusted(hops) # {} /\ last # Garbage
       THEN last.ip ELSE peer

(* Proxies that another one wrote down in a form no prefix contains, and   *)
(* the peer when a proxy wrote down something that is not accepted.        *)
Standins(route) ==
    LET kept == Front(route.path) IN
    {kept[i].ip : i \in {j \in 2 .. Len(kept) : kept[j] \notin Trusted \cup {Garbage}}}
        \cup IF Garbage \in ToSet(kept) THEN {Peer(route)} ELSE {}

(* RealIP: what the routes of requests resolve to. *)
Resolved == {[address |-> ResolveClientIP(route), standins |-> Standins(route)] :
                route \in Routes}

(* VoterCookie: the token of the request, or one issued for it. *)
Brought(r) == LET c == jar[DeviceOf[r]] IN IF now < c.expires THEN c.token ELSE None
TokenFor(r) == IF Brought(r) = None THEN r ELSE Brought(r)

(* The middleware, and the checks of Cast that come before Guard: a ballot *)
(* for a poll that is not open, or of unknown options, asks nothing.       *)
Arrive(r) ==
    /\ vote[r].pc = "new"
    /\ \E seen \in Resolved, pc \in {"asking", "answered"} :
          /\ vote' = [vote EXCEPT ![r] =
                         [pc |-> pc, address |-> seen.address, standins |-> seen.standins,
                          token |-> TokenFor(r), bare |-> Brought(r) = None]]
          /\ IF pc = "asking" /\ seen.address = Client THEN Send(r) ELSE UNCHANGED vars
    /\ UNCHANGED <<jar, dedup, countedAt, losses>>

(* Guard and its retries; anything but `allow' ends the request. *)
Ask(r) ==
    /\ \/ (Answer(r) \/ RunLate(r)) /\ UNCHANGED losses
       \/ GiveUp(r) /\ losses < MaxLosses /\ losses' = losses + 1
    /\ vote' = IF vote[r].pc = "asking" /\ req'[r].pc \notin {"waiting", "allow"}
               THEN [vote EXCEPT ![r].pc = "answered"] ELSE vote
    /\ UNCHANGED <<jar, dedup, countedAt>>

(* The keys of another address refuse it, or do not answer. *)
RefusedElsewhere(r) ==
    /\ vote[r].pc = "asking" /\ vote[r].address # Client
    /\ vote' = [vote EXCEPT ![r].pc = "answered"]
    /\ UNCHANGED <<vars, jar, dedup, countedAt, losses>>

(* CastBallot is asked only then.  It counts the ballot of a token that    *)
(* has no dedup key; when the call fails, nobody knows whether it has.     *)
Cast(r) ==
    LET p == PollOf[r]
        token == vote[r].token
    IN
    /\ vote[r].pc = "asking"
    /\ vote[r].address = Client => req[r].pc = "allow"
    /\ vote' = [vote EXCEPT ![r].pc = "answered"]
    /\ \/ /\ now >= dedup[p][token]
          /\ dedup' = [dedup EXCEPT ![p][token] = now + DedupTTL]
          /\ countedAt' = [countedAt EXCEPT ![r] = now]
       \/ UNCHANGED <<dedup, countedAt>>
    /\ UNCHANGED <<vars, jar, losses>>

(* The device keeps the token it is sent, in place of one it may have got  *)
(* meanwhile, unless the response is lost.                                 *)
Receive(r) ==
    /\ vote[r].pc = "answered"
    /\ vote' = [vote EXCEPT ![r].pc = "over", ![r].token = None,
                           ![r].address = Client, ![r].standins = {}]
    /\ \/ /\ jar' = IF vote[r].token = r
                    THEN [jar EXCEPT ![DeviceOf[r]] = [token |-> r, expires |-> now + CookieTTL]]
                    ELSE jar
          /\ UNCHANGED losses
       \/ losses < MaxLosses /\ losses' = losses + 1 /\ UNCHANGED jar
    /\ UNCHANGED <<vars, dedup, countedAt>>

VoteNext ==
    \/ \E r \in Requests : Arrive(r) \/ Ask(r) \/ RefusedElsewhere(r) \/ Cast(r) \/ Receive(r)
    \/ Tick /\ UNCHANGED voteVars

VoteSpec == VoteInit /\ [][VoteNext]_<<vars, voteVars>>

-----------------------------------------------------------------------------
(* A request is rated by the address of its client, whatever hops it names *)
(* and however many proxies it has come through.  Where a proxy on its way *)
(* was written down in a form no prefix contains, it is rated by the       *)
(* address of that proxy, and where what was written down is not accepted, *)
(* by that of the last one: all clients behind it share its limits.  But   *)
(* never is it rated by one the client made up (resolveClientIP).          *)
AddressIsTheClients ==
    \A r \in Requests : vote[r].pc # "new" =>
        IF vote[r].standins = {} THEN vote[r].address = Client
        ELSE vote[r].address \in vote[r].standins

(* A device that sends only tokens it was issued votes twice for a poll    *)
(* within the dedup window only as often as it sends requests without a    *)
(* token, because its first ones overlap, their responses are lost or its  *)
(* cookie is over: every other request votes with a token that has.  One   *)
(* that makes up well-formed tokens, which sanitizeToken accepts, is not   *)
(* bound by it (VoterCookie, VoterHash, CastBallot).                       *)
VotesWithinBareRequests ==
    \A d \in Devices, p \in Polls, t \in Times :
        LET sent == {r \in Requests : DeviceOf[r] = d} IN
        Cardinality({r \in sent : /\ PollOf[r] = p
                                  /\ countedAt[r] \in (t - DedupTTL + 1) .. t /\ countedAt[r] > 0})
            <= Cardinality({r \in sent : vote[r].bare})
=============================================================================
