----------------------------- MODULE McpGateway ------------------------------
(***************************************************************************)
(* The MCP endpoint: tools of other MCP servers ("upstreams") proxied      *)
(* beside the router's own.  A map of live connections, behind a fair      *)
(* readers-writer lock, is read by list_tools, which keeps the read lock   *)
(* while it asks one upstream after the other, and by call_tool, which     *)
(* lets go of it before it forwards the call.  A supervisor per upstream   *)
(* takes a lost connection out of the map and reconnects with backoff.     *)
(* Connections of an upstream are numbered; 0 is none.                     *)
(***************************************************************************)
EXTENDS GatewayConfig

CONSTANTS
  Upstreams,     (* Names of [[mcp.upstreams]]: unique, as config.rs asks.  *)
  Listers,       (* Slots for tools/list requests in progress.             *)
  Callers,       (* Slots for tools/call requests in progress.             *)
  Native,        (* A tool of the router itself: its name has no slash.    *)
  MaxDrops       (* Bound on the connections that are lost.                *)

ASSUME GatewayAssumption ==
  /\ MaxDrops \in Nat /\ IsFiniteSet(Upstreams)
  /\ Native \notin Upstreams /\ None \notin Upstreams \cup Nat
  /\ Upstreams \cap (Listers \cup Callers) = {} /\ Listers \cap Callers = {}

VARIABLES
  policy,        (* ReconnectPolicy, from [mcp].                           *)
  connecting,    (* Upstreams connect() has still to try, in order.        *)
  peers,         (* The map: upstream -> the connection listed for it.     *)
  supervisor,    (* The supervisor task of each upstream.                  *)
  queue,         (* Tasks waiting for the lock, in order.                  *)
  listing,       (* The tools/list each lister runs.                       *)
  calling,       (* The tools/call each caller runs.                       *)
  up,            (* Environment: upstreams that can be connected to.       *)
  link,          (* Environment: upstream -> its live connection.          *)
  drops          (* Connections lost so far.                               *)

served == <<listing, calling>>
world == <<up, link, drops>>
gateway == <<policy, connecting, peers, supervisor, queue, listing, calling, up, link, drops>>

(* at: "absent" (never connected), "waiting" (on the connection's end),    *)
(* "dropped" (for the lock, to remove it), "retry" (asleep before the next *)
(* attempt), "connected" (for the lock, to insert it), or "gone".          *)
Supervisor == [at : {"absent", "waiting", "dropped", "retry", "connected", "gone"},
               conn : 0..(MaxDrops + 1), attempts : Nat, backoff : Nat]
Listing == [at : {"idle", "queued", "asking"},
            ask : SUBSET (Upstreams \X (1..(MaxDrops + 1))), tools : SUBSET (Upstreams \cup {Native})]
Calling == [at : {"idle", "queued", "sent", "native"}, to : Upstreams \cup {None},
            conn : 0..(MaxDrops + 1)]

TypeOK ==
  /\ policy \in [initial : Nat, max : Nat, limit : Nat \cup {None}]
  /\ connecting \in Seq(Upstreams)
  /\ peers \in [Upstreams -> 0..(MaxDrops + 1)]
  /\ supervisor \in [Upstreams -> Supervisor]
  /\ queue \in Seq(Upstreams \cup Listers \cup Callers)
  /\ listing \in [Listers -> Listing] /\ calling \in [Callers -> Calling]
  /\ up \in SUBSET Upstreams
  /\ link \in [Upstreams -> 0..(MaxDrops + 1)]
  /\ drops \in 0..MaxDrops

NoSupervisor == [at |-> "absent", conn |-> 0, attempts |-> 0, backoff |-> 0]
IdleList == [at |-> "idle", ask |-> {}, tools |-> {}]
IdleCall == [at |-> "idle", to |-> None, conn |-> 0]

(* McpGateway::empty(), with nothing left to connect.                      *)
Empty ==
  /\ connecting = <<>>
  /\ peers = [u \in Upstreams |-> 0]
  /\ supervisor = [u \in Upstreams |-> NoSupervisor]
  /\ queue = <<>>
  /\ listing = [l \in Listers |-> IdleList]
  /\ calling = [c \in Callers |-> IdleCall]
  /\ link = [u \in Upstreams |-> 0]

(* The gateway goes with the process.                                      *)
GatewayDies ==
  /\ connecting' = <<>> /\ queue' = <<>>
  /\ peers' = [u \in Upstreams |-> 0] /\ link' = [u \in Upstreams |-> 0]
  /\ supervisor' = [u \in Upstreams |-> NoSupervisor]
  /\ listing' = [l \in Listers |-> IdleList] /\ calling' = [c \in Callers |-> IdleCall]
  /\ UNCHANGED <<policy, up, drops>>

GatewayInit ==
  /\ Empty
  /\ policy = [initial |-> 1, max |-> 1, limit |-> None]
  /\ up \in SUBSET Upstreams
  /\ drops = 0

-----------------------------------------------------------------------------
(* The lock: readers enter together, a writer alone, and nobody overtakes  *)
(* a writer that waits.  Only list_tools keeps the lock across steps.      *)
Reading == {l \in Listers : listing[l].at = "asking"}
MayRead(t) == \E i \in DOMAIN queue : queue[i] = t /\ \A j \in 1..i : queue[j] \notin Upstreams
MayWrite(t) == queue # <<>> /\ Head(queue) = t /\ Reading = {}
Without(t) == SelectSeq(queue, LAMBDA x : x # t)

(* connect(): the next upstream in order; one that cannot be reached stays *)
(* absent until a restart.  `reachable` is what connect_one finds: the     *)
(* upstream is up, and a bearer_token_env it names is set.                 *)
Connect(u, reachable) ==
  /\ connecting # <<>> /\ u = Head(connecting)
  /\ connecting' = Tail(connecting)
  /\ IF reachable
     THEN /\ link' = [link EXCEPT ![u] = 1]
          /\ peers' = [peers EXCEPT ![u] = 1]
          /\ supervisor' = [supervisor EXCEPT ![u] = [NoSupervisor EXCEPT !.at = "waiting", !.conn = 1]]
     ELSE UNCHANGED <<link, peers, supervisor>>
  /\ UNCHANGED <<policy, queue, listing, calling, up, drops>>

(* spawn_supervisor: waiting() returns once the connection is lost.        *)
NoticeDrop(u) ==
  /\ supervisor[u].at = "waiting" /\ link[u] # supervisor[u].conn
  /\ supervisor' = [supervisor EXCEPT ![u].at = "dropped"]
  /\ queue' = Append(queue, u)
  /\ UNCHANGED <<policy, connecting, peers, served, world>>

GuardKept(u) == queue        \* slip: the write guard lives on while retrying
GuardDropped(u) == Without(u)

RemovePeer(u) ==
  /\ supervisor[u].at = "dropped" /\ MayWrite(u)
  /\ peers' = [peers EXCEPT ![u] = 0]
  /\ queue' = GuardDropped(u)
  /\ supervisor' = [supervisor EXCEPT ![u].at = "retry", ![u].attempts = 0,
                                      ![u].backoff = policy.initial]
  /\ UNCHANGED <<policy, connecting, served, world>>

ShouldGiveUpByDefault(attempts) ==   \* slip: no limit means no retry
  policy.limit # None => attempts >= policy.limit
ShouldGiveUp(attempts) == policy.limit # None /\ attempts >= policy.limit

GiveUp(u) ==
  /\ supervisor[u].at = "retry" /\ ShouldGiveUp(supervisor[u].attempts)
  /\ supervisor' = [supervisor EXCEPT ![u].at = "gone"]
  /\ UNCHANGED <<policy, connecting, peers, queue, served, world>>

NextBackoff(current) == IF 2 * current < policy.max THEN 2 * current ELSE policy.max

(* The sleep is over and connect_one is tried again.  (Attempts are only   *)
(* counted here when there is a limit to compare them with.)               *)
Attempt(u, reachable) ==
  /\ supervisor[u].at = "retry" /\ ~ShouldGiveUp(supervisor[u].attempts)
  /\ LET s == [supervisor[u] EXCEPT !.attempts = IF policy.limit = None THEN 0 ELSE @ + 1] IN
     IF reachable
     THEN /\ supervisor' = [supervisor EXCEPT ![u] = [s EXCEPT !.at = "connected", !.conn = s.conn + 1]]
          /\ link' = [link EXCEPT ![u] = supervisor[u].conn + 1]
          /\ queue' = Append(queue, u)
     ELSE /\ supervisor' = [supervisor EXCEPT ![u] = [s EXCEPT !.backoff = NextBackoff(s.backoff)]]
          /\ UNCHANGED <<link, queue>>
  /\ UNCHANGED <<policy, connecting, peers, served, up, drops>>

InsertOld(u) == peers   \* slip: the map keeps what it had for the name
Inserted(u) == [peers EXCEPT ![u] = supervisor[u].conn]

InsertPeer(u) ==
  /\ supervisor[u].at = "connected" /\ MayWrite(u)
  /\ peers' = Inserted(u)
  /\ queue' = Without(u)
  /\ supervisor' = [supervisor EXCEPT ![u].at = "waiting"]
  /\ UNCHANGED <<policy, connecting, served, world>>

-----------------------------------------------------------------------------
(* tools/list: under the read lock, every listed connection is asked in    *)
(* turn; one that fails is skipped.  The router's own tools come first.    *)
StartList(l) ==
  /\ listing[l].at = "idle"
  /\ listing' = [listing EXCEPT ![l].at = "queued"]
  /\ queue' = Append(queue, l)
  /\ UNCHANGED <<policy, connecting, peers, supervisor, calling, world>>

EnterList(l) ==
  /\ listing[l].at = "queued" /\ MayRead(l)
  /\ listing' = [listing EXCEPT ![l] =
       [at |-> "asking", ask |-> {<<u, peers[u]>> : u \in {u \in Upstreams : peers[u] # 0}},
        tools |-> {Native}]]
  /\ queue' = Without(l)
  /\ UNCHANGED <<policy, connecting, peers, supervisor, calling, world>>

ListAnswer(l) ==
  /\ listing[l].at = "asking"
  /\ \E peer \in listing[l].ask :
       listing' = [listing EXCEPT ![l].ask = @ \ {peer},
                     ![l].tools = IF link[peer[1]] = peer[2] THEN @ \cup {peer[1]} ELSE @]
  /\ UNCHANGED <<policy, connecting, peers, supervisor, queue, calling, world>>

FinishList(l) ==
  /\ listing[l].at = "asking" /\ listing[l].ask = {}
  /\ listing' = [listing EXCEPT ![l] = IdleList]
  /\ UNCHANGED <<policy, connecting, peers, supervisor, queue, calling, world>>

(* tools/call: a name with a slash goes to the upstream before it.         *)
StartCall(c, tool) ==
  /\ calling[c].at = "idle"
  /\ IF tool = Native
     THEN /\ calling' = [calling EXCEPT ![c].at = "native"]
          /\ UNCHANGED queue
     ELSE /\ calling' = [calling EXCEPT ![c].at = "queued", ![c].to = tool]
          /\ queue' = Append(queue, c)
  /\ UNCHANGED <<policy, connecting, peers, supervisor, listing, world>>

(* An upstream that is not in the map is unknown.                          *)
EnterCall(c) ==
  /\ calling[c].at = "queued" /\ MayRead(c)
  /\ LET conn == peers[calling[c].to] IN
     calling' = [calling EXCEPT ![c] =
       IF conn = 0 THEN IdleCall ELSE [@ EXCEPT !.at = "sent", !.conn = conn]]
  /\ queue' = Without(c)
  /\ UNCHANGED <<policy, connecting, peers, supervisor, listing, world>>

(* The upstream answers, or the connection the call went to is lost.  The  *)
(* router answers a call of its own.                                       *)
AnswerCall(c) ==
  /\ calling[c].at \in {"sent", "native"}
  /\ calling' = [calling EXCEPT ![c] = IdleCall]
  /\ UNCHANGED <<policy, connecting, peers, supervisor, queue, listing, world>>

-----------------------------------------------------------------------------
(* Outside: an upstream goes down and takes its connection with it, comes  *)
(* back, or a connection is cut while the upstream stays up.               *)
GoDown(u) ==
  /\ u \in up /\ drops < MaxDrops
  /\ up' = up \ {u} /\ drops' = drops + 1
  /\ link' = [link EXCEPT ![u] = 0]
  /\ UNCHANGED <<policy, connecting, peers, supervisor, queue, served>>

ComeUp(u) ==
  /\ u \notin up
  /\ up' = up \cup {u}
  /\ UNCHANGED <<policy, connecting, peers, supervisor, queue, served, link, drops>>

Cut(u) ==
  /\ link[u] # 0 /\ drops < MaxDrops
  /\ link' = [link EXCEPT ![u] = 0] /\ drops' = drops + 1
  /\ UNCHANGED <<policy, connecting, peers, supervisor, queue, served, up>>

SupervisorStep(u, reachable) ==
  NoticeDrop(u) \/ RemovePeer(u) \/ GiveUp(u) \/ Attempt(u, reachable) \/ InsertPeer(u)

ListStep(l) == EnterList(l) \/ ListAnswer(l) \/ FinishList(l)
CallStep(c) == EnterCall(c) \/ AnswerCall(c)
Request ==
  \/ \E l \in Listers : StartList(l)
  \/ \E c \in Callers, tool \in Upstreams \cup {Native} : StartCall(c, tool)
Outside == \E u \in Upstreams : GoDown(u) \/ ComeUp(u) \/ Cut(u)

-----------------------------------------------------------------------------
(* Property: whatever is lost and reconnected meanwhile, the map never     *)
(* lists a connection its supervisor has replaced or given up, and a       *)
(* connection its supervisor waits on is listed: otherwise calls would go  *)
(* to a dead peer, or an upstream that is up would stay unknown.           *)
PeersAreCurrent ==
  \A u \in Upstreams :
    peers[u] = IF supervisor[u].at \in {"waiting", "dropped"} THEN supervisor[u].conn ELSE 0
=============================================================================
