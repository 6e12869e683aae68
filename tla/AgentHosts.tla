------------------------------ MODULE AgentHosts ------------------------------
(***************************************************************************)
(* The connections of one agent: the WebSocket handlers of the server      *)
(* (backend/websocket_handler.py), the list of hosts that wait for an      *)
(* approval (pending_host_manager.py), the row of the host                 *)
(* (agent_host_manager.py) and the client that keeps dialling              *)
(* (agent/websocket_client.py).                                            *)
(*                                                                         *)
(* Handlers, routes and senders are coroutines of one event loop: a step   *)
(* is the code between two awaits.  The entry of active_connections and    *)
(* that of the pending list are kept per host, not per connection, and a   *)
(* handler that ends late finds whatever is there by then.  A link that is *)
(* cut may still take what the server sends, until the server learns of    *)
(* it.  The process may be restarted, which empties both registries.       *)
(***************************************************************************)
EXTENDS Naturals

CONSTANTS
    Conns,        \* WebSocket objects; each is used once
    Ways,         \* how the agent is configured: with its token, with a secret key
    MaxRestarts,  \* bound of the model: restarts of the server
    None

ASSUME AgentAssumption ==
    /\ None \notin Conns
    /\ Ways \subseteq {"token", "secret"}
    /\ MaxRestarts \in Nat

VARIABLES
    row,        \* AgentHost: [kind, online, heard]; heard: last_heartbeat is not set,
                \* of the last 60 seconds, or older
    active,     \* active_connections[host_id]
    pend,       \* the pending host and its connection
    link,       \* the TCP connection under each WebSocket
    handler,    \* handle_agent_websocket of each connection
    rejecting,  \* reject_pending_host has closed the connection
    sender,     \* the connection on which send_message has failed once
    checking,   \* check_offline_hosts has read the row and not yet committed
    restarts,
    missed,     \* history: the offline check has written since the row was last heard
    displaced,  \* history: connections whose entry a late step of another has taken
    dropped,    \* history: the same for the pending list
    adopted     \* history: connections an approval has made the host's

host    == <<row, missed, active>>
history == <<displaced, dropped, adopted>>
vars    == <<host, pend, link, handler, rejecting, sender, checking, restarts, history>>

Steps == {"none", "hello", "close", "accept", "welcome", "greet", "loop", "ended"}

Rows  == [kind : {"none", "token", "id"}, online : BOOLEAN,
          heard : {"never", "lately", "before"}]

NoHandler == [at |-> "none", way |-> "token", member |-> FALSE, old |-> None]

TypeOK ==
    /\ row \in Rows /\ missed \in BOOLEAN
    /\ row.kind = "none" => ~row.online /\ row.heard = "never" /\ active = None
    /\ checking => row.kind # "none"
    /\ active \in Conns \cup {None}
    /\ pend \in Conns \cup {None}
    /\ link \in [Conns -> {"new", "up", "cut"}]
    /\ handler \in [Conns -> [at : Steps, way : Ways \cup {"token"}, member : BOOLEAN,
                              old : Conns \cup {None}]]
    /\ \A c \in Conns : handler[c].at \in {"none"} <=> link[c] = "new"
    /\ rejecting \in BOOLEAN /\ checking \in BOOLEAN
    /\ sender \in Conns \cup {None}
    /\ restarts \in 0..MaxRestarts
    /\ displaced \cup dropped \cup adopted \subseteq Conns

\* add_agent_host may have made the row, and its token been given to the agent.
Init ==
    /\ row \in [kind : {"none", "token"}, online : {FALSE}, heard : {"never"}]
    /\ missed = FALSE
    /\ active = None /\ pend = None
    /\ link = [c \in Conns |-> "new"]
    /\ handler = [c \in Conns |-> NoHandler]
    /\ rejecting = FALSE /\ checking = FALSE /\ sender = None /\ restarts = 0
    /\ displaced = {} /\ dropped = {} /\ adopted = {}

----------------------------------------------------------------------------
(* The link: WebSocketClient.connect and its reconnect loop.               *)

Goes(c, place) == handler' = [handler EXCEPT ![c].at = place]

Live(c) == link[c] = "up" /\ handler[c].at = "loop"

\* The client dials when it has noticed that it is not connected; it may be a
\* new process with another environment.
Dial(c, w) ==
    /\ link[c] = "new"
    /\ \A d \in Conns : link[d] # "up"
    /\ link' = [link EXCEPT ![c] = "up"]
    /\ handler' = [handler EXCEPT ![c] = [NoHandler EXCEPT !.at = "hello", !.way = w]]
    /\ UNCHANGED <<host, pend, rejecting, sender, checking, restarts, history>>

\* The network fails, the agent stops, or its handshake takes 10 seconds.
Cut(c) ==
    /\ link[c] = "up"
    /\ link' = [link EXCEPT ![c] = "cut"]
    /\ UNCHANGED <<host, pend, handler, rejecting, sender, checking, restarts, history>>

----------------------------------------------------------------------------
(* The registries.                                                         *)

\* get_agent_host_by_token; get_agent_host_by_unique_id only with a secret key
Found(w) == row.kind = "token" \/ (row.kind = "id" /\ w = "secret")

\* update_host_status
SetOnline(b) == row' = [row EXCEPT !.online = b, !.heard = "lately"] /\ missed' = FALSE

\* ConnectionManager.disconnect, on behalf of the connection c: the entry of the
\* host is deleted, whoever's it is.
DisconnectHost(c) ==
    IF active = None THEN UNCHANGED <<host, displaced>>
    ELSE /\ active' = None
         /\ SetOnline(FALSE)
         /\ displaced' = IF active = c THEN displaced ELSE displaced \cup {active}

\* remove_pending_host, on behalf of the connection c
RemovePending(c) ==
    /\ pend' = None
    /\ dropped' = IF pend \in {c, None} THEN dropped ELSE dropped \cup {pend}

\* A record that is there already keeps its connection.
AddPendingOnce(c) == pend' = IF pend = None THEN c ELSE pend

\* add_pending_host: the record of this identity is given the new connection
AddPending(c) == pend' = c

----------------------------------------------------------------------------
(* handle_agent_websocket, up to its receive loop.                         *)

\* The connection is looked up.  A member takes the old entry out before it awaits
\* the close of the old connection; an unknown agent with a token is accepted
\* first, one with a secret key is put on the list as it is.
Hello(c) ==
    /\ handler[c].at = "hello"
    /\ \/ /\ Found(handler[c].way)
          /\ handler' = [handler EXCEPT ![c].member = TRUE, ![c].old = active,
                                        ![c].at = IF active = None THEN "accept" ELSE "close"]
          /\ active' = None
          /\ UNCHANGED pend
       \/ /\ ~Found(handler[c].way) /\ handler[c].way = "token"
          /\ Goes(c, "accept")
          /\ UNCHANGED <<active, pend>>
       \/ /\ ~Found(handler[c].way) /\ handler[c].way = "secret"
          /\ AddPending(c)
          /\ handler' = [handler EXCEPT ![c].old = pend,
                                        ![c].at = IF pend = None THEN "greet" ELSE "close"]
          /\ UNCHANGED active
    /\ UNCHANGED <<row, missed, link, rejecting, sender, checking, restarts, history>>

CloseOld(c) ==
    /\ handler[c].at = "close"
    /\ link' = [link EXCEPT ![handler[c].old] = "cut"]
    /\ handler' = [handler EXCEPT ![c].old = None,
                                  ![c].at = IF handler[c].member THEN "accept" ELSE "greet"]
    /\ UNCHANGED <<host, pend, rejecting, sender, checking, restarts, history>>

\* The exception of a link that is gone ends the handler before its try block.
Give(c) == link[c] = "cut" /\ Goes(c, "ended")

\* An accept after which the entry is left as it was.
AcceptUnregistered(c) ==
    /\ handler[c].at = "accept"
    /\ Goes(c, IF handler[c].member THEN "welcome" ELSE "greet")
    /\ UNCHANGED <<host, pend, link, rejecting, sender, checking, restarts, history>>

\* ConnectionManager.connect after the accept; for an unknown agent,
\* add_pending_host and the close of the connection it replaces.
Accept(c) ==
    /\ handler[c].at = "accept"
    /\ \/ /\ handler[c].member
          /\ active' = c
          /\ SetOnline(TRUE)
          /\ displaced' = IF active \in {None, c} THEN displaced ELSE displaced \cup {active}
          /\ Goes(c, "welcome")
          /\ UNCHANGED pend
       \/ /\ ~handler[c].member
          /\ AddPending(c)
          /\ handler' = [handler EXCEPT ![c].old = pend,
                                        ![c].at = IF pend = None THEN "greet" ELSE "close"]
          /\ UNCHANGED <<host, displaced>>
       \/ /\ Give(c)
          /\ UNCHANGED <<host, pend, displaced>>
    /\ UNCHANGED <<link, rejecting, sender, checking, restarts, dropped, adopted>>

\* A handler that fails here leaves its entry behind.
Welcome(c) ==
    /\ handler[c].at = "welcome"
    /\ Goes(c, "loop") \/ Give(c)
    /\ UNCHANGED <<host, pend, link, rejecting, sender, checking, restarts, history>>

\* The pending message.  A connection that was never accepted cannot take it.
Greet(c) ==
    /\ handler[c].at = "greet"
    /\ \/ /\ handler[c].way = "token"
          /\ Goes(c, "loop")
          /\ UNCHANGED <<pend, link, dropped>>
       \/ /\ handler[c].way = "token"
          /\ Give(c)
          /\ RemovePending(c)
          /\ UNCHANGED link
       \/ /\ handler[c].way = "secret"
          /\ Goes(c, "ended")
          /\ RemovePending(c)
          /\ link' = [link EXCEPT ![c] = "cut"]
    /\ UNCHANGED <<host, rejecting, sender, checking, restarts, displaced, adopted>>

----------------------------------------------------------------------------
(* The receive loop: what is_pending and host_id were at the start counts. *)

\* heartbeat and host_info of a member; those of a pending agent are about the
\* pending list, and change nothing that is modelled.
Heartbeat(c) ==
    /\ Live(c) /\ handler[c].member
    /\ SetOnline(TRUE)
    /\ UNCHANGED <<active, pend, link, handler, rejecting, sender, checking, restarts, history>>

\* The server learns that the link is gone: the finally block.
Leave(c) ==
    /\ handler[c].at = "loop" /\ link[c] = "cut"
    /\ Goes(c, "ended")
    /\ \/ /\ handler[c].member
          /\ DisconnectHost(c)
          /\ UNCHANGED <<pend, dropped>>
       \/ /\ ~handler[c].member
          /\ RemovePending(c)
          /\ UNCHANGED <<host, displaced>>
    /\ UNCHANGED <<link, rejecting, sender, checking, restarts, adopted>>

----------------------------------------------------------------------------
(* Routes, the scheduler, senders, and the process.                        *)

\* A connection that is moved before the row is written.
ApproveRowless ==
    /\ pend # None
    /\ row.kind = "none"
    /\ active' = pend
    /\ adopted' = adopted \cup {pend}
    /\ pend' = None
    /\ UNCHANGED <<row, missed, link, handler, rejecting, sender, checking, restarts, displaced, dropped>>

\* approve_pending_host: a row with a fresh host_id takes over the connection; the
\* handler of the connection goes on as that of a pending host.
Approve ==
    /\ pend # None
    /\ row.kind = "none"
    /\ row' = [kind |-> "id", online |-> TRUE, heard |-> "never"]
    /\ active' = pend
    /\ adopted' = adopted \cup {pend}
    /\ pend' = None
    /\ UNCHANGED <<missed, link, handler, rejecting, sender, checking, restarts, displaced,
                   dropped>>

\* reject_pending_host awaits the close, then removes the record of the identity.
Reject ==
    /\ pend # None /\ ~rejecting
    /\ link' = [link EXCEPT ![pend] = "cut"]
    /\ rejecting' = TRUE
    /\ UNCHANGED <<host, pend, handler, sender, checking, restarts, history>>

RejectRemove ==
    /\ rejecting
    /\ rejecting' = FALSE
    /\ pend' = None
    /\ dropped' = IF pend # None /\ link[pend] = "up" THEN dropped \cup {pend} ELSE dropped
    /\ UNCHANGED <<host, link, handler, sender, checking, restarts, displaced, adopted>>

\* 60 seconds pass without a heartbeat: the link is gone, or the agent deploys, which
\* it does in its event loop.
Elapse ==
    /\ row.heard = "lately"
    /\ row' = [row EXCEPT !.heard = "before"]
    /\ UNCHANGED <<missed, active, pend, link, handler, rejecting, sender, checking, restarts,
                   history>>

\* A check that believes the registry.
CheckUnconnected ==
    /\ row.online /\ row.heard = "before" /\ ~checking
    /\ active = None
    /\ checking' = TRUE
    /\ UNCHANGED <<host, pend, link, handler, rejecting, sender, restarts, history>>

\* check_offline_hosts reads the hosts that are online and were not heard for 60
\* seconds.  A row without any heartbeat is never older than anything.
CheckOfflineHosts ==
    /\ row.online /\ row.heard = "before" /\ ~checking
    /\ checking' = TRUE
    /\ UNCHANGED <<host, pend, link, handler, rejecting, sender, restarts, history>>

\* Its commit, in a thread of its own: a heartbeat may have come in between.
MarkOffline ==
    /\ checking
    /\ checking' = FALSE
    /\ row' = [row EXCEPT !.online = FALSE] /\ missed' = TRUE
    /\ UNCHANGED <<active, pend, link, handler, rejecting, sender, restarts, history>>

\* send_message, whose first attempt fails
SendFails ==
    /\ sender = None
    /\ active # None /\ link[active] = "cut"
    /\ sender' = active
    /\ UNCHANGED <<host, pend, link, handler, rejecting, checking, restarts, history>>

\* The second attempt, after 0.1 seconds: on the same connection, although the
\* host may have another one by now.
SendAgain ==
    /\ sender # None
    /\ DisconnectHost(sender)
    /\ sender' = None
    /\ UNCHANGED <<pend, link, handler, rejecting, checking, restarts, dropped, adopted>>

Restart ==
    /\ restarts < MaxRestarts
    /\ restarts' = restarts + 1
    /\ active' = None /\ pend' = None /\ rejecting' = FALSE /\ sender' = None
    /\ checking' = FALSE
    /\ link' = [c \in Conns |-> IF link[c] = "up" THEN "cut" ELSE link[c]]
    /\ handler' = [c \in Conns |-> IF handler[c].at = "none" THEN handler[c]
                                   ELSE [handler[c] EXCEPT !.at = "ended"]]
    /\ UNCHANGED <<row, missed, history>>

----------------------------------------------------------------------------

Handler(c) == Hello(c) \/ CloseOld(c) \/ Accept(c) \/ Welcome(c) \/ Greet(c) \/ Leave(c)

Next ==
    \/ \E c \in Conns : Handler(c) \/ Heartbeat(c) \/ Cut(c) \/ \E w \in Ways : Dial(c, w)
    \/ Approve \/ Reject \/ RejectRemove \/ Elapse \/ CheckOfflineHosts \/ MarkOffline
    \/ SendFails \/ SendAgain \/ Restart

Spec == Init /\ [][Next]_vars

\* A coroutine that can go on does; time passes; the scheduler checks again and again,
\* and a check ends.
FairSpec ==
    /\ Spec
    /\ \A c \in Conns : WF_vars(Handler(c))
    /\ WF_vars(Elapse) /\ WF_vars(CheckOfflineHosts) /\ WF_vars(MarkOffline)
    /\ WF_vars(SendAgain) /\ WF_vars(RejectRemove)

----------------------------------------------------------------------------
(* Properties.                                                             *)

\* Another handler has replaced the connection c, and closes it next.
Closing(c) == \E d \in Conns : handler[d].at = "close" /\ handler[d].old = c

\* An agent whose handler serves it as a member has the entry of the host, through
\* which it is sent deployments, however often it has reconnected, was approved or sent
\* to.  It loses it only when it is closed, or to the late step of an older connection:
\* its cleanup, its accept, or a second attempt to send on it.  And it is shown online
\* unless the offline check has written since it was last heard.
MemberReachable ==
    \A c \in Conns \ displaced :
        Live(c) /\ handler[c].member => (active = c /\ (row.online \/ missed)) \/ Closing(c)

\* An agent that waits for its approval is on the list until it is approved or
\* rejected, unless the cleanup of an older connection has taken its record.
WaitingIsListed ==
    \A c \in Conns \ (dropped \cup adopted) :
        Live(c) /\ ~handler[c].member => pend = c \/ Closing(c)

\* No connection is both on the pending list and the host's connection: approving,
\* reconnecting and rejecting hand an agent over.
HandedOver == pend = None \/ pend # active

\* When the agent is gone for good the row says so in the end, unless it has never
\* sent a heartbeat since its approval, as check_offline_hosts does not see it then.
GoneIsNoticed ==
    (row.online /\ row.heard # "never" /\ \A c \in Conns : link[c] # "up")
        ~> (~row.online \/ \E c \in Conns : link[c] = "up")
=============================================================================
