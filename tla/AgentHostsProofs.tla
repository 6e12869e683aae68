-------------------------- MODULE AgentHostsProofs --------------------------
(***************************************************************************)
(* Theorems about AgentHosts, for any number of connections and restarts.  *)
(***************************************************************************)
EXTENDS AgentHosts, TLAPS

USE AgentAssumption

(***************************************************************************)
(* The inductive invariant.                                                *)
(***************************************************************************)

\* Where the handler of a connection stands says whether it is a member's, whether its
\* connection may be registered, and which connection it is about to close.
HandlerInv ==
    \A c \in Conns :
        /\ handler[c].member => row.kind # "none"
        /\ handler[c].at \in {"hello", "greet"} => ~handler[c].member
        /\ handler[c].at = "welcome" => handler[c].member
        /\ handler[c].at = "close" => handler[c].old \in Conns /\ link[handler[c].old] # "new"
        /\ pend = c => handler[c].at \in {"close", "greet", "loop", "ended"} /\ ~handler[c].member
        /\ active = c => /\ handler[c].at \notin {"none", "hello", "accept"}
                         /\ handler[c].at = "close" => ~handler[c].member
        /\ sender = c => link[c] = "cut"

\* A member is reachable from its accept on.
AcceptedReachable ==
    \A c \in Conns \ displaced :
        link[c] = "up" /\ handler[c].member /\ handler[c].at \in {"welcome", "loop"}
            => (active = c /\ (row.online \/ missed)) \/ Closing(c)

\* Whoever waits is on the list from the moment its handler has put it there.
AddedIsListed ==
    \A c \in Conns \ (dropped \cup adopted) :
        link[c] = "up" /\ ~handler[c].member /\ handler[c].at \in {"close", "greet", "loop"}
            => pend = c \/ Closing(c)

IInv == TypeOK /\ HandlerInv /\ HandedOver /\ AcceptedReachable /\ AddedIsListed

Handlers == [at : Steps, way : Ways \cup {"token"}, member : BOOLEAN, old : Conns \cup {None}]

-----------------------------------------------------------------------------
(* What the steps have in common. *)

\* A handler that closes nothing yet: whoever is being closed still is.
LEMMA ClosingStays ==
    ASSUME NEW c \in Conns, handler[c].at # "close",
           \A d \in Conns \ {c} : handler'[d] = handler[d]
    PROVE  \A b : Closing(b) => Closing(b)'
  BY DEF Closing

\* The status of the host and the time of its last heartbeat are written.
LEMMA OnlineIs ==
    ASSUME row \in Rows, NEW b \in BOOLEAN, SetOnline(b)
    PROVE  row' \in Rows /\ row'.kind = row.kind /\ row'.online = b /\ missed' = FALSE
  BY DEF SetOnline, Rows

\* The entry of the host is deleted: its connection is displaced, if it is another one.
LEMMA DisconnectIs ==
    ASSUME TypeOK, NEW c \in Conns, DisconnectHost(c)
    PROVE  /\ row' \in Rows /\ missed' \in BOOLEAN
           /\ row'.kind = row.kind
           /\ row'.kind = "none" => ~row'.online /\ row'.heard = "never"
           /\ active' = None
           /\ displaced \subseteq displaced' /\ displaced' \subseteq Conns
           /\ active \in displaced' \cup {c, None}
           /\ active = None => UNCHANGED <<row, missed, displaced>>
<1>1. CASE active = None
  BY <1>1 DEF TypeOK, DisconnectHost, host
<1>2. CASE active # None
  <2>1. row.kind # "none"
    BY <1>2 DEF TypeOK
  <2>2. row' \in Rows /\ row'.kind = row.kind /\ missed' = FALSE
    BY <1>2, OnlineIs DEF TypeOK, DisconnectHost
  <2> QED
    BY <1>2, <2>1, <2>2 DEF TypeOK, DisconnectHost
<1> QED
  BY <1>1, <1>2

\* The record of the pending host is removed, with whatever connection it has.
LEMMA RemoveIs ==
    ASSUME TypeOK, NEW c \in Conns, RemovePending(c)
    PROVE  /\ pend' = None
           /\ dropped \subseteq dropped' /\ dropped' \subseteq Conns
           /\ pend \in dropped' \cup {c, None}
  BY DEF TypeOK, RemovePending

-----------------------------------------------------------------------------
(* The link. *)

LEMMA DialKeeps ==
    ASSUME IInv, NEW c \in Conns, NEW w \in Ways, Dial(c, w)
    PROVE  IInv'
<1>1. /\ link[c] = "new" /\ link' = [link EXCEPT ![c] = "up"]
      /\ handler' = [handler EXCEPT ![c] = [NoHandler EXCEPT !.at = "hello", !.way = w]]
      /\ UNCHANGED <<row, missed, active, pend, rejecting, sender, checking, restarts, displaced, dropped, adopted>>
  BY DEF Dial, host, history
<1>2. /\ handler \in [Conns -> Handlers] /\ link \in [Conns -> {"new", "up", "cut"}]
      /\ handler[c].at = "none"
  BY <1>1 DEF IInv, TypeOK, Handlers
<1>3. /\ handler' \in [Conns -> Handlers] /\ link' \in [Conns -> {"new", "up", "cut"}]
      /\ handler'[c] = [at |-> "hello", way |-> w, member |-> FALSE, old |-> None]
      /\ link'[c] = "up"
      /\ \A d \in Conns \ {c} : handler'[d] = handler[d] /\ link'[d] = link[d]
  BY <1>1, <1>2 DEF Handlers, NoHandler, Steps
<1>4. TypeOK'
  BY <1>1, <1>2, <1>3 DEF IInv, TypeOK, Handlers
<1>5. HandlerInv' /\ HandedOver'
  <2>1. pend # c /\ active # c /\ sender # c
    BY <1>1, <1>2 DEF IInv, HandlerInv
  <2>2. ASSUME NEW d \in Conns, handler[d].at = "close"
        PROVE  handler[d].old \in Conns /\ link'[handler[d].old] # "new"
    BY <1>2, <1>3, <2>2 DEF IInv, HandlerInv
  <2>3. \A d \in Conns : sender = d => link'[d] = "cut"
    BY <1>3, <2>1 DEF IInv, HandlerInv
  <2>4. HandlerInv'
    <3> SUFFICES ASSUME NEW d \in Conns
                 PROVE  /\ handler'[d].member => row.kind # "none"
                        /\ handler'[d].at \in {"hello", "greet"} => ~handler'[d].member
                        /\ handler'[d].at = "welcome" => handler'[d].member
                        /\ handler'[d].at = "close" =>
                              handler'[d].old \in Conns /\ link'[handler'[d].old] # "new"
                        /\ pend = d => /\ handler'[d].at \in {"close", "greet", "loop", "ended"}
                                       /\ ~handler'[d].member
                        /\ active = d => /\ handler'[d].at \notin {"none", "hello", "accept"}
                                         /\ handler'[d].at = "close" => ~handler'[d].member
                        /\ sender = d => link'[d] = "cut"
      BY <1>1 DEF HandlerInv
    <3>1. CASE d = c
      BY <1>3, <2>1, <3>1
    <3>2. CASE d # c
      BY <1>3, <2>2, <2>3, <3>2 DEF IInv, HandlerInv
    <3> QED
      BY <3>1, <3>2
  <2> QED
    BY <1>1, <2>4 DEF IInv, HandedOver
<1>6. \A b : Closing(b) => Closing(b)'
  BY <1>2, <1>3, ClosingStays
<1>7. AcceptedReachable' /\ AddedIsListed'
  BY <1>1, <1>3, <1>6 DEF IInv, AcceptedReachable, AddedIsListed
<1> QED
  BY <1>4, <1>5, <1>7 DEF IInv

\* Links are only cut.
LEMMA CutKeeps ==
    ASSUME IInv, UNCHANGED <<host, pend, handler, sender, checking, restarts, history>>,
           rejecting' \in BOOLEAN, link' \in [Conns -> {"new", "up", "cut"}],
           \A c \in Conns : /\ link'[c] = "new" <=> link[c] = "new"
                            /\ link[c] = "cut" => link'[c] = "cut"
    PROVE  IInv'
<1>1. UNCHANGED <<row, missed, active, pend, handler, sender, checking, restarts, displaced, dropped, adopted>>
  BY DEF host, history
<1>2. TypeOK'
  BY <1>1 DEF IInv, TypeOK
<1>3. HandlerInv' /\ HandedOver'
  BY <1>1 DEF IInv, HandlerInv, HandedOver
<1>4. AcceptedReachable' /\ AddedIsListed'
  BY <1>1 DEF IInv, TypeOK, AcceptedReachable, AddedIsListed, Closing
<1> QED
  BY <1>2, <1>3, <1>4 DEF IInv

LEMMA CutOneKeeps ==
    ASSUME IInv, NEW c \in Conns, link[c] # "new", link' = [link EXCEPT ![c] = "cut"],
           rejecting' \in BOOLEAN, UNCHANGED <<host, pend, handler, sender, checking, restarts, history>>
    PROVE  IInv'
<1>1. link \in [Conns -> {"new", "up", "cut"}]
  BY DEF IInv, TypeOK
<1> QED
  BY <1>1, CutKeeps

-----------------------------------------------------------------------------
(* The handler, up to its receive loop. *)

\* An agent is put on the list; the connection it replaces there is closed next.
LEMMA AddKeeps ==
    ASSUME IInv, NEW c \in Conns, handler[c].at \in {"hello", "accept"}, ~handler[c].member,
           AddPending(c),
           handler' = [handler EXCEPT ![c].old = pend,
                                      ![c].at = IF pend = None THEN "greet" ELSE "close"],
           UNCHANGED <<row, missed, active, link, rejecting, sender, checking, restarts, displaced, dropped, adopted>>
    PROVE  IInv'
<1>1. /\ handler \in [Conns -> Handlers] /\ TypeOK /\ HandlerInv /\ active # c /\ pend # c
  BY DEF IInv, TypeOK, Handlers, HandlerInv
<1>2. pend' = c
  BY DEF AddPending
<1>3. /\ handler' \in [Conns -> Handlers]
      /\ ~handler'[c].member /\ handler'[c].old = pend
      /\ handler'[c].at = IF pend = None THEN "greet" ELSE "close"
      /\ \A d \in Conns \ {c} : handler'[d] = handler[d]
  BY <1>1 DEF TypeOK, Handlers, Steps
<1>4. TypeOK'
  BY <1>1, <1>2, <1>3 DEF TypeOK, Handlers
<1>5. HandlerInv' /\ HandedOver'
  <2>1. pend # None => pend \in Conns /\ link[pend] # "new"
    BY <1>1 DEF TypeOK, HandlerInv
  <2> QED
    BY <1>1, <1>2, <1>3, <2>1 DEF HandlerInv, HandedOver
<1>6. \A b : Closing(b) => Closing(b)'
  BY <1>3, ClosingStays
<1>7. \A b : b = pend /\ b # None => Closing(b)'
  BY <1>3 DEF Closing
<1>8. AcceptedReachable' /\ AddedIsListed'
  BY <1>1, <1>2, <1>3, <1>6, <1>7 DEF IInv, AcceptedReachable, AddedIsListed
<1> QED
  BY <1>4, <1>5, <1>8 DEF IInv

LEMMA HelloKeeps ==
    ASSUME IInv, NEW c \in Conns, Hello(c)
    PROVE  IInv'
<1>1. /\ handler[c].at = "hello"
      /\ UNCHANGED <<row, missed, link, rejecting, sender, checking, restarts, displaced, dropped, adopted>>
  BY DEF Hello, history
<1>2. /\ handler \in [Conns -> Handlers] /\ TypeOK /\ HandlerInv /\ ~handler[c].member
      /\ active # c /\ pend # c
  BY <1>1 DEF IInv, TypeOK, Handlers, HandlerInv
<1>3. ASSUME Found(handler[c].way), active' = None, UNCHANGED pend,
             handler' = [handler EXCEPT ![c].member = TRUE, ![c].old = active,
                                        ![c].at = IF active = None THEN "accept" ELSE "close"]
      PROVE  IInv'
  <2>1. /\ handler' \in [Conns -> Handlers]
        /\ handler'[c].member /\ handler'[c].old = active
        /\ handler'[c].at = IF active = None THEN "accept" ELSE "close"
        /\ \A d \in Conns \ {c} : handler'[d] = handler[d]
    <3> DEFINE place == IF active = None THEN "accept" ELSE "close"
               h == [at |-> place, way |-> handler[c].way, member |-> TRUE, old |-> active]
    <3>1. active \in Conns \cup {None} /\ place \in Steps
      BY <1>2 DEF TypeOK, Steps
    <3> HIDE DEF place
    <3>2. handler' = [handler EXCEPT ![c].member = TRUE, ![c].old = active, ![c].at = place]
      BY <1>3 DEF place
    <3>3. handler'[c] = h /\ \A d \in Conns \ {c} : handler'[d] = handler[d]
      BY <1>2, <3>2 DEF Handlers
    <3>4. h \in Handlers
      BY <1>2, <3>1 DEF Handlers
    <3>5. handler' = [d \in Conns |-> handler'[d]]
      BY <1>2, <3>2
    <3>6. handler' \in [Conns -> Handlers]
      BY <1>2, <3>3, <3>4, <3>5
    <3> QED
      BY <3>3, <3>6 DEF place
  <2>2. TypeOK'
    BY <1>1, <1>2, <1>3, <2>1 DEF TypeOK, Handlers
  <2>3. HandlerInv' /\ HandedOver'
    <3>1. row.kind # "none" /\ (active # None => active \in Conns /\ link[active] # "new")
      BY <1>2, <1>3 DEF Found, TypeOK, HandlerInv
    <3> QED
      BY <1>1, <1>2, <1>3, <2>1, <3>1 DEF HandlerInv, HandedOver
  <2>4. \A b : Closing(b) => Closing(b)'
    BY <1>1, <2>1, ClosingStays
  <2>5. \A b : b = active /\ b # None => Closing(b)'
    BY <2>1 DEF Closing
  <2>6. AcceptedReachable' /\ AddedIsListed'
    BY <1>1, <1>2, <1>3, <2>1, <2>4, <2>5 DEF IInv, AcceptedReachable, AddedIsListed
  <2> QED
    BY <2>2, <2>3, <2>6 DEF IInv
<1>4. ASSUME Goes(c, "accept"), UNCHANGED <<active, pend>>
      PROVE  IInv'
  <2>1. /\ handler' \in [Conns -> Handlers]
        /\ ~handler'[c].member /\ handler'[c].at = "accept"
        /\ \A d \in Conns \ {c} : handler'[d] = handler[d]
    BY <1>1, <1>2, <1>4 DEF Goes, TypeOK, Handlers, Steps
  <2>2. TypeOK'
    BY <1>1, <1>2, <1>4, <2>1 DEF TypeOK, Handlers
  <2>3. HandlerInv' /\ HandedOver'
    BY <1>1, <1>2, <1>4, <2>1 DEF IInv, HandlerInv, HandedOver
  <2>4. \A b : Closing(b) => Closing(b)'
    BY <1>1, <2>1, ClosingStays
  <2>5. AcceptedReachable' /\ AddedIsListed'
    BY <1>1, <1>4, <2>1, <2>4 DEF IInv, AcceptedReachable, AddedIsListed
  <2> QED
    BY <2>2, <2>3, <2>5 DEF IInv
<1>5. ASSUME AddPending(c), UNCHANGED active,
             handler' = [handler EXCEPT ![c].old = pend,
                                        ![c].at = IF pend = None THEN "greet" ELSE "close"]
      PROVE  IInv'
  BY <1>1, <1>2, <1>5, AddKeeps
<1> QED
  BY <1>1, <1>3, <1>4, <1>5 DEF Hello

\* The old connection is closed: nobody needs it any more.
LEMMA CloseOldKeeps ==
    ASSUME IInv, NEW c \in Conns, CloseOld(c)
    PROVE  IInv'
<1> DEFINE b == handler[c].old
           place == IF handler[c].member THEN "accept" ELSE "greet"
<1>1. /\ handler[c].at = "close" /\ link' = [link EXCEPT ![b] = "cut"]
      /\ handler' = [handler EXCEPT ![c].old = None, ![c].at = place]
      /\ UNCHANGED <<row, missed, active, pend, rejecting, sender, checking, restarts, displaced, dropped, adopted>>
  BY DEF CloseOld, host, history
<1>2. /\ handler \in [Conns -> Handlers] /\ TypeOK /\ HandlerInv
      /\ link \in [Conns -> {"new", "up", "cut"}]
  BY DEF IInv, TypeOK, Handlers
<1>3. b \in Conns /\ link[b] # "new"
  BY <1>1, <1>2 DEF HandlerInv
<1>4. /\ handler' \in [Conns -> Handlers]
      /\ handler'[c].at = place /\ handler'[c].member = handler[c].member
      /\ \A d \in Conns \ {c} : handler'[d] = handler[d]
  BY <1>1, <1>2 DEF Handlers, Steps
<1>5. /\ link' \in [Conns -> {"new", "up", "cut"}] /\ link'[b] = "cut"
      /\ \A d \in Conns \ {b} : link'[d] = link[d]
  BY <1>1, <1>2, <1>3
<1>6. TypeOK'
  BY <1>1, <1>2, <1>3, <1>4, <1>5 DEF TypeOK, Handlers
<1>7. HandlerInv' /\ HandedOver'
  BY <1>1, <1>2, <1>3, <1>4, <1>5 DEF IInv, HandlerInv, HandedOver
<1>8. \A d : Closing(d) => Closing(d)' \/ d = b
  BY <1>4 DEF Closing
<1>9. AcceptedReachable' /\ AddedIsListed'
  BY <1>1, <1>4, <1>5, <1>8 DEF IInv, AcceptedReachable, AddedIsListed
<1> QED
  BY <1>6, <1>7, <1>9 DEF IInv

\* A handler goes on, and neither the host nor the list is changed.
LEMMA GoesKeeps ==
    ASSUME IInv, NEW c \in Conns, handler[c].at \notin {"none", "close"},
           NEW place \in {"loop", "ended"}, Goes(c, place),
           place = "loop" => handler[c].at \in {"welcome", "greet"},
           UNCHANGED <<row, missed, active, pend, link, rejecting, sender, checking, restarts, displaced, dropped,
                       adopted>>
    PROVE  IInv'
<1>1. TypeOK /\ HandlerInv
  BY DEF IInv
<1>2. /\ handler' \in [Conns -> Handlers]
      /\ handler'[c].at = place /\ handler'[c].member = handler[c].member
      /\ \A d \in Conns \ {c} : handler'[d] = handler[d]
  BY <1>1 DEF Goes, TypeOK, Handlers, Steps
<1>3. TypeOK'
  BY <1>1, <1>2 DEF TypeOK, Handlers
<1>4. HandlerInv' /\ HandedOver'
  BY <1>1, <1>2 DEF IInv, HandlerInv, HandedOver
<1>5. \A b : Closing(b) => Closing(b)'
  BY <1>2, ClosingStays
<1>6. AcceptedReachable' /\ AddedIsListed'
  BY <1>1, <1>2, <1>5 DEF IInv, HandlerInv, AcceptedReachable, AddedIsListed
<1> QED
  BY <1>3, <1>4, <1>6 DEF IInv

LEMMA AcceptKeeps ==
    ASSUME IInv, NEW c \in Conns, Accept(c)
    PROVE  IInv'
<1>1. handler[c].at = "accept" /\ UNCHANGED <<link, rejecting, sender, checking, restarts, dropped, adopted>>
  BY DEF Accept
<1>2. /\ TypeOK /\ HandlerInv /\ active # c /\ pend # c
  BY <1>1 DEF IInv, HandlerInv
<1>3. ASSUME handler[c].member, active' = c, SetOnline(TRUE), Goes(c, "welcome"), UNCHANGED pend,
             displaced' = IF active \in {None, c} THEN displaced ELSE displaced \cup {active}
      PROVE  IInv'
  <2>1. /\ handler' \in [Conns -> Handlers]
        /\ handler'[c].at = "welcome" /\ handler'[c].member
        /\ \A d \in Conns \ {c} : handler'[d] = handler[d]
    BY <1>1, <1>2, <1>3 DEF Goes, TypeOK, Handlers, Steps
  <2>2. row.kind # "none" /\ row \in Rows
    BY <1>2, <1>3 DEF HandlerInv, TypeOK
  <2>3. /\ row' \in Rows
        /\ row'.kind = row.kind /\ row'.online /\ missed' \in BOOLEAN
    BY <1>3, <2>2, OnlineIs
  <2>4. displaced \subseteq displaced' /\ displaced' \subseteq Conns /\ active \in displaced' \cup {None}
    BY <1>2, <1>3 DEF TypeOK
  <2>5. TypeOK'
    BY <1>1, <1>2, <1>3, <2>1, <2>2, <2>3, <2>4 DEF TypeOK, Handlers
  <2>6. HandlerInv' /\ HandedOver'
    BY <1>1, <1>2, <1>3, <2>1, <2>2, <2>3 DEF HandlerInv, HandedOver
  <2>7. \A b : Closing(b) => Closing(b)'
    BY <1>1, <2>1, ClosingStays
  <2>8. AcceptedReachable' /\ AddedIsListed'
    BY <1>1, <1>3, <2>1, <2>3, <2>4, <2>7 DEF IInv, AcceptedReachable, AddedIsListed
  <2> QED
    BY <2>5, <2>6, <2>8 DEF IInv
<1>4. CASE /\ ~handler[c].member /\ AddPending(c) /\ UNCHANGED <<host, displaced>>
           /\ handler' = [handler EXCEPT ![c].old = pend,
                                         ![c].at = IF pend = None THEN "greet" ELSE "close"]
  BY <1>1, <1>4, AddKeeps DEF host
<1>5. CASE Give(c) /\ UNCHANGED <<host, pend, displaced>>
  BY <1>1, <1>5, GoesKeeps DEF Give, host
<1> QED
  BY <1>3, <1>4, <1>5 DEF Accept

LEMMA WelcomeKeeps ==
    ASSUME IInv, NEW c \in Conns, Welcome(c)
    PROVE  IInv'
  BY GoesKeeps DEF Welcome, Give, host, history

\* The end of a handler that has a record or an entry: those of others are displaced.
LEMMA EndKeeps ==
    ASSUME IInv, NEW c \in Conns, handler[c].at \in {"greet", "loop"}, Goes(c, "ended"),
           link' \in [Conns -> {"new", "up", "cut"}],
           \A d \in Conns : d # c => link'[d] = link[d], link'[c] = "cut",
           UNCHANGED <<rejecting, sender, checking, restarts, adopted>>,
           \/ DisconnectHost(c) /\ UNCHANGED <<pend, dropped>>
           \/ RemovePending(c) /\ UNCHANGED <<host, displaced>>
    PROVE  IInv'
<1>1. /\ TypeOK /\ HandlerInv /\ row \in Rows
  BY DEF IInv, TypeOK
<1>2. /\ handler' \in [Conns -> Handlers]
      /\ handler'[c].at = "ended" /\ handler'[c].member = handler[c].member
      /\ \A d \in Conns \ {c} : handler'[d] = handler[d]
  BY <1>1 DEF Goes, TypeOK, Handlers, Steps
<1>3. /\ row' \in Rows /\ missed' \in BOOLEAN
      /\ row'.kind = row.kind /\ (row'.kind = "none" => ~row'.online /\ row'.heard = "never")
      /\ active' \in {active, None} /\ pend' \in {pend, None}
      /\ displaced \subseteq displaced' /\ displaced' \subseteq Conns
      /\ dropped \subseteq dropped' /\ dropped' \subseteq Conns
      /\ \/ active' = active /\ row' = row /\ missed' = missed
         \/ active' = None /\ active \in displaced' \cup {c, None}
      /\ pend' = pend \/ pend \in dropped' \cup {c, None}
  <2>1. CASE DisconnectHost(c) /\ UNCHANGED <<pend, dropped>>
    BY <1>1, <2>1, DisconnectIs DEF TypeOK
  <2>2. CASE RemovePending(c) /\ UNCHANGED <<host, displaced>>
    BY <1>1, <2>2, RemoveIs DEF TypeOK, host
  <2> QED
    BY <2>1, <2>2
<1>4. TypeOK'
  BY <1>1, <1>2, <1>3 DEF TypeOK, Handlers
<1>5. HandlerInv' /\ HandedOver'
  BY <1>1, <1>2, <1>3 DEF IInv, HandlerInv, HandedOver, TypeOK
<1>6. \A b : Closing(b) => Closing(b)'
  BY <1>2, ClosingStays
<1>7. AcceptedReachable'
  BY <1>2, <1>3, <1>6 DEF IInv, AcceptedReachable
<1>8. AddedIsListed'
  BY <1>2, <1>3, <1>6 DEF IInv, AddedIsListed
<1> QED
  BY <1>4, <1>5, <1>7, <1>8 DEF IInv

LEMMA GreetKeeps ==
    ASSUME IInv, NEW c \in Conns, Greet(c)
    PROVE  IInv'
<1>1. handler[c].at = "greet" /\ UNCHANGED <<host, rejecting, sender, checking, restarts, displaced, adopted>>
  BY DEF Greet
<1>2. link \in [Conns -> {"new", "up", "cut"}]
  BY DEF IInv, TypeOK
<1>3. CASE Goes(c, "loop") /\ UNCHANGED <<pend, link, dropped>>
  BY <1>1, <1>3, GoesKeeps DEF host
<1>4. CASE Give(c) /\ RemovePending(c) /\ UNCHANGED link
  BY <1>1, <1>2, <1>4, EndKeeps DEF Give
<1>5. CASE Goes(c, "ended") /\ RemovePending(c) /\ link' = [link EXCEPT ![c] = "cut"]
  BY <1>1, <1>2, <1>5, EndKeeps
<1> QED
  BY <1>3, <1>4, <1>5 DEF Greet

LEMMA LeaveKeeps ==
    ASSUME IInv, NEW c \in Conns, Leave(c)
    PROVE  IInv'
<1>1. link \in [Conns -> {"new", "up", "cut"}]
  BY DEF IInv, TypeOK
<1> QED
  BY <1>1, EndKeeps DEF Leave

-----------------------------------------------------------------------------
(* Heartbeats, routes, the scheduler, senders, and the process. *)

\* The row is written, its kind and the registries are left.
LEMMA RowKeeps ==
    ASSUME IInv, row' \in Rows, row'.kind = row.kind, row.kind # "none",
           missed' \in BOOLEAN, row'.online \/ missed' \/ (~row.online /\ ~missed),
           checking' \in BOOLEAN,
           UNCHANGED <<active, pend, link, handler, rejecting, sender, restarts, history>>
    PROVE  IInv'
<1>1. UNCHANGED <<displaced, dropped, adopted>>
  BY DEF history
<1>2. TypeOK'
  BY <1>1 DEF IInv, TypeOK
<1>3. HandlerInv' /\ HandedOver'
  BY DEF IInv, HandlerInv, HandedOver
<1>4. AcceptedReachable' /\ AddedIsListed'
  BY <1>1 DEF IInv, AcceptedReachable, AddedIsListed, Closing
<1> QED
  BY <1>2, <1>3, <1>4 DEF IInv

LEMMA HeartbeatKeeps ==
    ASSUME IInv, NEW c \in Conns, Heartbeat(c)
    PROVE  IInv'
<1>1. row.kind # "none" /\ row \in Rows /\ checking \in BOOLEAN
  BY DEF IInv, TypeOK, HandlerInv, Heartbeat
<1>2. row' \in Rows /\ row'.kind = row.kind /\ row'.online /\ missed' = FALSE
  BY <1>1 DEF Heartbeat, SetOnline, Rows
<1> QED
  BY <1>1, <1>2, RowKeeps DEF Heartbeat

LEMMA ElapseKeeps ==
    ASSUME IInv, Elapse
    PROVE  IInv'
<1>1. row.kind # "none" /\ row \in Rows /\ checking \in BOOLEAN /\ missed \in BOOLEAN
  BY DEF IInv, TypeOK, Elapse
<1>2. row' \in Rows /\ row'.kind = row.kind /\ row'.online = row.online
  BY <1>1 DEF Elapse, Rows
<1> QED
  BY <1>1, <1>2, RowKeeps DEF Elapse

LEMMA CheckKeeps ==
    ASSUME IInv, CheckOfflineHosts
    PROVE  IInv'
<1>1. row.kind # "none" /\ row \in Rows /\ missed \in BOOLEAN
  BY DEF IInv, TypeOK, CheckOfflineHosts
<1>2. UNCHANGED <<row, missed, active>> /\ checking' \in BOOLEAN
  BY DEF CheckOfflineHosts, host
<1> QED
  BY <1>1, <1>2, RowKeeps DEF CheckOfflineHosts

\* A host the check has read is a row, and rows do not go.
LEMMA MarkKeeps ==
    ASSUME IInv, MarkOffline
    PROVE  IInv'
<1>1. row.kind # "none" /\ row \in Rows
  BY DEF IInv, TypeOK, MarkOffline
<1>2. row' \in Rows /\ row'.kind = row.kind /\ missed' = TRUE /\ checking' = FALSE
  BY <1>1 DEF MarkOffline, Rows
<1> QED
  BY <1>1, <1>2, RowKeeps DEF MarkOffline

\* The connection of the agent that waits becomes that of the host.
LEMMA ApproveKeeps ==
    ASSUME IInv, Approve
    PROVE  IInv'
<1>1. /\ pend # None /\ row.kind = "none" /\ row' = [kind |-> "id", online |-> TRUE, heard |-> "never"]
      /\ active' = pend /\ adopted' = adopted \cup {pend} /\ pend' = None
      /\ UNCHANGED <<missed, link, handler, rejecting, sender, checking, restarts, displaced,
                     dropped>>
  BY DEF Approve
<1>2. row' \in Rows /\ row'.kind = "id" /\ row'.online
  BY <1>1 DEF Rows
<1>3. TypeOK /\ HandlerInv /\ active = None /\ pend \in Conns
  BY <1>1 DEF IInv, TypeOK
<1>4. TypeOK'
  BY <1>1, <1>2, <1>3 DEF TypeOK
<1>5. HandlerInv' /\ HandedOver'
  BY <1>1, <1>2, <1>3 DEF HandlerInv, HandedOver
<1>6. AcceptedReachable' /\ AddedIsListed'
  BY <1>1, <1>2, <1>3 DEF IInv, HandlerInv, AcceptedReachable, AddedIsListed, Closing
<1> QED
  BY <1>4, <1>5, <1>6 DEF IInv

LEMMA RejectKeeps ==
    ASSUME IInv, Reject
    PROVE  IInv'
<1>1. pend \in Conns /\ link[pend] # "new"
  BY DEF IInv, TypeOK, HandlerInv, Reject
<1> QED
  BY <1>1, CutOneKeeps DEF Reject

LEMMA RejectRemoveKeeps ==
    ASSUME IInv, RejectRemove
    PROVE  IInv'
<1>1. /\ rejecting' = FALSE /\ pend' = None
      /\ dropped' = IF pend # None /\ link[pend] = "up" THEN dropped \cup {pend} ELSE dropped
      /\ UNCHANGED <<row, missed, active, link, handler, sender, checking, restarts, displaced, adopted>>
  BY DEF RejectRemove, host
<1>2. TypeOK' /\ dropped \subseteq dropped'
  BY <1>1 DEF IInv, TypeOK
<1>3. HandlerInv' /\ HandedOver'
  BY <1>1 DEF IInv, TypeOK, HandlerInv, HandedOver
<1>4. AcceptedReachable' /\ AddedIsListed'
  BY <1>1, <1>2 DEF IInv, AcceptedReachable, AddedIsListed, Closing
<1> QED
  BY <1>2, <1>3, <1>4 DEF IInv

LEMMA SendFailsKeeps ==
    ASSUME IInv, SendFails
    PROVE  IInv'
<1>1. /\ active # None /\ link[active] = "cut" /\ sender' = active
      /\ UNCHANGED <<row, missed, active, pend, link, handler, rejecting, checking, restarts, displaced, dropped, adopted>>
  BY DEF SendFails, host, history
<1>2. TypeOK'
  BY <1>1 DEF IInv, TypeOK
<1>3. HandlerInv' /\ HandedOver'
  BY <1>1 DEF IInv, HandlerInv, HandedOver
<1>4. AcceptedReachable' /\ AddedIsListed'
  BY <1>1 DEF IInv, AcceptedReachable, AddedIsListed, Closing
<1> QED
  BY <1>2, <1>3, <1>4 DEF IInv

\* The connection on which the message failed is cut, so what it takes away from itself
\* it does not need.
LEMMA SendAgainKeeps ==
    ASSUME IInv, SendAgain
    PROVE  IInv'
<1>1. /\ sender # None /\ DisconnectHost(sender) /\ sender' = None
      /\ UNCHANGED <<pend, link, handler, rejecting, checking, restarts, dropped, adopted>>
  BY DEF SendAgain
<1>2. TypeOK /\ HandlerInv /\ sender \in Conns /\ link[sender] = "cut"
  BY <1>1 DEF IInv, TypeOK, HandlerInv
<1>3. /\ row' \in Rows /\ missed' \in BOOLEAN
      /\ row'.kind = row.kind /\ (row'.kind = "none" => ~row'.online /\ row'.heard = "never")
      /\ active' = None
      /\ displaced \subseteq displaced' /\ displaced' \subseteq Conns
      /\ active \in displaced' \cup {sender, None}
  BY <1>1, <1>2, DisconnectIs
<1>4. TypeOK'
  BY <1>1, <1>2, <1>3 DEF TypeOK
<1>5. HandlerInv' /\ HandedOver'
  BY <1>1, <1>2, <1>3 DEF HandlerInv, HandedOver, TypeOK
<1>6. AcceptedReachable' /\ AddedIsListed'
  BY <1>1, <1>2, <1>3 DEF IInv, AcceptedReachable, AddedIsListed, Closing
<1> QED
  BY <1>4, <1>5, <1>6 DEF IInv

\* A restart leaves no link up and no handler alive.
LEMMA RestartKeeps ==
    ASSUME IInv, Restart
    PROVE  IInv'
<1>1. /\ restarts < MaxRestarts /\ restarts' = restarts + 1
      /\ active' = None /\ pend' = None /\ rejecting' = FALSE /\ sender' = None
      /\ checking' = FALSE
      /\ link' = [c \in Conns |-> IF link[c] = "up" THEN "cut" ELSE link[c]]
      /\ handler' = [c \in Conns |-> IF handler[c].at = "none" THEN handler[c]
                                     ELSE [handler[c] EXCEPT !.at = "ended"]]
      /\ UNCHANGED <<row, missed, displaced, dropped, adopted>>
  BY DEF Restart, history
<1>2. TypeOK /\ HandlerInv /\ handler \in [Conns -> Handlers]
  BY DEF IInv, TypeOK, Handlers
<1>3. /\ handler' \in [Conns -> Handlers]
      /\ \A c \in Conns : /\ handler[c].at = "none" => handler'[c] = handler[c]
                          /\ handler[c].at # "none" => handler'[c].at = "ended"
                          /\ handler'[c].member = handler[c].member
  BY <1>1, <1>2 DEF Handlers, Steps
<1>4. /\ link' \in [Conns -> {"new", "cut"}]
      /\ \A c \in Conns : link'[c] = "new" <=> link[c] = "new"
  BY <1>1, <1>2 DEF TypeOK
<1>5. TypeOK'
  <2>1. \A c \in Conns : handler'[c].at \in {"none"} <=> link'[c] = "new"
    BY <1>2, <1>3, <1>4 DEF TypeOK
  <2>2. restarts' \in 0..MaxRestarts
    BY <1>1, <1>2 DEF TypeOK
  <2>3. link' \in [Conns -> {"new", "up", "cut"}]
    BY <1>4
  <2>4. /\ row' \in Rows
        /\ row'.kind = "none" => ~row'.online /\ row'.heard = "never"
        /\ missed' \in BOOLEAN
    BY <1>1, <1>2 DEF TypeOK
  <2>5. (displaced \cup dropped \cup adopted \subseteq Conns)'
    BY <1>1, <1>2 DEF TypeOK
  <2> QED
    BY <1>1, <1>3, <2>1, <2>2, <2>3, <2>4, <2>5 DEF TypeOK, Handlers
<1>6. HandlerInv' /\ HandedOver'
  BY <1>1, <1>2, <1>3 DEF HandlerInv, HandedOver
<1>7. AcceptedReachable' /\ AddedIsListed'
  BY <1>4 DEF AcceptedReachable, AddedIsListed
<1> QED
  BY <1>5, <1>6, <1>7 DEF IInv

-----------------------------------------------------------------------------
(* The theorems. *)

LEMMA InitKeeps == Init => IInv
<1> SUFFICES ASSUME Init PROVE IInv
  OBVIOUS
<1>1. TypeOK
  <2>1. handler \in [Conns -> Handlers] /\ \A c \in Conns : handler[c].at = "none"
    BY DEF Init, NoHandler, Handlers, Steps
  <2>2. /\ row \in Rows
        /\ row.kind = "none" => ~row.online /\ row.heard = "never"
    BY DEF Init, Rows
  <2>3. link \in [Conns -> {"new", "up", "cut"}] /\ \A c \in Conns : link[c] = "new"
    BY DEF Init
  <2>4. displaced \cup dropped \cup adopted \subseteq Conns /\ restarts \in 0..MaxRestarts
    BY DEF Init
  <2> QED
    BY <2>1, <2>2, <2>3, <2>4 DEF Init, TypeOK, Handlers
<1>2. HandlerInv /\ HandedOver /\ AcceptedReachable /\ AddedIsListed
  BY DEF Init, NoHandler, HandlerInv, HandedOver, AcceptedReachable, AddedIsListed
<1> QED
  BY <1>1, <1>2 DEF IInv

LEMMA StepKeeps == IInv /\ [Next]_vars => IInv'
<1> SUFFICES ASSUME IInv, [Next]_vars PROVE IInv'
  OBVIOUS
<1>1. ASSUME NEW c \in Conns, Handler(c) PROVE IInv'
  BY <1>1, HelloKeeps, CloseOldKeeps, AcceptKeeps, WelcomeKeeps, GreetKeeps, LeaveKeeps DEF Handler
<1>2. ASSUME NEW c \in Conns, Cut(c) PROVE IInv'
  BY <1>2, CutOneKeeps DEF Cut, IInv, TypeOK
<1>3. ASSUME NEW c \in Conns, Heartbeat(c) PROVE IInv'
  BY <1>3, HeartbeatKeeps
<1>4. ASSUME NEW c \in Conns, NEW w \in Ways, Dial(c, w) PROVE IInv'
  BY <1>4, DialKeeps
<1>5. CASE UNCHANGED vars
  <2>1. IInv /\ UNCHANGED <<row, missed, active, pend, link, handler, rejecting, sender, checking, restarts,
                            displaced, dropped, adopted>>
    BY <1>5 DEF vars, host, history
  <2> QED
    BY <2>1 DEF IInv, TypeOK, HandlerInv, HandedOver, AcceptedReachable, AddedIsListed, Closing
<1> QED
  BY <1>1, <1>2, <1>3, <1>4, <1>5, ApproveKeeps, RejectKeeps, RejectRemoveKeeps, ElapseKeeps, CheckKeeps,
     MarkKeeps, SendFailsKeeps, SendAgainKeeps, RestartKeeps DEF Next

\* Every state that is reached satisfies the inductive invariant.
THEOREM Invariance == Spec => []IInv
  BY InitKeeps, StepKeeps, PTL DEF Spec

\* The row of the host, both registries and the handlers keep their types.
THEOREM TypeCorrect == Spec => []TypeOK
<1>1. IInv => TypeOK
  BY DEF IInv
<1> QED
  BY <1>1, Invariance, PTL

\* An agent that is served as a member can be sent deployments and is shown online.
THEOREM Reachable == Spec => []MemberReachable
<1>1. IInv => MemberReachable
  BY DEF IInv, AcceptedReachable, MemberReachable, Live
<1> QED
  BY <1>1, Invariance, PTL

\* An agent that waits for its approval is on the list.
THEOREM Listed == Spec => []WaitingIsListed
<1>1. IInv => WaitingIsListed
  BY DEF IInv, AddedIsListed, WaitingIsListed, Live
<1> QED
  BY <1>1, Invariance, PTL

\* No connection is both on the pending list and the host's.
THEOREM Transferred == Spec => []HandedOver
<1>1. IInv => HandedOver
  BY DEF IInv
<1> QED
  BY <1>1, Invariance, PTL
=============================================================================
