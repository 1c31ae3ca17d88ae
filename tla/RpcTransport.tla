----------------------------- MODULE RpcTransport -----------------------------
(***************************************************************************)
(* The calls of one window across its reloads: the client of the page      *)
(* (renderer/src/rpc-client.ts), which is built once the preload has       *)
(* attached its bridge, and the main process's end of it.  The server      *)
(* keeps state per client, and each page numbers its requests from zero,   *)
(* so every load of a page is to be a client of its own.                   *)
(***************************************************************************)
EXTENDS Naturals, Sequences, FiniteSets

CONSTANTS
  MaxLoads,    \* bound on the pages loaded into the window
  MaxRequests, \* bound on the requests of one page
  LateSends    \* whether a page may still send when its reload has begun

VARIABLES
  page,         \* which load of the window this is
  reloading,    \* did-start-loading was emitted, and the old page is still there
  bridge,       \* the preload of this page has attached window.arc
  built,        \* its client: "none", "waiting" for the bridge, "ready", "broken"
  calls,        \* the calls its code has made
  sent,         \* the requests of this page, a call each
  got,          \* the replies this page received through its client, as [client, id, by]
  wired,        \* the window's life cycle is listened to
  clientIdByWc, \* the window's logical client, 0 when there is none
  nextClientId,
  late,         \* the last page to be reloaded sent something after its reload began
  mailbox,      \* messages on their way to the server: [client, id, by]
  disconnects,  \* clients to disconnect
  handlers      \* the server's running handlers: [client, id, by]

vars == <<page, reloading, bridge, built, calls, sent, got, wired, clientIdByWc, nextClientId, late, mailbox, disconnects, handlers>>
clientVars == <<bridge, built, calls>>
pageVars == <<page, reloading, clientVars, sent, got>>
windowVars == <<wired, clientIdByWc, nextClientId, late>>
serverVars == <<mailbox, disconnects, handlers>>

Init ==
  /\ page = 1 /\ reloading = FALSE /\ sent = 0 /\ got = {}
  /\ bridge = FALSE /\ built = "none" /\ calls = 0
  /\ wired = FALSE /\ clientIdByWc = 0 /\ nextClientId = 1 /\ late = FALSE
  /\ mailbox = <<>> /\ disconnects = <<>> /\ handlers = {}

-----------------------------------------------------------------------------
(* The client of the page.                                                 *)

\* rpc: the first call starts to build the client that all of them wait for; if
\* that failed, it is not tried again, and every call of the page fails.
Call ==
  /\ calls < MaxRequests /\ calls' = calls + 1
  /\ built' = IF built = "none" THEN "waiting" ELSE built
  /\ UNCHANGED <<page, reloading, bridge, sent, got, windowVars, serverVars>>

\* contextBridge, late as it may be.
Attach ==
  /\ ~bridge /\ bridge' = TRUE
  /\ UNCHANGED <<page, reloading, built, calls, sent, got, windowVars, serverVars>>

\* waitForBridge resolves, or gives up after its five seconds.
Build ==
  /\ built = "waiting" /\ built' = IF bridge THEN "ready" ELSE "broken"
  /\ UNCHANGED <<page, reloading, bridge, calls, sent, got, windowVars, serverVars>>

-----------------------------------------------------------------------------
(* The window.                                                             *)

\* onMessage: the first message wires the life cycle, and the first after a
\* retirement allocates a client.
Send ==
  /\ built = "ready" /\ sent < calls /\ sent' = sent + 1 /\ (reloading => LateSends)
  /\ wired' = TRUE
  /\ IF clientIdByWc = 0
     THEN clientIdByWc' = nextClientId /\ nextClientId' = nextClientId + 1
     ELSE UNCHANGED <<clientIdByWc, nextClientId>>
  /\ late' = (late \/ reloading)
  /\ mailbox' = Append(mailbox, [client |-> clientIdByWc', id |-> sent', by |-> page])
  /\ UNCHANGED <<page, reloading, clientVars, got, disconnects, handlers>>

\* retire, of the client if there is one.
Retire ==
  /\ clientIdByWc' = 0
  /\ disconnects' = IF clientIdByWc = 0 THEN disconnects ELSE Append(disconnects, clientIdByWc)

\* A reload starts, which the window tells once it is wired.
StartLoading ==
  /\ page < MaxLoads /\ ~reloading /\ reloading' = TRUE /\ late' = FALSE /\ got' = {}
  /\ IF wired THEN Retire ELSE UNCHANGED <<clientIdByWc, disconnects>>
  /\ UNCHANGED <<page, clientVars, sent, wired, nextClientId, mailbox, handlers>>

\* The new page takes the place of the old, and counts from zero.
Load ==
  /\ reloading /\ reloading' = FALSE /\ page' = page + 1 /\ sent' = 0 /\ got' = {}
  /\ bridge' = FALSE /\ built' = "none" /\ calls' = 0
  /\ UNCHANGED <<windowVars, serverVars>>

-----------------------------------------------------------------------------
(* The server.                                                             *)

\* The receive loop: a request with the id of a running one only interrupts it.
Receive ==
  /\ mailbox # <<>> /\ mailbox' = Tail(mailbox)
  /\ LET m == Head(mailbox)
         same == {h \in handlers : h.client = m.client /\ h.id = m.id}
     IN handlers' = IF same = {} THEN handlers \cup {m} ELSE handlers \ same
  /\ UNCHANGED <<pageVars, windowVars, disconnects>>

\* A disconnected client's handlers are interrupted.
Disconnect ==
  /\ disconnects # <<>> /\ disconnects' = Tail(disconnects)
  /\ handlers' = {h \in handlers : h.client # Head(disconnects)}
  /\ UNCHANGED <<pageVars, windowVars, mailbox>>

\* send: the reply goes to the page that the window shows, if the client still is
\* the window's.
Reply(h) ==
  /\ handlers' = handlers \ {h}
  /\ got' = IF h.client = clientIdByWc THEN got \cup {h} ELSE got
  /\ UNCHANGED <<page, reloading, clientVars, sent, windowVars, mailbox, disconnects>>

Next ==
  \/ Call \/ Attach \/ Build \/ Send \/ StartLoading \/ Load \/ Receive \/ Disconnect \/ \E h \in handlers : Reply(h)

Spec == Init /\ [][Next]_vars
FairSpec == Spec /\ WF_vars(Build) /\ WF_vars(built = "ready" /\ Send) /\ WF_vars(Receive) /\ WF_vars(Disconnect) /\ \A c \in 1..MaxLoads, i \in 1..MaxRequests, b \in 1..MaxLoads :
                      WF_vars(LET h == [client |-> c, id |-> i, by |-> b] IN h \in handlers /\ Reply(h))

-----------------------------------------------------------------------------

\* Unless the page before it sent something when its reload had begun, a page
\* shares its client with no other: every message, handler and reply of the
\* client is the page's own, however loads, messages, replies and disconnects
\* cross.
Shares(m) == m.client = clientIdByWc /\ m.by # page
OwnClient ==
  ~late => /\ ~\E m \in handlers \cup {mailbox[i] : i \in 1..Len(mailbox)} : Shares(m)
           /\ \A r \in got : r.by = page

\* And it is answered: call i of page p gets its reply, unless the page goes or the
\* bridge never came.
Answered ==
  \A i \in 1..MaxRequests, p \in 1..MaxLoads :
    (page = p /\ calls >= i) ~>
      (page # p \/ reloading \/ late \/ built = "broken" \/ \E r \in got : r.id = i /\ r.by = p)

\* "The reloaded client therefore always meets a server with zero prior state, so
\* its reset request ids can't collide."
MeetsZeroState == ~reloading => ~\E h \in handlers : Shares(h)
=============================================================================
