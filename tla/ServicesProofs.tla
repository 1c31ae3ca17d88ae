------------------------------ MODULE ServicesProofs ------------------------
(***************************************************************************)
(* What the services keep, for every value of their constants: first each  *)
(* on its own, then what the module that composes them says of all.        *)
(***************************************************************************)
EXTENDS Services, FiniteSetTheorems, WellFoundedInduction, TLAPS

-----------------------------------------------------------------------------
(* The socket of the hooks: ChannelIsUp.  The permit is taken exactly while *)
(* a launch binds; what a launch has bound and not yet registered is the    *)
(* only server that listens, but for those of launches that a reload cut    *)
(* short; and a quit leaves nothing to close behind.                        *)

SocketTypes ==
  /\ hookPc \in [Launches -> {"idle", "waits", "binds", "up", "failed"}]
  /\ mine \in [Launches -> Nat] /\ created \in Nat /\ closing = {}
  /\ cut \subseteq listening /\ listening \subseteq 1..created

\* Who has the permit, and what it has bound.
OneBinds ==
  /\ \A l \in Launches : hookPc[l] = "binds" => ~bindLock
  /\ \A l, k \in Launches : hookPc[l] = "binds" /\ hookPc[k] = "binds" => l = k
  /\ \A l \in Launches : mine[l] # 0 =>
       /\ hookPc[l] = "binds" /\ listening \ cut = {mine[l]} /\ node = mine[l]

\* The map has the server that listens at the path; while it has none, no launch
\* is up and nothing listens but what is about to be registered.
Registered ==
  /\ servers # 0 => /\ node = servers /\ listening \ cut = {servers}
                    /\ \A l \in Launches : hookPc[l] # "binds"
  /\ servers = 0 => /\ \A l \in Launches : hookPc[l] # "up"
                    /\ listening \subseteq cut \/ \E l \in Launches : mine[l] # 0

SocketInv == SocketTypes /\ OneBinds /\ Registered

LEMMA SocketStep ==
  ASSUME SocketInv, [Hooks!Next]_(Hooks!vars)
  PROVE  SocketInv'
<1> USE DEF SocketInv, SocketTypes, OneBinds, Registered, Hooks!Nobody, Hooks!NoNode
<1>1. ASSUME NEW l \in Launches, Hooks!Call(l)
      PROVE  SocketInv'
  BY <1>1 DEF Hooks!Call
<1>2. ASSUME NEW l \in Launches, Hooks!Enter(l)
      PROVE  SocketInv'
  BY Zenon, <1>2 DEF Hooks!Enter, Hooks!Permitted
<1>3. ASSUME NEW l \in Launches, Hooks!Bind(l)
      PROVE  SocketInv'
  <2>1. servers = 0 /\ listening \subseteq cut /\ hookPc[l] = "binds" /\ \A k \in Launches : k # l => hookPc[k] # "binds"
    BY <1>3 DEF Hooks!Bind
  <2>2. PICK new \in Nat : new = created + 1 /\ new # 0 /\ new \notin listening /\ 1..new = 1..created \cup {new}
    BY <1>3 DEF Hooks!Bind
  <2>3. /\ listening' = listening \cup {new} /\ node' = new /\ created' = new
        /\ mine' = [mine EXCEPT ![l] = new] /\ UNCHANGED <<hookPc, bindLock, servers, cut, closing>>
    BY <1>3, <2>2 DEF Hooks!Bind
  <2>4. listening' \ cut' = {new}
    BY <2>1, <2>2, <2>3
  <2>5. SocketTypes'
    BY <2>2, <2>3
  <2>6. OneBinds'
    BY <2>1, <2>2, <2>3, <2>4
  <2>7. Registered'
    BY <2>1, <2>2, <2>3, <2>4
  <2> QED BY <2>5, <2>6, <2>7
<1>4. ASSUME NEW l \in Launches, Hooks!BindInUse(l)
      PROVE  SocketInv'
  BY <1>4 DEF Hooks!BindInUse
<1>5. ASSUME NEW l \in Launches, Hooks!GiveUp(l)
      PROVE  SocketInv'
  BY <1>5 DEF Hooks!GiveUp
<1>6. ASSUME NEW l \in Launches, Hooks!Register(l)
      PROVE  SocketInv'
  BY <1>6 DEF Hooks!Register
<1>9. ASSUME NEW l \in Launches, Hooks!Interrupt(l)
      PROVE  SocketInv'
  <2>1. /\ hookPc' = [hookPc EXCEPT ![l] = "idle"] /\ mine' = [mine EXCEPT ![l] = 0]
        /\ bindLock' = (bindLock \/ hookPc[l] = "binds") /\ cut' = cut \cup ({mine[l]} \ {0})
        /\ hookPc[l] \in {"waits", "binds"} /\ UNCHANGED <<servers, listening, node, created, closing>>
    BY <1>9 DEF Hooks!Interrupt
  <2>2. CASE mine[l] = 0
    <3>1. cut' = cut
      BY <2>1, <2>2
    <3>2. Registered'
      BY <2>1, <2>2, <3>1
    <3> QED BY <2>1, <2>2, <3>1, <3>2
  <2>3. CASE mine[l] # 0
    <3>1. /\ hookPc[l] = "binds" /\ listening \ cut = {mine[l]} /\ servers = 0
          /\ \A k \in Launches : k # l => mine[k] = 0 /\ hookPc[k] # "binds"
      BY <2>3
    <3>2. cut' = cut \cup {mine[l]} /\ cut' = listening
      <4> HIDE DEF SocketInv, OneBinds, Registered
      <4>1. cut' = cut \cup {mine[l]}
        BY <2>1, <2>3
      <4>2. cut \subseteq listening
        BY DEF SocketInv, SocketTypes
      <4> QED BY <3>1, <4>1, <4>2
    <3>3. SocketTypes'
      BY <2>1, <3>2
    <3>4. OneBinds'
      BY <2>1, <3>1
    <3>5. Registered'
      BY <2>1, <3>1, <3>2
    <3> QED BY <3>3, <3>4, <3>5
  <2> QED BY <2>2, <2>3
<1>7. CASE Hooks!Quit \/ Hooks!Close \/ Hooks!Crash
  BY <1>7 DEF Hooks!Quit, Hooks!Close, Hooks!Crash, Hooks!Fresh
<1>8. CASE UNCHANGED Hooks!vars
  BY <1>8 DEF Hooks!vars
<1> QED BY <1>1, <1>2, <1>3, <1>4, <1>5, <1>6, <1>7, <1>8, <1>9 DEF Hooks!Next

\* A launch that was told the hooks' channel is up finds it up.
LEMMA UpChannels == Hooks!Spec => []Hooks!ChannelIsUp
<1>1. Hooks!Init => SocketInv
  BY DEF Hooks!Init, SocketInv, SocketTypes, OneBinds, Registered, Hooks!Nobody
<1>2. SocketInv => Hooks!ChannelIsUp
  BY DEF SocketInv, SocketTypes, Registered, Hooks!ChannelIsUp, Hooks!Nobody
<1> QED BY <1>1, <1>2, SocketStep, PTL DEF Hooks!Spec

-----------------------------------------------------------------------------
(* The window's transport: OwnClient.  A client is not given out twice, and *)
(* between the start of a reload and the first message after it the window  *)
(* has none.                                                                *)

Message == [client : Nat \ {0}, id : Nat, by : Nat]
OnTheWay == handlers \cup {mailbox[i] : i \in 1..Len(mailbox)}

TransportTypes ==
  /\ page \in Nat /\ sent \in Nat /\ mailbox \in Seq(Message) /\ handlers \subseteq Message
  /\ nextClientId \in Nat \ {0} /\ clientIdByWc \in Nat

OncePerPage ==
  /\ clientIdByWc < nextClientId /\ \A m \in OnTheWay : m.client < nextClientId
  /\ ~wired => clientIdByWc = 0
  /\ reloading /\ ~late => clientIdByWc = 0

TransportInv == TransportTypes /\ OncePerPage /\ Transport!OwnClient

LEMMA Posted ==
  ASSUME NEW S, NEW s \in Seq(S), NEW x \in S
  PROVE  /\ Append(s, x) \in Seq(S)
         /\ \A i \in 1..Len(Append(s, x)) :
              Append(s, x)[i] = x \/ (i \in 1..Len(s) /\ Append(s, x)[i] = s[i])
  OBVIOUS

LEMMA TakenUp ==
  ASSUME NEW S, NEW s \in Seq(S), s # <<>>
  PROVE  /\ Tail(s) \in Seq(S) /\ Head(s) \in S /\ 1 \in 1..Len(s) /\ Head(s) = s[1]
         /\ \A i \in 1..Len(Tail(s)) : i + 1 \in 1..Len(s) /\ Tail(s)[i] = s[i + 1]
  OBVIOUS

\* Most steps post nothing, and leave the window its client or take it away.
LEMMA NothingPosted ==
  ASSUME TransportInv,
         mailbox' \in Seq(Message), handlers' \subseteq handlers \cup {mailbox[i] : i \in 1..Len(mailbox)},
         {mailbox'[i] : i \in 1..Len(mailbox')} \subseteq {mailbox[i] : i \in 1..Len(mailbox)},
         page' \in Nat, sent' \in Nat, nextClientId' = nextClientId, wired' = wired,
         \/ clientIdByWc' = 0 /\ got' = {}
         \/ /\ clientIdByWc' = clientIdByWc /\ page' = page /\ reloading' = reloading /\ late' = late
            /\ \A r \in got' : r \in got \/ (r \in OnTheWay /\ r.client = clientIdByWc),
         reloading' /\ ~late' => clientIdByWc' = 0
  PROVE  TransportInv'
<1>1. /\ OnTheWay \subseteq Message /\ OnTheWay' \subseteq OnTheWay /\ handlers' \subseteq Message
      /\ \A m \in OnTheWay : m.client \in Nat \ {0}
  <2>1. OnTheWay \subseteq Message
    BY DEF TransportInv, TransportTypes, OnTheWay
  <2>2. OnTheWay' \subseteq OnTheWay
    BY DEF OnTheWay
  <2>3. \A m \in Message : m.client \in Nat \ {0}
    BY DEF Message
  <2> QED BY <2>1, <2>2, <2>3 DEF OnTheWay
<1>2. TransportTypes'
  BY <1>1 DEF TransportInv, TransportTypes
<1>3. OncePerPage'
  BY <1>1 DEF TransportInv, TransportTypes, OncePerPage
<1>4. ~late' => (\A m \in OnTheWay' : ~(m.client = clientIdByWc' /\ m.by # page'))
            /\ \A r \in got' : r.by = page'
  <2>1. ~late => (\A m \in OnTheWay : ~(m.client = clientIdByWc /\ m.by # page)) /\ \A r \in got : r.by = page
    BY DEF TransportInv, Transport!OwnClient, Transport!Shares, OnTheWay
  <2>2. CASE clientIdByWc' = 0 /\ got' = {}
    BY <1>1, <2>2
  <2>3. CASE clientIdByWc' # 0 \/ got' # {}
    BY <1>1, <2>1, <2>3
  <2> QED BY <2>2, <2>3
<1>5. Transport!OwnClient'
  BY <1>4 DEF Transport!OwnClient, Transport!Shares, OnTheWay
<1> QED BY <1>2, <1>3, <1>5 DEF TransportInv

LEMMA TransportStep ==
  ASSUME TransportInv, [Transport!Next]_(Transport!vars)
  PROVE  TransportInv'
<1>t. /\ page \in Nat /\ sent \in Nat /\ mailbox \in Seq(Message) /\ handlers \subseteq Message
      /\ nextClientId \in Nat \ {0} /\ clientIdByWc \in Nat /\ clientIdByWc < nextClientId
      /\ (~wired => clientIdByWc = 0) /\ (reloading /\ ~late => clientIdByWc = 0)
  BY DEF TransportInv, TransportTypes, OncePerPage
<1>1. CASE Transport!Call \/ Transport!Attach \/ Transport!Build
  BY <1>t, <1>1, NothingPosted
     DEF Transport!Call, Transport!Attach, Transport!Build, Transport!windowVars, Transport!serverVars
<1>2. CASE Transport!Send
  <2> DEFINE m == [client |-> clientIdByWc', id |-> sent', by |-> page]
  <2>1. /\ sent' = sent + 1 /\ mailbox' = Append(mailbox, m) /\ wired' = TRUE /\ late' = (late \/ reloading)
        /\ IF clientIdByWc = 0 THEN clientIdByWc' = nextClientId /\ nextClientId' = nextClientId + 1
           ELSE clientIdByWc' = clientIdByWc /\ nextClientId' = nextClientId
        /\ page' = page /\ reloading' = reloading /\ got' = got /\ handlers' = handlers
    BY <1>2 DEF Transport!Send, Transport!clientVars
  <2>2. /\ clientIdByWc' \in Nat \ {0} /\ nextClientId' \in Nat \ {0} /\ clientIdByWc' < nextClientId'
        /\ nextClientId <= nextClientId'
    BY <1>t, <2>1
  <2>3. m.client = clientIdByWc' /\ m.by = page /\ m \in Message
    BY <1>t, <2>1, <2>2 DEF Message
  <2> HIDE DEF m
  <2>4. /\ mailbox' \in Seq(Message)
        /\ \A x \in {mailbox'[i] : i \in 1..Len(mailbox')} :
             x = m \/ x \in {mailbox[i] : i \in 1..Len(mailbox)}
    BY <1>t, <2>1, <2>3, Posted
  <2>5. \A x \in OnTheWay : x.client \in Nat \ {0} /\ x.client < nextClientId
    <3>1. \A x \in Message : x.client \in Nat \ {0}
      BY DEF Message
    <3>2. OnTheWay \subseteq Message
      BY <1>t DEF OnTheWay
    <3> QED BY <3>1, <3>2 DEF TransportInv, OncePerPage
  <2>6. \A x \in OnTheWay' : x = m \/ x \in OnTheWay
    BY <2>1, <2>4 DEF OnTheWay
  <2>7. \A x \in OnTheWay' : x.client < nextClientId'
    BY <1>t, <2>2, <2>3, <2>5, <2>6
  <2>8. ~late => (\A x \in OnTheWay : ~(x.client = clientIdByWc /\ x.by # page)) /\ \A r \in got : r.by = page
    BY DEF TransportInv, Transport!OwnClient, Transport!Shares, OnTheWay
  <2>9. ~late' => (\A x \in OnTheWay' : ~(x.client = clientIdByWc' /\ x.by # page'))
              /\ \A r \in got' : r.by = page'
    <3> SUFFICES ASSUME ~late'
                 PROVE  /\ \A x \in OnTheWay' : x.client = clientIdByWc' => x.by = page
                        /\ \A r \in got : r.by = page
      BY <2>1
    <3>1. ~late
      BY <2>1
    <3>2. \A x \in OnTheWay : x.client = clientIdByWc' => x.by = page
      BY <1>t, <2>1, <2>5, <2>8, <3>1
    <3> QED BY <2>3, <2>6, <2>8, <3>1, <3>2
  <2>10. Transport!OwnClient'
    BY <2>9 DEF Transport!OwnClient, Transport!Shares, OnTheWay
  <2>11. TransportTypes' /\ OncePerPage'
    <3>1. handlers' \subseteq Message /\ page' \in Nat /\ sent' \in Nat /\ wired'
      BY <1>t, <2>1
    <3>2. ~(reloading' /\ ~late')
      BY <2>1
    <3> QED BY <2>2, <2>4, <2>7, <3>1, <3>2 DEF TransportTypes, OncePerPage
  <2> QED BY <2>10, <2>11 DEF TransportInv
<1>3. CASE Transport!StartLoading
  BY <1>t, <1>3, NothingPosted DEF Transport!StartLoading, Transport!Retire, Transport!clientVars
<1>4. CASE Transport!Load
  <2>1. /\ page' = page + 1 /\ sent' = 0 /\ got' = {} /\ reloading' = FALSE /\ reloading
        /\ UNCHANGED <<wired, clientIdByWc, nextClientId, late, mailbox, handlers>>
    BY <1>4 DEF Transport!Load, Transport!windowVars, Transport!serverVars
  <2>2. CASE clientIdByWc = 0
    BY <1>t, <2>1, <2>2, NothingPosted
  <2>3. CASE clientIdByWc # 0 \* the page sent something late
    <3>1. late'
      BY <1>t, <2>1, <2>3
    <3>2. TransportTypes' /\ OncePerPage'
      BY <1>t, <2>1 DEF TransportInv, TransportTypes, OncePerPage, OnTheWay
    <3> QED BY <3>1, <3>2 DEF TransportInv, Transport!OwnClient
  <2> QED BY <2>2, <2>3
<1>5. CASE Transport!Receive
  <2>1. /\ mailbox # <<>> /\ mailbox' = Tail(mailbox) /\ handlers' \subseteq handlers \cup {Head(mailbox)}
        /\ UNCHANGED <<page, reloading, sent, got, wired, clientIdByWc, nextClientId, late>>
    BY <1>5 DEF Transport!Receive, Transport!pageVars, Transport!windowVars
  <2>2. /\ mailbox' \in Seq(Message) /\ Head(mailbox) \in {mailbox[i] : i \in 1..Len(mailbox)}
        /\ {mailbox'[i] : i \in 1..Len(mailbox')} \subseteq {mailbox[i] : i \in 1..Len(mailbox)}
    BY <1>t, <2>1, TakenUp
  <2>3. handlers' \subseteq handlers \cup {mailbox[i] : i \in 1..Len(mailbox)}
    BY <2>1, <2>2
  <2> QED BY <1>t, <2>1, <2>2, <2>3, NothingPosted
<1>6. CASE Transport!Disconnect
  <2>1. /\ handlers' \subseteq handlers
        /\ UNCHANGED <<page, reloading, sent, got, wired, clientIdByWc, nextClientId, late, mailbox>>
    BY <1>6 DEF Transport!Disconnect, Transport!pageVars, Transport!windowVars
  <2> QED BY <1>t, <2>1, NothingPosted
<1>7. ASSUME NEW h \in handlers, Transport!Reply(h)
      PROVE  TransportInv'
  <2>1. /\ handlers' \subseteq handlers /\ got' = IF h.client = clientIdByWc THEN got \cup {h} ELSE got
        /\ UNCHANGED <<page, reloading, sent, wired, clientIdByWc, nextClientId, late, mailbox>>
    BY <1>7 DEF Transport!Reply, Transport!windowVars
  <2>2. \A r \in got' : r \in got \/ (r \in OnTheWay /\ r.client = clientIdByWc)
    BY <2>1 DEF OnTheWay
  <2>3. handlers' \subseteq handlers \cup {mailbox[i] : i \in 1..Len(mailbox)}
    BY <2>1
  <2> QED BY <1>t, <2>1, <2>2, <2>3, NothingPosted
<1>8. CASE UNCHANGED Transport!vars
  BY <1>t, <1>8, NothingPosted DEF Transport!vars
<1> QED BY <1>1, <1>2, <1>3, <1>4, <1>5, <1>6, <1>7, <1>8 DEF Transport!Next

\* A page shares its client with no other.
LEMMA OwnClients == Transport!Spec => []Transport!OwnClient
<1>1. Transport!Init => TransportInv
  BY DEF Transport!Init, TransportInv, TransportTypes, OncePerPage, OnTheWay,
         Transport!OwnClient, Transport!Shares
<1>2. TransportInv => Transport!OwnClient
  BY DEF TransportInv
<1> QED BY <1>1, <1>2, TransportStep, PTL DEF Transport!Spec

-----------------------------------------------------------------------------
(* The instances on a profile: ClosedInOrder, and what an installed config  *)
(* points at, InstalledConfigsWork.                                         *)

OverApps(f) == f = [i \in Apps |-> f[i]]
StartupTypes ==
  /\ OverApps(appPc) /\ OverApps(env) /\ OverApps(decision) /\ OverApps(serving) /\ OverApps(held)

\* The controller is launched when the runtime is built, and only then.
HeldInOrder ==
  \A i \in Apps : /\ appPc[i] = "off" => held[i] = {} /\ env[i] = Boot!Unset
                  /\ appPc[i] \in {"building", "probed", "bound", "built"} => held[i] = {"runtime"}
                  /\ held[i] \in {{}, {"runtime"}, {"runtime", "controller"}}

\* What is announced is the port that was decided for, and that is the profile's.
PortsPersist ==
  (\A i \in Apps : env[i] = Boot!Unset) =>
    /\ file \in {"none", "persistent"}
    /\ \A i \in Apps : /\ decision[i] \in {"none", "persistent"} /\ serving[i] \in {"none", "persistent"}
                       /\ appPc[i] \in {"built", "up"} /\ serving[i] # "none" => file = "persistent"
                       /\ appPc[i] \in {"off", "building", "probed"} => serving[i] = "none"
                       /\ appPc[i] = "bound" => serving[i] = "persistent"

StartupInv == StartupTypes /\ HeldInOrder /\ PortsPersist

LEMMA StartupStep ==
  ASSUME StartupInv, [Boot!Next]_(Boot!vars)
  PROVE  StartupInv'
<1> USE DEF StartupInv, StartupTypes, OverApps, HeldInOrder, PortsPersist, Boot!Goto
<1>1. ASSUME NEW i \in Apps, Boot!Launch(i)
      PROVE  StartupInv'
  BY ZenonT(60), <1>1 DEF Boot!Launch
<1>2. ASSUME NEW i \in Apps, Boot!Probe(i)
      PROVE  StartupInv'
  <2>1. \A e, free : e = Boot!Unset => Boot!chooseMcpPort(e, free) \in {"none", "persistent"}
    BY DEF Boot!chooseMcpPort, Boot!Unset, Boot!Persistent, Boot!NoPort
  <2>2. /\ decision' = [decision EXCEPT ![i] = Boot!chooseMcpPort(env[i], ~Boot!Busy(Boot!Persistent))]
        /\ appPc[i] = "building" /\ appPc' = [appPc EXCEPT ![i] = "probed"]
        /\ UNCHANGED <<env, serving, file, held, windows, leaving>>
    BY <1>2 DEF Boot!Probe
  <2> QED BY Zenon, <2>1, <2>2
<1>3. ASSUME NEW i \in Apps, Boot!Bind(i) \/ Boot!BindFails(i) \/ Boot!Skip(i) \/ Boot!Announce(i)
      PROVE  StartupInv'
  BY <1>3 DEF Boot!Bind, Boot!BindFails, Boot!Skip, Boot!Announce, Boot!NoPort
<1>4. ASSUME NEW i \in Apps, Boot!Controller(i) \/ Boot!Release(i)
      PROVE  StartupInv'
  <2>1. CASE Boot!Controller(i)
    BY <2>1 DEF Boot!Controller
  <2>2. CASE Boot!Release(i) /\ "controller" \in held[i]
    <3>1. held[i] = {"runtime", "controller"} /\ held[i] \ {"controller"} = {"runtime"}
      BY <2>2
    <3> QED BY <2>2, <3>1 DEF Boot!Release, Boot!InOrder
  <2>3. CASE Boot!Release(i) /\ "controller" \notin held[i]
    <3>1. held[i] \ {"runtime"} = {}
      BY <2>3
    <3> QED BY <2>3, <3>1 DEF Boot!Release, Boot!InOrder, Boot!NoPort
  <2> QED BY <1>4, <2>1, <2>2, <2>3
<1>5. ASSUME NEW i \in Apps, Boot!CloseWindow(i) \/ Boot!Activate(i) \/ Boot!BeforeQuit(i)
      PROVE  StartupInv'
  BY <1>5 DEF Boot!CloseWindow, Boot!Activate, Boot!BeforeQuit
<1>6. ASSUME NEW i \in Apps, Boot!Exit(i) \/ Boot!QuitAgain(i) \/ Boot!Crash(i)
      PROVE  StartupInv'
  BY ZenonT(60), <1>6 DEF Boot!Exit, Boot!QuitAgain, Boot!Crash, Boot!Gone, Boot!NoPort
<1>7. CASE UNCHANGED Boot!vars
  BY <1>7 DEF Boot!vars
<1> QED BY <1>1, <1>2, <1>3, <1>4, <1>5, <1>6, <1>7 DEF Boot!Next

LEMMA StartupHolds == Boot!Spec => []StartupInv
<1>1. Boot!Init => StartupInv
  BY DEF Boot!Init, StartupInv, StartupTypes, OverApps, HeldInOrder, PortsPersist, Boot!NoPort
<1> QED BY <1>1, StartupStep, PTL DEF Boot!Spec

\* As long as nobody asks for another port, every server of the profile is where
\* installed configs point, whatever instances come and go.
LEMMA PointedConfigs == Boot!Spec => []Boot!InstalledConfigsWork
<1>1. StartupInv => Boot!InstalledConfigsWork
  BY DEF StartupInv, PortsPersist, Boot!InstalledConfigsWork, Boot!NoPort, Boot!Persistent
<1> QED BY <1>1, StartupHolds, PTL
-----------------------------------------------------------------------------

\* These are three components that share nothing: side by side they keep what each
\* of them keeps, through reloads, quits, crashes and second instances.
LEMMA ChannelsAreOpen == Hooks!Spec /\ Transport!Spec /\ Boot!Spec => []ChannelsHold
<1>1. StartupInv => Boot!ClosedInOrder
  BY DEF StartupInv, HeldInOrder, Boot!ClosedInOrder
<1> QED BY <1>1, UpChannels, OwnClients, StartupHolds, PTL DEF ChannelsHold

-----------------------------------------------------------------------------
(* NothingLost is an invariant of every repository in which nobody else    *)
(* stashes during a creation.  What it rests on: the trees that hold work  *)
(* are registered, the entry a creation drops is the one it has applied,   *)
(* and what that entry held is in a tree by then.                          *)

Entry == [by : Trees!Trees, what : SUBSET Edits]
Stages == {"idle", "push", "resolve", "add", "apply", "restore", "drop", "restored", "detect"}

TreeTypes ==
  /\ work \in [Trees!Trees -> SUBSET Edits] /\ stash \in Seq(Entry)
  /\ live \subseteq Branches /\ vanished \subseteq live
  /\ usersOwn \subseteq branches
  /\ create \in [at : Stages, branch : Trees!Trees, new : BOOLEAN, ref : {<<>>} \cup {<<x>> : x \in Entry}]

\* Where the tree being created stands at each step.
TreeInv ==
  /\ \A t \in Branches : work[t] # {} => t \in live \ vanished
  /\ create.at # "idle" => create.branch \in Branches
  /\ create.at \in {"push", "resolve", "add"} => create.branch \notin live
  /\ create.at = "apply" =>
       /\ create.branch \in live \ vanished /\ work[create.branch] = {}
       /\ create.branch \in branches /\ (create.new => create.branch \notin usersOwn)

InTree(e) == \E t \in Trees!Trees : e \in work[t]
InStash(e) == \E i \in DOMAIN stash : e \in stash[i].what

\* The entry carried is on top of the stack until it is dropped, and by then
\* nothing is owed that only it holds.
CarriedInv ==
  /\ create.at \in {"idle", "push", "resolve", "detect"} \/ create.ref = <<>> \/
       (stash # <<>> /\ create.ref = <<Head(stash)>>)
  /\ create.at \in {"apply", "restore", "drop", "restored"} => create.ref # <<>>
  /\ create.at \in {"push", "resolve"} => create.ref = <<>>
  /\ create.at \in {"drop", "restored"} => \A e \in owed : e \in Head(stash).what => InTree(e)

Kept == \A e \in owed : InTree(e) \/ InStash(e)

IInv == TreeTypes /\ TreeInv /\ CarriedInv /\ Kept

LEMMA Pushed ==
  ASSUME NEW S, NEW s \in Seq(S), NEW x \in S
  PROVE  /\ <<x>> \o s \in Seq(S) /\ <<x>> \o s # <<>> /\ Head(<<x>> \o s) = x
         /\ \A i \in DOMAIN s : i + 1 \in DOMAIN (<<x>> \o s) /\ (<<x>> \o s)[i + 1] = s[i]
         /\ 1 \in DOMAIN (<<x>> \o s) /\ (<<x>> \o s)[1] = x
  OBVIOUS

LEMMA Dropped ==
  ASSUME NEW S, NEW s \in Seq(S), s # <<>>
  PROVE  /\ Tail(s) \in Seq(S) /\ Head(s) \in S
         /\ \A i \in DOMAIN s : s[i] = Head(s) \/ (i - 1 \in DOMAIN Tail(s) /\ Tail(s)[i - 1] = s[i])
  OBVIOUS

\* Detections, their rows and the window's list touch neither git nor a creation.
Aside == UNCHANGED <<Trees!gitVars, create, owed>>

LEMMA Steps ==
  ASSUME [Trees!Next]_(Trees!vars)
  PROVE  \/ Aside
         \/ Trees!Push \/ Trees!Resolve \/ Trees!Add \/ Trees!Apply \/ Trees!Restore \/ Trees!DropRestored \/ Trees!DropCarried \/ Trees!Detect \/ Trees!Stop \/ Trees!Prune
         \/ \E t \in Trees!Trees : Trees!StashAway(t) \/ Trees!Commit(t) \/ \E e \in Edits : Trees!Edit(t, e)
         \/ \E b \in Branches : Trees!Vanish(b) \/ Trees!Branch(b)
         \/ \E b \in Branches, new, carry \in BOOLEAN : Trees!Create(b, new, carry)
         \/ \E b \in Branches, force \in BOOLEAN : Trees!Remove(b, force)
<1>1. CASE UNCHANGED Trees!vars
  BY <1>1 DEF Trees!vars, Aside
<1>2. CASE Trees!Scan \/ Trees!Record \/ \E b \in Branches : Trees!OpenTree(b)
  BY <1>2 DEF Trees!Scan, Trees!Record, Trees!OpenTree, Aside
<1> QED BY <1>1, <1>2 DEF Trees!Next

LEMMA TypeStep ==
  ASSUME TreeTypes, TreeInv, CarriedInv, [Trees!Next]_(Trees!vars)
  PROVE  TreeTypes'
<1> USE DEF TreeTypes, Trees!gitVars, Trees!Go, Trees!Idle, Stages
<1>e. /\ create.ref # <<>> => create.ref[1] \in Entry /\ create.ref[1].what \subseteq Edits
      /\ stash # <<>> => Head(stash) \in Entry /\ Tail(stash) \in Seq(Entry)
  <2>1. create.ref # <<>> => create.ref[1] \in Entry
    OBVIOUS
  <2>2. stash # <<>> => Head(stash) \in Entry /\ Tail(stash) \in Seq(Entry)
    BY Dropped
  <2> QED BY <2>1, <2>2 DEF Entry
<1>1. CASE Aside
  BY <1>1 DEF Aside
<1>2. CASE Trees!Push
  <2>1. CASE UNCHANGED <<work, stash>>
    BY <1>2, <2>1 DEF Trees!Push
  <2>2. CASE UNCHANGED stash /\ work' = [work EXCEPT ![Source] = {}] /\ Trees!Go("resolve")
    BY <1>2, <2>2 DEF Trees!Push
  <2>3. CASE /\ stash' = <<[by |-> create.branch, what |-> work[Source]]>> \o stash
             /\ work' = [work EXCEPT ![Source] = {}] /\ Trees!Go("resolve")
    <3>1. [by |-> create.branch, what |-> work[Source]] \in Entry
      BY DEF Trees!Trees, Entry
    <3>2. stash' \in Seq(Entry)
      BY <2>3, <3>1, Pushed
    <3> QED BY <1>2, <2>3, <3>2 DEF Trees!Push
  <2> QED BY <1>2, <2>1, <2>2, <2>3 DEF Trees!Push
<1>3. CASE Trees!Resolve
  BY <1>3, <1>e DEF Trees!Resolve, Trees!Trees
<1>4. CASE Trees!Add
  BY <1>4 DEF Trees!Add, TreeInv
<1>5. CASE Trees!Apply
  BY <1>5, <1>e DEF Trees!Apply, CarriedInv, Trees!BranchesLeft, TreeInv
<1>6. CASE Trees!Restore
  <2>1. CASE create' = Trees!Idle /\ UNCHANGED work
    BY <1>6, <2>1 DEF Trees!Restore, Trees!Trees
  <2>2. CASE work' = [work EXCEPT ![Source] = @ \cup create.ref[1].what] /\ Trees!Go("restored")
    BY <1>6, <1>e, <2>2 DEF Trees!Restore, CarriedInv
  <2> QED BY <1>6, <2>1, <2>2 DEF Trees!Restore, Trees!GiveUp
<1>7. CASE Trees!DropRestored
  BY <1>7, <1>e DEF Trees!DropRestored, Trees!Drop, Trees!Trees
<1>8. CASE Trees!DropCarried
  BY <1>8, <1>e DEF Trees!DropCarried, Trees!Drop
<1>9. CASE Trees!Detect
  BY <1>9 DEF Trees!Detect, Trees!Trees
<1>10. CASE Trees!Stop
  BY <1>10 DEF Trees!Stop, Trees!Trees
<1>11. CASE Trees!Prune
  BY <1>11 DEF Trees!Prune
<1>12. ASSUME NEW t \in Trees!Trees, Trees!StashAway(t) PROVE TreeTypes'
  BY <1>12 DEF Trees!StashAway, Entry
<1>13. ASSUME NEW t \in Trees!Trees, Trees!Commit(t) PROVE TreeTypes'
  BY <1>13 DEF Trees!Commit
<1>14. ASSUME NEW t \in Trees!Trees, NEW e \in Edits, Trees!Edit(t, e) PROVE TreeTypes'
  BY <1>14 DEF Trees!Edit
<1>15. ASSUME NEW b \in Branches, Trees!Vanish(b) PROVE TreeTypes'
  BY <1>15 DEF Trees!Vanish
<1>16. ASSUME NEW b \in Branches, Trees!Branch(b) PROVE TreeTypes'
  BY <1>16 DEF Trees!Branch
<1>17. ASSUME NEW b \in Branches, NEW new \in BOOLEAN, NEW carry \in BOOLEAN, Trees!Create(b, new, carry)
       PROVE  TreeTypes'
  BY <1>17 DEF Trees!Create, Trees!Trees
<1>18. ASSUME NEW b \in Branches, NEW force \in BOOLEAN, Trees!Remove(b, force) PROVE TreeTypes'
  BY <1>18 DEF Trees!Remove
<1> QED BY <1>1, <1>2, <1>3, <1>4, <1>5, <1>6, <1>7, <1>8, <1>9, <1>10, <1>11, <1>12, <1>13,
           <1>14, <1>15, <1>16, <1>17, <1>18, Steps

LEMMA TreeStep ==
  ASSUME TreeTypes, TreeInv, CarriedInv, Source \notin Branches, [Trees!Next]_(Trees!vars)
  PROVE  TreeInv'
<1> USE DEF TreeTypes, TreeInv, Trees!Trees, Stages, Trees!gitVars, Trees!Go, Trees!Idle
<1>1. CASE Aside
  BY <1>1 DEF Aside
<1>2. CASE Trees!Push
  <2>1. \A t \in Branches : work'[t] = work[t]
    BY <1>2 DEF Trees!Push
  <2> QED BY <1>2, <2>1 DEF Trees!Push
<1>3. CASE Trees!Resolve
  BY <1>3 DEF Trees!Resolve
<1>4. CASE Trees!Add
  BY <1>4 DEF Trees!Add
<1>5. CASE Trees!Apply
  <2>1. CASE UNCHANGED work
    BY <1>5, <2>1 DEF Trees!Apply
  <2>2. CASE work' = [work EXCEPT ![create.branch] = @ \cup create.ref[1].what] /\ UNCHANGED live
    BY <1>5, <2>2 DEF Trees!Apply
  <2> QED BY <1>5, <2>1, <2>2 DEF Trees!Apply
<1>6. CASE Trees!Restore
  <2>1. \A t \in Branches : work'[t] = work[t]
    BY <1>6 DEF Trees!Restore
  <2> QED BY <1>6, <2>1 DEF Trees!Restore, Trees!GiveUp
<1>7. CASE Trees!DropRestored
  BY <1>7 DEF Trees!DropRestored
<1>8. CASE Trees!DropCarried
  BY <1>8 DEF Trees!DropCarried
<1>9. CASE Trees!Detect
  BY <1>9 DEF Trees!Detect
<1>10. CASE Trees!Stop
  BY <1>10 DEF Trees!Stop
<1>11. CASE Trees!Prune
  BY <1>11 DEF Trees!Prune
<1>12. ASSUME NEW t \in Trees!Trees, Trees!StashAway(t) PROVE TreeInv'
  BY <1>12 DEF Trees!StashAway
<1>13. ASSUME NEW t \in Trees!Trees, Trees!Commit(t) PROVE TreeInv'
  BY <1>13 DEF Trees!Commit
<1>14. ASSUME NEW t \in Trees!Trees, NEW e \in Edits, Trees!Edit(t, e) PROVE TreeInv'
  BY <1>14 DEF Trees!Edit
<1>15. ASSUME NEW b \in Branches, Trees!Vanish(b) PROVE TreeInv'
  BY <1>15 DEF Trees!Vanish
<1>16. ASSUME NEW b \in Branches, Trees!Branch(b) PROVE TreeInv'
  BY <1>16 DEF Trees!Branch
<1>17. ASSUME NEW b \in Branches, NEW new \in BOOLEAN, NEW carry \in BOOLEAN, Trees!Create(b, new, carry)
       PROVE  TreeInv'
  BY <1>17 DEF Trees!Create
<1>18. ASSUME NEW b \in Branches, NEW force \in BOOLEAN, Trees!Remove(b, force) PROVE TreeInv'
  BY <1>18 DEF Trees!Remove
<1> QED BY <1>1, <1>2, <1>3, <1>4, <1>5, <1>6, <1>7, <1>8, <1>9, <1>10, <1>11, <1>12, <1>13,
           <1>14, <1>15, <1>16, <1>17, <1>18, Steps

\* Work stays in its tree in every step that moves none of it.
LEMMA InTreeStays ==
  ASSUME work' = work, owed' = owed
  PROVE  \A e \in owed' : InTree(e) => InTree(e)'
BY SMTT(60) DEF InTree

LEMMA CarriedStep ==
  ASSUME TreeTypes, TreeInv, CarriedInv, [Trees!Next]_(Trees!vars)
  PROVE  CarriedInv'
<1> USE DEF TreeTypes, CarriedInv, Trees!Trees, Stages, Trees!gitVars, Trees!Go, Trees!Idle
<1>1. CASE Aside
  BY <1>1, InTreeStays DEF Aside
<1>2. CASE Trees!Push
  BY <1>2 DEF Trees!Push
<1>3. CASE Trees!Resolve
  BY <1>3 DEF Trees!Resolve
<1>4. CASE Trees!Add
  BY <1>4 DEF Trees!Add
<1>5. CASE Trees!Apply
  <2>1. CASE create'.at = "restore"
    BY <1>5, <2>1 DEF Trees!Apply
  <2>2. CASE work' = [work EXCEPT ![create.branch] = @ \cup create.ref[1].what] /\ Trees!Go("drop")
    <3>1. stash' = stash /\ create.ref = <<Head(stash)>> /\ create.ref[1] = Head(stash)
      BY <1>5 DEF Trees!Apply
    <3>2. create.branch \in Trees!Trees /\ Head(stash).what \subseteq work'[create.branch]
      BY <2>2, <3>1
    <3>3. \A e \in owed' : e \in Head(stash').what => InTree(e)'
      BY <3>1, <3>2 DEF InTree
    <3> QED BY <1>5, <2>2, <3>1, <3>3 DEF Trees!Apply
  <2> QED BY <1>5, <2>1, <2>2 DEF Trees!Apply
<1>6. CASE Trees!Restore
  <2>1. CASE create' = Trees!Idle
    BY <2>1
  <2>2. CASE work' = [work EXCEPT ![Source] = @ \cup create.ref[1].what] /\ Trees!Go("restored")
    <3>1. stash' = stash /\ create.ref = <<Head(stash)>> /\ create.ref[1] = Head(stash)
      BY <1>6 DEF Trees!Restore
    <3>2. Source \in Trees!Trees /\ Head(stash).what \subseteq work'[Source]
      BY <2>2, <3>1
    <3>3. \A e \in owed' : e \in Head(stash').what => InTree(e)'
      BY <3>1, <3>2 DEF InTree
    <3> QED BY <1>6, <2>2, <3>1, <3>3 DEF Trees!Restore
  <2> QED BY <1>6, <2>1, <2>2 DEF Trees!Restore, Trees!GiveUp
<1>7. CASE Trees!DropRestored
  BY <1>7 DEF Trees!DropRestored
<1>8. CASE Trees!DropCarried
  BY <1>8 DEF Trees!DropCarried
<1>9. CASE Trees!Detect \/ Trees!Stop
  BY <1>9 DEF Trees!Detect, Trees!Stop
<1>11. CASE Trees!Prune
  BY <1>11, InTreeStays DEF Trees!Prune
<1>12. ASSUME NEW t \in Trees!Trees, Trees!StashAway(t) PROVE CarriedInv'
  BY <1>12 DEF Trees!StashAway
<1>13. ASSUME NEW t \in Trees!Trees, Trees!Commit(t) PROVE CarriedInv'
  <2>1. \A e \in owed' : InTree(e) => InTree(e)'
    BY <1>13 DEF Trees!Commit, InTree
  <2> QED BY <1>13, <2>1 DEF Trees!Commit
<1>14. ASSUME NEW t \in Trees!Trees, NEW e \in Edits, Trees!Edit(t, e) PROVE CarriedInv'
  <2>1. \A f \in owed' : f \in owed /\ InTree(f) => InTree(f)'
    BY <1>14 DEF Trees!Edit, InTree
  <2>2. InTree(e)'
    BY <1>14 DEF Trees!Edit, InTree
  <2> QED BY <1>14, <2>1, <2>2 DEF Trees!Edit
<1>15. ASSUME NEW b \in Branches, Trees!Vanish(b) PROVE CarriedInv'
  BY <1>15, InTreeStays DEF Trees!Vanish
<1>16. ASSUME NEW b \in Branches, Trees!Branch(b) PROVE CarriedInv'
  BY <1>16, InTreeStays DEF Trees!Branch
<1>17. ASSUME NEW b \in Branches, NEW new \in BOOLEAN, NEW carry \in BOOLEAN, Trees!Create(b, new, carry)
       PROVE  CarriedInv'
  BY <1>17 DEF Trees!Create
<1>18. ASSUME NEW b \in Branches, NEW force \in BOOLEAN, Trees!Remove(b, force) PROVE CarriedInv'
  <2>1. \A e \in owed' : InTree(e) => InTree(e)'
    BY <1>18 DEF Trees!Remove, InTree
  <2> QED BY <1>18, <2>1 DEF Trees!Remove
<1> QED BY <1>1, <1>2, <1>3, <1>4, <1>5, <1>6, <1>7, <1>8, <1>9, <1>11, <1>12, <1>13,
           <1>14, <1>15, <1>16, <1>17, <1>18, Steps

\* A step that moves no work loses none.
LEMMA KeptStays ==
  ASSUME TreeTypes, Kept, UNCHANGED <<work, stash, owed>>
  PROVE  Kept'
BY DEF Kept, InTree, InStash

\* The entry on top of the stack can go once what is owed of it is in a tree.
LEMMA KeptWithoutHead ==
  ASSUME TreeTypes, Kept, stash # <<>>, \A e \in owed : e \in Head(stash).what => InTree(e),
         stash' = Tail(stash), UNCHANGED <<work, owed>>
  PROVE  Kept'
<1> SUFFICES ASSUME NEW e \in owed', ~InTree(e)' PROVE InStash(e)'
  BY DEF Kept
<1>1. PICK i \in DOMAIN stash : e \in stash[i].what
  BY DEF Kept, InTree, InStash
<1>2. stash[i] # Head(stash)
  BY <1>1 DEF InTree
<1>3. i - 1 \in DOMAIN Tail(stash) /\ Tail(stash)[i - 1] = stash[i]
  BY <1>2, Dropped DEF TreeTypes
<1> QED BY <1>1, <1>3 DEF InStash

\* Nor does one that puts the work of a tree on the stack.
LEMMA KeptOnStack ==
  ASSUME TreeTypes, Kept, NEW t \in Trees!Trees, NEW x \in Entry, x.what = work[t],
         stash' = <<x>> \o stash, work' = [work EXCEPT ![t] = {}], UNCHANGED owed
  PROVE  Kept'
<1> SUFFICES ASSUME NEW e \in owed' PROVE InTree(e)' \/ InStash(e)'
  BY DEF Kept
<1>s. stash \in Seq(Entry)
  BY DEF TreeTypes
<1>1. CASE InStash(e)
  <2>1. PICK i \in DOMAIN stash : e \in stash[i].what
    BY <1>1 DEF InStash
  <2>2. i + 1 \in DOMAIN stash' /\ stash'[i + 1] = stash[i]
    BY <1>s, Pushed
  <2> QED BY <2>1, <2>2 DEF InStash
<1>2. CASE e \in work[t]
  BY <1>2, <1>s, Pushed DEF InStash
<1>3. CASE \E u \in Trees!Trees : u # t /\ e \in work[u]
  BY <1>3 DEF InTree, TreeTypes
<1> QED BY <1>1, <1>2, <1>3 DEF Kept, InTree

LEMMA KeptStep ==
  ASSUME TreeTypes, TreeInv, CarriedInv, Kept, [Trees!Next]_(Trees!vars)
  PROVE  Kept'
<1> USE DEF Trees!gitVars
<1>1. CASE Aside
  BY <1>1, KeptStays DEF Aside
<1>2. CASE Trees!Push
  <2>1. Source \in Trees!Trees /\ [by |-> create.branch, what |-> work[Source]] \in Entry
    BY DEF Trees!Trees, Entry, TreeTypes
  <2>2. CASE /\ stash' = <<[by |-> create.branch, what |-> work[Source]]>> \o stash
             /\ work' = [work EXCEPT ![Source] = {}]
    BY <1>2, <2>1, <2>2, KeptOnStack DEF Trees!Push
  <2>3. CASE UNCHANGED <<work, stash>>
    BY <1>2, <2>3, KeptStays DEF Trees!Push
  <2>4. work[Source] = {} => [work EXCEPT ![Source] = {}] = work
    BY DEF TreeTypes
  <2> QED BY <1>2, <2>2, <2>3, <2>4 DEF Trees!Push
<1>3. CASE Trees!Resolve \/ Trees!Add \/ Trees!Detect \/ Trees!Stop \/ Trees!Prune
  BY <1>3, KeptStays DEF Trees!Resolve, Trees!Add, Trees!Detect, Trees!Stop, Trees!Prune
<1>5. CASE Trees!Apply
  BY <1>5 DEF Trees!Apply, Kept, InTree, InStash, TreeTypes
<1>6. CASE Trees!Restore
  BY <1>6 DEF Trees!Restore, Trees!GiveUp, Kept, InTree, InStash, TreeTypes
<1>7. CASE Trees!DropRestored
  BY <1>7, KeptWithoutHead DEF Trees!DropRestored, Trees!Drop, CarriedInv
<1>8. CASE Trees!DropCarried
  BY <1>8, KeptWithoutHead DEF Trees!DropCarried, Trees!Drop, CarriedInv
<1>12. ASSUME NEW t \in Trees!Trees, Trees!StashAway(t) PROVE Kept'
  <2>1. [by |-> t, what |-> work[t]] \in Entry
    BY DEF Entry, TreeTypes
  <2> QED BY <1>12, <2>1, KeptOnStack DEF Trees!StashAway
<1>13. ASSUME NEW t \in Trees!Trees, Trees!Commit(t) PROVE Kept'
  BY <1>13 DEF Trees!Commit, Kept, InTree, InStash, TreeTypes
<1>14. ASSUME NEW t \in Trees!Trees, NEW e \in Edits, Trees!Edit(t, e) PROVE Kept'
  BY <1>14 DEF Trees!Edit, Kept, InTree, InStash, TreeTypes
<1>15. ASSUME NEW b \in Branches, Trees!Vanish(b) \/ Trees!Branch(b) PROVE Kept'
  BY <1>15, KeptStays DEF Trees!Vanish, Trees!Branch
<1>17. ASSUME NEW b \in Branches, NEW new \in BOOLEAN, NEW carry \in BOOLEAN, Trees!Create(b, new, carry)
       PROVE  Kept'
  BY <1>17, KeptStays DEF Trees!Create
<1>18. ASSUME NEW b \in Branches, NEW force \in BOOLEAN, Trees!Remove(b, force) PROVE Kept'
  BY <1>18 DEF Trees!Remove, Kept, InTree, InStash, TreeTypes
<1> QED BY <1>1, <1>2, <1>3, <1>5, <1>6, <1>7, <1>8, <1>12, <1>13, <1>14, <1>15, <1>17,
           <1>18, Steps

\* Whatever step the creation of a worktree fails or is cut short at, the work it
\* carried is in a tree or on the stash stack, and no branch of a user's is gone.
LEMMA KeptWork == Trees!Spec => [](Source \notin Branches => Trees!NothingLost)
<1> DEFINE Assumed == Source \notin Branches
           Inv == Assumed => IInv
<1>1. Trees!Init => Inv
  <2>1. Trees!Init => TreeTypes /\ TreeInv
    BY DEF Trees!Init, TreeTypes, TreeInv, Trees!Idle, Stages, Trees!Trees, Entry
  <2>2. Trees!Init => CarriedInv /\ Kept
    BY DEF Trees!Init, CarriedInv, Kept, Trees!Idle
  <2> QED BY <2>1, <2>2 DEF IInv
<1>2. Inv /\ [Trees!Next]_(Trees!vars) => Inv'
  BY TypeStep, TreeStep, CarriedStep, KeptStep DEF IInv
<1>3. Inv => (Assumed => Trees!NothingLost)
  <2>1. IInv => Trees!NothingLost
    BY DEF IInv, TreeTypes, TreeInv, Kept, InTree, InStash, Trees!NothingLost
  <2> QED BY <2>1
<1> QED BY <1>1, <1>2, <1>3, PTL DEF Trees!Spec

-----------------------------------------------------------------------------
(* The files of others: ConfigsHold.  What an installation has read of a    *)
(* file has all that the user has there, unless the user has raced it; and  *)
(* what it makes of any blocks at all has one command of Arc's.             *)

LEMMA LeastNumber ==
  ASSUME NEW T, T \subseteq Nat, T # {}
  PROVE  \E x \in T : \A y \in T : x <= y
<1> DEFINE Less == {p \in Nat \X Nat : p[1] < p[2]}
<1>1. IsWellFoundedOn(Less, Nat)
  <2>1. Less = OpToRel(<, Nat)
    BY DEF OpToRel
  <2> QED BY <2>1, NatLessThanWellFounded
<1>2. PICK x \in T : \A y \in T : ~(<<y, x>> \in Less)
  <2> HIDE DEF Less
  <2> QED BY <1>1, WFMin
<1>3. ASSUME NEW y \in T PROVE x <= y
  <2>1. x \in Nat /\ y \in Nat /\ ~(y < x)
    BY <1>2
  <2> QED BY <2>1
<1> QED BY <1>3

Commands == Mine \cup Configs!Helpers
Numbers == {D \in SUBSET Nat : \E n \in Nat : D \subseteq 0..n}
Blocks == UNION {[D -> SUBSET Commands] : D \in Numbers}
FileT == [is : {"absent", "object", "garbled"}, of : [Configs!Events -> Blocks]]

LEMMA LastNumber ==
  ASSUME NEW D \in Numbers
  PROVE  /\ Configs!Max(D \cup {0}) \in Nat
         /\ Configs!Max(D \cup {0}) + 1 \notin D
         /\ D \cup {Configs!Max(D \cup {0}) + 1} \in Numbers
<1>1. PICK n \in Nat : D \subseteq 0..n
  BY DEF Numbers
<1> DEFINE S == D \cup {0}
           gaps == {n - x : x \in S}
<1>2. S \subseteq 0..n
  BY <1>1
<1>3. gaps \subseteq Nat /\ gaps # {}
  BY <1>2
<1>4. PICK g \in gaps : \A h \in gaps : g <= h
  <2> HIDE DEF gaps
  <2> QED BY <1>3, LeastNumber
<1>5. PICK x \in S : g = n - x
  OBVIOUS
<1>6. ASSUME NEW y \in S PROVE x >= y
  <2>1. n - y \in gaps
    OBVIOUS
  <2>2. n - x <= n - y
    BY <1>4, <1>5, <2>1
  <2> QED BY <1>2, <2>2
<1>7. Configs!Max(S) \in S /\ \A y \in S : Configs!Max(S) >= y
  <2> HIDE DEF S
  <2> QED BY <1>6 DEF Configs!Max
<1>8. Configs!Max(S) \in Nat
  BY <1>2, <1>7
<1>s. D \subseteq S /\ D \subseteq Nat
  BY <1>1
<1> DEFINE m == Configs!Max(S)
<1>9. m \in Nat /\ (\A y \in D : m >= y) /\ D \subseteq Nat
  <2> HIDE DEF S
  <2> QED BY <1>7, <1>8, <1>s
<1> HIDE DEF m
<1>10. m + 1 \notin D
  BY <1>9
<1>11. D \cup {m + 1} \subseteq 0..(n + m + 1) /\ n + m + 1 \in Nat
  BY <1>1, <1>9
<1>12. D \cup {m + 1} \in SUBSET Nat
  BY <1>9
<1> QED BY <1>9, <1>10, <1>11, <1>12 DEF Numbers, m

LEMMA BlocksOf ==
  ASSUME NEW f \in Blocks
  PROVE  DOMAIN f \in Numbers /\ f \in [DOMAIN f -> SUBSET Commands]
BY DEF Blocks

LEMMA BlockAppended ==
  ASSUME NEW f \in Blocks, NEW b \in SUBSET Commands
  PROVE  /\ Configs!Appended(f, b) \in Blocks
         /\ \E n : /\ n \notin DOMAIN f /\ DOMAIN Configs!Appended(f, b) = DOMAIN f \cup {n}
                   /\ Configs!Appended(f, b)[n] = b
                   /\ \A i \in DOMAIN f : Configs!Appended(f, b)[i] = f[i]
<1> DEFINE n == Configs!Max(DOMAIN f \cup {0}) + 1
           g == Configs!Appended(f, b)
<1>1. DOMAIN f \in Numbers /\ f \in [DOMAIN f -> SUBSET Commands]
  BY BlocksOf
<1>2. n \notin DOMAIN f /\ DOMAIN f \cup {n} \in Numbers
  BY <1>1, LastNumber
<1>3. g = [i \in DOMAIN f \cup {n} |-> IF i = n THEN b ELSE f[i]]
  BY DEF Configs!Appended
<1> HIDE DEF n, g
<1>4. g \in [DOMAIN f \cup {n} -> SUBSET Commands]
  BY <1>1, <1>3
<1>5. g \in Blocks
  BY <1>2, <1>4 DEF Blocks
<1>6. DOMAIN g = DOMAIN f \cup {n} /\ g[n] = b /\ \A i \in DOMAIN f : g[i] = f[i]
  BY <1>2, <1>3
<1> QED BY <1>2, <1>5, <1>6 DEF g

\* A merge takes what is Arc's, and that alone.
LEMMA BlocksPruned ==
  ASSUME NEW f \in Blocks
  PROVE  /\ Configs!Pruned(f) \in Blocks
         /\ \A i \in DOMAIN Configs!Pruned(f) : \A c \in Configs!Pruned(f)[i] : c \notin Configs!Helpers
         /\ \A c \in Configs!CommandsOf(f) \ Configs!Helpers : c \in Configs!CommandsOf(Configs!Pruned(f))
<1> DEFINE D == {j \in DOMAIN f : f[j] = Configs!stripArcFromBlock(f[j]) \/ Configs!stripArcFromBlock(f[j]) # {}}
           g == Configs!Pruned(f)
<1>1. DOMAIN f \in Numbers /\ f \in [DOMAIN f -> SUBSET Commands]
  BY BlocksOf
<1>2. g = [i \in D |-> Configs!stripArcFromBlock(f[i])]
  BY DEF Configs!Pruned
<1>3. D \in Numbers
  BY <1>1 DEF Numbers
<1>4. \A i \in D : Configs!stripArcFromBlock(f[i]) \in SUBSET Commands
  BY <1>1 DEF Configs!stripArcFromBlock
<1>5. g \in Blocks
  <2> HIDE DEF D, g
  <2>1. g \in [D -> SUBSET Commands]
    BY <1>2, <1>4
  <2> QED BY <1>3, <2>1 DEF Blocks
<1>6. \A i \in DOMAIN g : \A c \in g[i] : c \notin Configs!Helpers
  <2> HIDE DEF D, g
  <2> QED BY <1>2 DEF Configs!stripArcFromBlock, Configs!isArcCommand
<1>7. ASSUME NEW c \in Configs!CommandsOf(f) \ Configs!Helpers
      PROVE  c \in Configs!CommandsOf(g)
  <2>1. PICK i \in DOMAIN f : c \in f[i]
    BY DEF Configs!CommandsOf
  <2>2. c \in Configs!stripArcFromBlock(f[i])
    BY <2>1 DEF Configs!stripArcFromBlock, Configs!isArcCommand
  <2>3. i \in D
    BY <2>2
  <2>4. i \in DOMAIN g /\ c \in g[i]
    <3> HIDE DEF D, g
    <3> QED BY <1>2, <2>2, <2>3
  <2> QED BY <2>4 DEF Configs!CommandsOf
<1> QED BY <1>5, <1>6, <1>7

\* What the user has in a file, by what is on record.
HasAll(of) == \A t \in theirs : t[2] \in Configs!CommandsOf(of[t[1]])

\* One block has a command of Arc's.
ArcBlocks(blocks) == {i \in DOMAIN blocks : \E c \in blocks[i] : Configs!isArcCommand(c)}
OneIsArc(of) ==
  /\ \E i : ArcBlocks(of["notice"]) = {i}
  /\ named = "settings.local.json" => \A c \in Configs!CommandsOf(of["work"]) : ~Configs!isArcCommand(c)

ConfigTypes ==
  /\ text \in FileT /\ writing \in [Arcs -> [begun : BOOLEAN, read : FileT]]
  /\ theirs \subseteq Configs!Events \X Mine

ConfigInv ==
  /\ ConfigTypes
  /\ named # "cursor hooks.json" /\ ~raced =>
       HasAll(text.of) /\ \A p \in Arcs : writing[p].begun => HasAll(writing[p].read.of)
  /\ armed /\ named \in Configs!HookFiles => OneIsArc(text.of)

\* An installation, whatever it has read.
LEMMA Installed ==
  ASSUME NEW of \in [Configs!Events -> Blocks], NEW p \in Arcs
  PROVE  /\ Configs!Written(of, p) \in [Configs!Events -> Blocks]
         /\ named \in Configs!HookFiles => OneIsArc(Configs!Written(of, p))
         /\ named # "cursor hooks.json" =>
              \A e \in Configs!Events, c \in Mine \ Configs!Helpers :
                c \in Configs!CommandsOf(of[e]) => c \in Configs!CommandsOf(Configs!Written(of, p)[e])
<1> DEFINE new == Configs!Written(of, p)
           itsNotice == Configs!replaceArcBlock(of["notice"], p)
           itsWork == Configs!Pruned(of["work"])
<1>0. {p} \in SUBSET Commands /\ Configs!isArcCommand(p) /\ \A e \in Configs!Events : of[e] \in Blocks
  BY DEF Commands, Configs!Helpers, Configs!isArcCommand
<1>e. "notice" \in Configs!Events /\ "work" \in Configs!Events /\ "other" \in Configs!Events
  BY DEF Configs!Events
<1>1. itsWork \in Blocks /\ (\A c \in Configs!CommandsOf(itsWork) : ~Configs!isArcCommand(c))
      /\ \A c \in Configs!CommandsOf(of["work"]) \ Configs!Helpers : c \in Configs!CommandsOf(itsWork)
  <2>1. \A c \in Configs!CommandsOf(itsWork) : \E i \in DOMAIN itsWork : c \in itsWork[i]
    BY DEF Configs!CommandsOf
  <2> HIDE DEF itsWork
  <2>2. itsWork \in Blocks /\ (\A i \in DOMAIN itsWork : \A c \in itsWork[i] : c \notin Configs!Helpers)
        /\ \A c \in Configs!CommandsOf(of["work"]) \ Configs!Helpers : c \in Configs!CommandsOf(itsWork)
    BY <1>0, <1>e, BlocksPruned DEF itsWork
  <2> QED BY <2>1, <2>2 DEF Configs!isArcCommand
<1>2. itsNotice \in Blocks /\ (\E i : ArcBlocks(itsNotice) = {i})
      /\ \A c \in Configs!CommandsOf(of["notice"]) \ Configs!Helpers : c \in Configs!CommandsOf(itsNotice)
  <2> DEFINE rest == Configs!Pruned(of["notice"])
  <2>1. rest \in Blocks /\ (\A i \in DOMAIN rest : \A c \in rest[i] : c \notin Configs!Helpers)
        /\ \A c \in Configs!CommandsOf(of["notice"]) \ Configs!Helpers : c \in Configs!CommandsOf(rest)
    BY <1>0, <1>e, BlocksPruned
  <2>2. itsNotice = Configs!Appended(rest, {p})
    BY DEF Configs!replaceArcBlock
  <2> HIDE DEF rest, itsNotice
  <2>3. itsNotice \in Blocks
    BY <1>0, <2>1, <2>2, BlockAppended
  <2>p. \E n : /\ n \notin DOMAIN rest /\ DOMAIN Configs!Appended(rest, {p}) = DOMAIN rest \cup {n}
               /\ Configs!Appended(rest, {p})[n] = {p}
               /\ \A i \in DOMAIN rest : Configs!Appended(rest, {p})[i] = rest[i]
    BY <1>0, <2>1, BlockAppended, Zenon
  <2>4. PICK n : /\ n \notin DOMAIN rest /\ DOMAIN itsNotice = DOMAIN rest \cup {n}
                 /\ itsNotice[n] = {p} /\ \A i \in DOMAIN rest : itsNotice[i] = rest[i]
    BY <2>2, <2>p, Zenon
  <2>5. ArcBlocks(itsNotice) = {n}
    BY <1>0, <2>1, <2>4 DEF ArcBlocks, Configs!isArcCommand
  <2>6. \A c \in Configs!CommandsOf(rest) : c \in Configs!CommandsOf(itsNotice)
    BY <2>4 DEF Configs!CommandsOf
  <2> QED BY <2>1, <2>3, <2>5, <2>6
<1> HIDE DEF itsNotice, itsWork
<1>3. CASE named = "settings.local.json"
  <2>1. new = [of EXCEPT !["notice"] = itsNotice, !["work"] = itsWork]
    BY <1>3 DEF Configs!Written, Configs!mergeClaudeHooks, itsNotice, itsWork
  <2> HIDE DEF new
  <2>2. new["notice"] = itsNotice /\ new["work"] = itsWork /\ new["other"] = of["other"]
        /\ new \in [Configs!Events -> Blocks]
    BY <1>e, <1>1, <1>2, <2>1
  <2>3. OneIsArc(new)
    BY <1>1, <1>2, <2>2 DEF OneIsArc
  <2>4. \A e \in Configs!Events : e \in {"notice", "work", "other"}
    BY DEF Configs!Events
  <2> QED BY <1>1, <1>2, <2>2, <2>3, <2>4 DEF new
<1>4. CASE named = "codex hooks.json"
  <2>1. new = [of EXCEPT !["notice"] = itsNotice]
    BY <1>4 DEF Configs!Written, Configs!mergeCodexHooks, itsNotice
  <2> HIDE DEF new
  <2>2. new["notice"] = itsNotice /\ (\A e \in Configs!Events : e # "notice" => new[e] = of[e])
        /\ new \in [Configs!Events -> Blocks]
    BY <1>e, <1>2, <2>1
  <2>3. OneIsArc(new)
    BY <1>2, <1>4, <2>2 DEF OneIsArc
  <2> QED BY <1>2, <2>2, <2>3 DEF new
<1>5. CASE named = "cursor hooks.json"
  <2>1. new = [Configs!NoBlocks EXCEPT !["notice"] = << {p} >>]
    BY <1>5 DEF Configs!Written, Configs!buildCursorHooksJson
  <2> HIDE DEF new
  <2>2. << {p} >> \in Blocks /\ <<>> \in Blocks
    <3>1. {1} \in Numbers /\ {} \in Numbers
      <4>1. {1} \subseteq 0..1 /\ {} \subseteq 0..1
        OBVIOUS
      <4> QED BY <4>1 DEF Numbers
    <3>2. << {p} >> \in [{1} -> SUBSET Commands] /\ <<>> \in [{} -> SUBSET Commands]
      BY <1>0
    <3> QED BY <3>1, <3>2 DEF Blocks
  <2>3. new["notice"] = << {p} >> /\ new \in [Configs!Events -> Blocks]
    BY <1>e, <2>1, <2>2 DEF Configs!NoBlocks
  <2>4. ArcBlocks(<< {p} >>) = {1}
    BY <1>0 DEF ArcBlocks
  <2>5. OneIsArc(new)
    BY <1>5, <2>3, <2>4 DEF OneIsArc
  <2> QED BY <1>5, <2>3, <2>5 DEF new
<1>6. CASE named \notin Configs!HookFiles
  <2> DEFINE stays == {c \in Configs!CommandsOf(of["other"]) : ~Configs!isArcCommand(c)} \cup {p}
  <2>1. new = [of EXCEPT !["other"] = << stays >>]
    BY <1>6 DEF Configs!Written, Configs!mergeArcServer, Configs!HookFiles
  <2>2. stays \in SUBSET Commands
    <3>1. of["other"] \in [DOMAIN of["other"] -> SUBSET Commands]
      BY <1>0, <1>e, BlocksOf
    <3> QED BY <1>0, <3>1 DEF Configs!CommandsOf
  <2>3. << stays >> \in Blocks
    <3> HIDE DEF stays
    <3>1. {1} \in Numbers
      <4>1. {1} \subseteq 0..1
        OBVIOUS
      <4> QED BY <4>1 DEF Numbers
    <3>2. << stays >> \in [{1} -> SUBSET Commands]
      BY <2>2
    <3> QED BY <3>1, <3>2 DEF Blocks
  <2>4. Configs!CommandsOf(<< stays >>) = stays
    BY DEF Configs!CommandsOf
  <2>5. \A c \in Configs!CommandsOf(of["other"]) \ Configs!Helpers : c \in stays
    BY DEF Configs!isArcCommand
  <2> HIDE DEF new, stays
  <2>6. new["other"] = << stays >> /\ (\A e \in Configs!Events : e # "other" => new[e] = of[e])
        /\ new \in [Configs!Events -> Blocks]
    BY <1>e, <2>1, <2>3
  <2>7. \A e \in Configs!Events, c \in Mine \ Configs!Helpers :
          c \in Configs!CommandsOf(of[e]) => c \in Configs!CommandsOf(new[e])
    BY <2>4, <2>5, <2>6
  <2> QED BY <1>6, <2>6, <2>7 DEF new
<1> QED BY <1>3, <1>4, <1>5, <1>6 DEF Configs!HookFiles

\* An addition of the user's, to the blocks of an event.
LEMMA AddedTo ==
  ASSUME NEW of \in [Configs!Events -> Blocks], NEW e \in Configs!Events, NEW c \in Mine \ Configs!Helpers,
         NEW of2 \in [Configs!Events -> Blocks],
         \A d \in Configs!Events : d # e => of2[d] = of[d],
         \/ of2[e] = Configs!Appended(of[e], {c})
         \/ \E i \in DOMAIN of[e] : of2[e] = [of[e] EXCEPT ![i] = @ \cup {c}]
  PROVE  /\ c \in Configs!CommandsOf(of2[e])
         /\ \A d \in Configs!Events : \A x \in Configs!CommandsOf(of[d]) : x \in Configs!CommandsOf(of2[d])
         /\ OneIsArc(of) => OneIsArc(of2)
<1> DEFINE old == of[e]
           new == of2[e]
<1>0. {c} \in SUBSET Commands /\ ~Configs!isArcCommand(c) /\ old \in Blocks
  BY DEF Commands, Configs!isArcCommand
<1>1. /\ c \in Configs!CommandsOf(new) /\ \A x \in Configs!CommandsOf(old) : x \in Configs!CommandsOf(new)
      /\ \A x \in Configs!CommandsOf(new) : x \in Configs!CommandsOf(old) \/ x = c
      /\ ArcBlocks(new) = ArcBlocks(old)
  <2>1. CASE new = Configs!Appended(old, {c})
    <3> HIDE DEF old, new
    <3>p. \E n : /\ n \notin DOMAIN old /\ DOMAIN Configs!Appended(old, {c}) = DOMAIN old \cup {n}
                 /\ Configs!Appended(old, {c})[n] = {c}
                 /\ \A i \in DOMAIN old : Configs!Appended(old, {c})[i] = old[i]
      BY <1>0, BlockAppended, Zenon
    <3>1. PICK n : /\ n \notin DOMAIN old /\ DOMAIN new = DOMAIN old \cup {n}
                   /\ new[n] = {c} /\ \A i \in DOMAIN old : new[i] = old[i]
      BY <2>1, <3>p, Zenon
    <3>2. ArcBlocks(new) = ArcBlocks(old)
      BY <1>0, <3>1 DEF ArcBlocks
    <3> QED BY <3>1, <3>2 DEF Configs!CommandsOf
  <2>2. CASE \E i \in DOMAIN old : new = [old EXCEPT ![i] = @ \cup {c}]
    <3> HIDE DEF old, new
    <3>1. PICK i \in DOMAIN old : new = [old EXCEPT ![i] = @ \cup {c}]
      BY <2>2
    <3>2. /\ DOMAIN new = DOMAIN old /\ new[i] = old[i] \cup {c}
          /\ \A j \in DOMAIN old : j # i => new[j] = old[j]
      BY <1>0, <3>1, BlocksOf
    <3>3. ArcBlocks(new) = ArcBlocks(old)
      BY <1>0, <3>2 DEF ArcBlocks
    <3> QED BY <3>2, <3>3 DEF Configs!CommandsOf
  <2> QED BY <2>1, <2>2
<1>2. OneIsArc(of) => OneIsArc(of2)
  <2>1. "notice" \in Configs!Events /\ "work" \in Configs!Events
    BY DEF Configs!Events
  <2> HIDE DEF old, new
  <2>2. ArcBlocks(of2["notice"]) = ArcBlocks(of["notice"])
    BY <1>1, <2>1 DEF old, new
  <2>3. \A x \in Configs!CommandsOf(of2["work"]) : x \in Configs!CommandsOf(of["work"]) \/ x = c
    BY <1>1, <2>1 DEF old, new
  <2> QED BY <1>0, <2>2, <2>3 DEF OneIsArc
<1> QED BY <1>1, <1>2

LEMMA ConfigStep ==
  ASSUME Configs!ConfigAssumption, ConfigInv, [Configs!Next]_(Configs!vars)
  PROVE  ConfigInv'
<1>0. ConfigTypes /\ \A c \in Mine : c \notin Configs!Helpers
  BY DEF ConfigInv, Configs!ConfigAssumption
<1>t. text = [is |-> text.is, of |-> text.of] /\ text.of \in [Configs!Events -> Blocks]
  BY <1>0 DEF ConfigTypes, FileT
<1>1. ASSUME NEW p \in Arcs, Configs!Install(p) \/ Configs!WriteConfig(p)
      PROVE  ConfigInv'
  <2>1. /\ writing' = [writing EXCEPT ![p] = [begun |-> TRUE, read |-> text]]
        /\ UNCHANGED <<named, text, theirs, raced, armed>>
    BY <1>1 DEF Configs!Install, Configs!WriteConfig, Configs!Read
  <2>2. ConfigTypes'
    BY <1>0, <2>1 DEF ConfigTypes
  <2>3. \A q \in Arcs : writing'[q].begun => writing'[q].read = text \/ (writing[q].begun /\ writing'[q] = writing[q])
    BY <1>0, <2>1 DEF ConfigTypes
  <2> QED BY <2>1, <2>2, <2>3 DEF ConfigInv, HasAll, OneIsArc
<1>2. ASSUME NEW p \in Arcs, Configs!Write(p)
      PROVE  ConfigInv'
  <2> DEFINE of == writing[p].read.of
  <2>1. /\ writing[p].begun /\ text'.of = Configs!Written(of, p)
        /\ text' = [is |-> text'.is, of |-> text'.of] /\ text'.is \in {"object", "garbled"}
        /\ writing' = [writing EXCEPT ![p] = Configs!Idle]
        /\ armed' = TRUE /\ UNCHANGED <<named, theirs, raced>>
    BY <1>2 DEF Configs!Write
  <2>2. of \in [Configs!Events -> Blocks]
    BY <1>0 DEF ConfigTypes, FileT
  <2> HIDE DEF of
  <2>3. Configs!Idle \in [begun : BOOLEAN, read : FileT] /\ Configs!Idle.begun = FALSE
    <3>1. <<>> \in Blocks
      <4>1. {} \subseteq 0..1 /\ <<>> \in [{} -> SUBSET Commands]
        OBVIOUS
      <4> QED BY <4>1 DEF Blocks, Numbers
    <3> QED BY <3>1 DEF Configs!Idle, FileT, Configs!Absent, Configs!NoBlocks
  <2>4. text' \in FileT /\ writing' \in [Arcs -> [begun : BOOLEAN, read : FileT]]
    <3>1. text'.of \in [Configs!Events -> Blocks]
      BY <2>1, <2>2, Installed
    <3> QED BY <1>0, <2>1, <2>3, <3>1 DEF ConfigTypes, FileT
  <2>5. ConfigTypes'
    BY <1>0, <2>1, <2>4 DEF ConfigTypes
  <2>6. named \in Configs!HookFiles => OneIsArc(text'.of)
    BY <2>1, <2>2, Installed
  <2>7. ASSUME named # "cursor hooks.json", ~raced
        PROVE  HasAll(text'.of) /\ \A q \in Arcs : writing'[q].begun => HasAll(writing'[q].read.of)
    <3>1. HasAll(of)
      BY <2>1, <2>7 DEF ConfigInv, of
    <3>2. \A t \in theirs : t[1] \in Configs!Events /\ t[2] \in Mine \ Configs!Helpers
      BY <1>0 DEF ConfigTypes
    <3>3. HasAll(text'.of)
      BY <2>1, <2>2, <2>7, <3>1, <3>2, Installed DEF HasAll
    <3>4. \A q \in Arcs : writing'[q].begun => writing[q].begun /\ writing'[q] = writing[q]
      BY <1>0, <2>1, <2>3 DEF ConfigTypes
    <3> QED BY <2>7, <3>3, <3>4 DEF ConfigInv
  <2> QED BY <2>1, <2>5, <2>6, <2>7 DEF ConfigInv, HasAll, OneIsArc
<1>3. CASE Configs!Garble \/ Configs!Repair
  <2>1. /\ text'.of = text.of /\ text' \in FileT /\ (raced => raced')
        /\ UNCHANGED <<named, writing, armed, theirs>>
    <3>1. text' = [text EXCEPT !.is = "garbled"] \/ text' = [text EXCEPT !.is = "object"]
      BY <1>3 DEF Configs!Garble, Configs!Repair
    <3> QED BY <1>0, <1>3, <3>1 DEF Configs!Garble, Configs!Repair, Configs!Edited, ConfigTypes, FileT
  <2> QED BY <1>0, <2>1 DEF ConfigInv, ConfigTypes, HasAll, OneIsArc
<1>4. ASSUME NEW e \in Configs!Events, NEW c \in Mine, Configs!Add(e, c)
      PROVE  ConfigInv'
  <2> DEFINE of2 == text'.of
  <2>1. /\ theirs' = theirs \cup {<<e, c>>} /\ UNCHANGED <<named, writing, armed>>
        /\ raced' = (raced \/ \E p \in Arcs : writing[p].begun)
    BY <1>4 DEF Configs!Add, Configs!Edited
  <2>2. \/ text' = [is |-> "object", of |-> [text.of EXCEPT ![e] = Configs!Appended(@, {c})]]
        \/ \E i \in DOMAIN text.of[e] : text' = [text EXCEPT !.of[e][i] = @ \cup {c}]
    BY <1>4 DEF Configs!Add
  <2>3. text.of[e] \in Blocks /\ {c} \in SUBSET Commands
    BY <1>t DEF Commands
  <2>4. /\ text' \in FileT /\ (\A d \in Configs!Events : d # e => of2[d] = text.of[d])
        /\ \/ of2[e] = Configs!Appended(text.of[e], {c})
           \/ \E i \in DOMAIN text.of[e] : of2[e] = [text.of[e] EXCEPT ![i] = @ \cup {c}]
    <3>1. CASE text' = [is |-> "object", of |-> [text.of EXCEPT ![e] = Configs!Appended(@, {c})]]
      <4>1. Configs!Appended(text.of[e], {c}) \in Blocks
        BY <2>3, BlockAppended
      <4> QED BY <1>t, <3>1, <4>1 DEF FileT
    <3>2. ASSUME NEW i \in DOMAIN text.of[e], text' = [text EXCEPT !.of[e][i] = @ \cup {c}]
          PROVE  /\ text' \in FileT /\ (\A d \in Configs!Events : d # e => of2[d] = text.of[d])
                 /\ of2[e] = [text.of[e] EXCEPT ![i] = @ \cup {c}]
      <4> DEFINE new == [text.of[e] EXCEPT ![i] = @ \cup {c}]
      <4>1. new \in Blocks
        <5>1. DOMAIN text.of[e] \in Numbers /\ text.of[e] \in [DOMAIN text.of[e] -> SUBSET Commands]
          BY <2>3, BlocksOf
        <5>2. new \in [DOMAIN text.of[e] -> SUBSET Commands]
          BY <2>3, <5>1
        <5> QED BY <5>1, <5>2 DEF Blocks
      <4>2. text' = [text EXCEPT !.of = [text.of EXCEPT ![e] = new]]
        BY <1>0, <3>2 DEF ConfigTypes, FileT
      <4> HIDE DEF new
      <4>3. text'.of = [text.of EXCEPT ![e] = new] /\ text' \in FileT
        BY <1>0, <4>1, <4>2 DEF ConfigTypes, FileT
      <4> QED BY <1>t, <4>3 DEF new
    <3> QED BY <2>2, <3>1, <3>2
  <2>5. of2 \in [Configs!Events -> Blocks]
    BY <2>4 DEF FileT
  <2> HIDE DEF of2
  <2>6. /\ c \in Configs!CommandsOf(of2[e])
        /\ \A d \in Configs!Events : \A x \in Configs!CommandsOf(text.of[d]) : x \in Configs!CommandsOf(of2[d])
        /\ OneIsArc(text.of) => OneIsArc(of2)
    <3>1. text.of \in [Configs!Events -> Blocks] /\ c \in Mine \ Configs!Helpers
      BY <1>0, <1>t
    <3>2. /\ \A d \in Configs!Events : d # e => of2[d] = text.of[d]
          /\ \/ of2[e] = Configs!Appended(text.of[e], {c})
             \/ \E i \in DOMAIN text.of[e] : of2[e] = [text.of[e] EXCEPT ![i] = @ \cup {c}]
      BY <2>4
    <3> QED BY <2>5, <3>1, <3>2, AddedTo, Zenon
  <2>7. ConfigTypes'
    BY <1>0, <2>1, <2>4 DEF ConfigTypes
  <2>8. ASSUME named # "cursor hooks.json", ~raced'
        PROVE  /\ \A t \in theirs' : t[2] \in Configs!CommandsOf(of2[t[1]])
               /\ \A q \in Arcs : ~writing'[q].begun
    <3>1. HasAll(text.of) /\ \A q \in Arcs : ~writing'[q].begun
      BY <2>1, <2>8 DEF ConfigInv
    <3>2. \A t \in theirs : t[1] \in Configs!Events /\ t[2] \in Configs!CommandsOf(of2[t[1]])
      BY <1>0, <2>6, <3>1 DEF ConfigTypes, HasAll
    <3> QED BY <2>1, <2>6, <3>1, <3>2
  <2>9. armed' /\ named' \in Configs!HookFiles => OneIsArc(of2)
    BY <2>1, <2>6 DEF ConfigInv
  <2>10. (\E i : ArcBlocks(of2["notice"]) = {i}) <=> \E i : ArcBlocks(text'.of["notice"]) = {i}
    BY DEF of2
  <2> QED BY <2>1, <2>7, <2>8, <2>9, <2>10 DEF ConfigInv, OneIsArc, HasAll, of2
<1>5. CASE UNCHANGED Configs!vars
  BY <1>5 DEF ConfigInv, ConfigTypes, HasAll, OneIsArc, Configs!vars
<1> QED BY <1>1, <1>2, <1>3, <1>4, <1>5 DEF Configs!Next

LEMMA OneBlockIsArcs ==
  ASSUME ConfigInv
  PROVE  Configs!TheirsSurvive /\ Configs!NoOrphans
<1>1. Configs!TheirsSurvive
  BY DEF ConfigInv, HasAll, Configs!TheirsSurvive, Configs!Kept
<1>2. Configs!NoOrphans
  <2> SUFFICES ASSUME armed, named \in Configs!HookFiles
               PROVE  /\ Configs!Cardinality(ArcBlocks(text.of["notice"])) = 1
                      /\ named = "settings.local.json" =>
                           \A c \in Configs!CommandsOf(text.of["work"]) : ~Configs!isArcCommand(c)
    BY DEF Configs!NoOrphans, ArcBlocks
  <2>1. PICK i : ArcBlocks(text.of["notice"]) = {i}
    BY DEF ConfigInv, OneIsArc
  <2>2. Configs!Cardinality({i}) = Cardinality({i})
    BY Zenon DEF Configs!Cardinality, Cardinality
  <2>3. Cardinality({i}) = 1
    BY FS_Singleton
  <2> QED BY <2>1, <2>2, <2>3 DEF ConfigInv, OneIsArc
<1> QED BY <1>1, <1>2

\* What the user has in a file stays there, and an installation leaves one command of
\* Arc's for an event.
LEMMA KeptConfigs ==
  Configs!Spec => [](Configs!ConfigAssumption => Configs!TheirsSurvive /\ Configs!NoOrphans)
<1> DEFINE Inv == Configs!ConfigAssumption => ConfigInv
<1>1. Configs!Init => Inv
  <2> SUFFICES ASSUME Configs!Init PROVE ConfigInv
    OBVIOUS
  <2>0. {1, 2} \in Numbers /\ {1} \in Numbers /\ {} \in Numbers
    <3>1. {1, 2} \subseteq 0..2 /\ {1} \subseteq 0..2 /\ {} \subseteq 0..2
      OBVIOUS
    <3> QED BY <3>1 DEF Numbers
  <2>1. <<>> \in Blocks
    <3>1. <<>> \in [{} -> SUBSET Commands]
      OBVIOUS
    <3> QED BY <2>0, <3>1 DEF Blocks
  <2>2. Configs!Absent \in FileT
    BY <2>1 DEF FileT, Configs!Absent, Configs!NoBlocks
  <2>3. ASSUME NEW c \in Mine
        PROVE  Configs!Older(c) \in FileT /\ c \in Configs!CommandsOf(Configs!Older(c).of["notice"])
    <3> DEFINE itsNotice == << {c, Legacy}, {Legacy} >>
               itsWork == << {Legacy} >>
    <3>1. {c, Legacy} \in SUBSET Commands /\ {Legacy} \in SUBSET Commands
      BY DEF Commands, Configs!Helpers
    <3>2. itsNotice \in [{1, 2} -> SUBSET Commands] /\ itsWork \in [{1} -> SUBSET Commands]
      BY <3>1
    <3>3. itsNotice \in Blocks /\ itsWork \in Blocks
      <4> HIDE DEF itsNotice, itsWork
      <4> QED BY <2>0, <3>2 DEF Blocks
    <3>4. c \in Configs!CommandsOf(itsNotice)
      <4>1. 1 \in DOMAIN itsNotice /\ c \in itsNotice[1]
        OBVIOUS
      <4> HIDE DEF itsNotice
      <4> QED BY <4>1 DEF Configs!CommandsOf
    <3>5. Configs!Older(c) = [is |-> "object", of |-> [e \in Configs!Events |->
            CASE e = "notice" -> itsNotice [] e = "work" -> itsWork [] OTHER -> <<>>]]
      BY DEF Configs!Older
    <3> HIDE DEF itsNotice, itsWork
    <3>6. Configs!Older(c).of["notice"] = itsNotice
      BY <3>5 DEF Configs!Events
    <3>7. Configs!Older(c) \in FileT
      BY <2>1, <3>3, <3>5 DEF FileT
    <3> QED BY <3>4, <3>6, <3>7
  <2>4. /\ text \in FileT /\ theirs \subseteq Configs!Events \X Mine /\ HasAll(text.of)
    <3>1. PICK old \in BOOLEAN, c \in Mine :
            LET left == old /\ named \in Configs!HookFiles IN
              /\ text = IF left THEN Configs!Older(c) ELSE Configs!Absent
              /\ theirs = IF left THEN {<<"notice", c>>} ELSE {}
      BY DEF Configs!Init
    <3>2. CASE old /\ named \in Configs!HookFiles
      BY <2>3, <3>1, <3>2 DEF HasAll, Configs!Events
    <3>3. CASE ~(old /\ named \in Configs!HookFiles)
      BY <2>2, <3>1, <3>3 DEF HasAll
    <3> QED BY <3>2, <3>3
  <2>5. writing = [p \in Arcs |-> Configs!Idle] /\ ~armed
    BY DEF Configs!Init
  <2>6. Configs!Idle \in [begun : BOOLEAN, read : FileT] /\ ~Configs!Idle.begun
    BY <2>2 DEF Configs!Idle
  <2>7. writing \in [Arcs -> [begun : BOOLEAN, read : FileT]] /\ \A p \in Arcs : ~writing[p].begun
    BY <2>5, <2>6
  <2> QED BY <2>4, <2>5, <2>7 DEF ConfigInv, ConfigTypes
<1>2. Inv /\ [Configs!Next]_(Configs!vars) => Inv'
  BY ConfigStep
<1>3. Inv => (Configs!ConfigAssumption => Configs!TheirsSurvive /\ Configs!NoOrphans)
  BY OneBlockIsArcs
<1> QED BY <1>1, <1>2, <1>3, PTL DEF Configs!Spec

-----------------------------------------------------------------------------
(* The first prompt: SeededOnce.  At most one of what is typed can submit,  *)
(* and nothing once the composer took it; where a glyph was seen the gates  *)
(* are behind.                                                              *)

Submits(key) == key \in {"prompt", "enter"}

ScreensInv ==
  /\ ahead \in Seq(Gates)
  /\ \A i \in 1..Len(chunks) : chunks[i] \subseteq Gates \cup {Terminal!Glyph} /\ (Terminal!Glyph \in chunks[i] => ahead = <<>>)
  /\ chunks \in Seq(SUBSET (Gates \cup {Terminal!Glyph}))
  /\ gatesLeft \subseteq Gates

TypedInv ==
  /\ typed \in Seq(Gates \cup {"prompt", "enter"})
  /\ \A i, j \in 1..Len(typed) : Submits(typed[i]) /\ Submits(typed[j]) => i = j
  /\ \A i \in 1..Len(typed) : Submits(typed[i]) => delivered /\ ~settling /\ submitted = 0
  /\ settling => delivered /\ submitted = 0
  /\ submitted \in {0, 1} /\ (submitted = 1 => delivered)
  /\ early \in BOOLEAN /\ lapsed \in BOOLEAN /\ glyphed \in BOOLEAN
  /\ (early => delivered) /\ (lapsed => delivered)

\* The gates were passed before the prompt was delivered.
GatesBehind ==
  glyphed /\ ~lapsed => ~early /\ (delivered => ahead = <<>>)

ReadinessInv == ScreensInv /\ TypedInv /\ GatesBehind

LEMMA Typing ==
  ASSUME NEW S, NEW s \in Seq(S), NEW x \in S
  PROVE  /\ Append(s, x) \in Seq(S) /\ Len(Append(s, x)) = Len(s) + 1 /\ Append(s, x)[Len(s) + 1] = x
         /\ \A i \in 1..Len(s) : Append(s, x)[i] = s[i]
OBVIOUS

LEMMA Taking ==
  ASSUME NEW S, NEW s \in Seq(S), s # <<>>
  PROVE  /\ Tail(s) \in Seq(S) /\ Len(Tail(s)) = Len(s) - 1 /\ Head(s) = s[1] /\ Head(s) \in S /\ Len(s) >= 1
         /\ \A i \in 1..Len(Tail(s)) : Tail(s)[i] = s[i + 1] /\ i + 1 \in 1..Len(s)
OBVIOUS

LEMMA Changing ==
  ASSUME NEW S, NEW s \in Seq(S), NEW n \in 1..Len(s), NEW x \in S
  PROVE  /\ [s EXCEPT ![n] = x] \in Seq(S) /\ Len([s EXCEPT ![n] = x]) = Len(s)
         /\ \A i \in 1..Len(s) : [s EXCEPT ![n] = x][i] = IF i = n THEN x ELSE s[i]
OBVIOUS

LEMMA PaintStep ==
  ASSUME ReadinessInv, Terminal!ReadinessAssumption, Terminal!Paint
  PROVE  ReadinessInv'
<1> DEFINE C == SUBSET (Gates \cup {Terminal!Glyph})
<1>1. PICK shown \in {{}, Terminal!Screen} :
        \/ chunks' = Append(chunks, shown)
        \/ chunks # <<>> /\ chunks' = [chunks EXCEPT ![Len(chunks)] = @ \cup shown]
  BY DEF Terminal!Paint
<1>2. UNCHANGED <<seed, glyphed, ahead, gatesLeft, delivered, fallback, settling, lapsed, typed, early, submitted>>
  BY DEF Terminal!Paint, Terminal!launchVars, Terminal!driverVars
<1>3. shown \in C /\ (Terminal!Glyph \in shown => ahead = <<>>)
  <2>1. CASE ahead = <<>>
    BY <1>1, <2>1 DEF Terminal!Screen
  <2>2. CASE ahead # <<>>
    <3>1. Head(ahead) \in Gates
      BY <2>2 DEF ReadinessInv, ScreensInv
    <3>2. Terminal!Glyph \notin Gates
      BY DEF Terminal!ReadinessAssumption
    <3> QED BY <1>1, <2>2, <3>1, <3>2 DEF Terminal!Screen
  <2> QED BY <2>1, <2>2
<1>4. chunks \in Seq(C) /\ \A i \in 1..Len(chunks) : Terminal!Glyph \in chunks[i] => ahead = <<>>
  BY DEF ReadinessInv, ScreensInv
<1> HIDE DEF C
<1>5. chunks' \in Seq(C) /\ \A i \in 1..Len(chunks') : Terminal!Glyph \in chunks'[i] => ahead = <<>>
  <2>1. CASE chunks' = Append(chunks, shown)
    <3>1. /\ Append(chunks, shown) \in Seq(C) /\ Len(chunks') = Len(chunks) + 1 /\ chunks'[Len(chunks) + 1] = shown
          /\ \A i \in 1..Len(chunks) : chunks'[i] = chunks[i]
      BY <1>3, <1>4, <2>1, Typing
    <3>2. \A i \in 1..Len(chunks') : i \in 1..Len(chunks) \/ i = Len(chunks) + 1
      BY <1>4, <3>1
    <3> QED BY <1>3, <1>4, <2>1, <3>1, <3>2
  <2>2. CASE chunks # <<>> /\ chunks' = [chunks EXCEPT ![Len(chunks)] = @ \cup shown]
    <3>1. Len(chunks) \in 1..Len(chunks)
      BY <1>4, <2>2
    <3>2. chunks[Len(chunks)] \cup shown \in C
      <4>1. chunks[Len(chunks)] \in C
        BY <1>4, <3>1
      <4> QED BY <1>3, <4>1 DEF C
    <3>3. chunks' \in Seq(C) /\ Len(chunks') = Len(chunks)
          /\ \A i \in 1..Len(chunks) : chunks'[i] = IF i = Len(chunks) THEN chunks[Len(chunks)] \cup shown ELSE chunks[i]
      BY <1>4, <2>2, <3>1, <3>2, Changing
    <3> QED BY <1>3, <1>4, <3>3
  <2> QED BY <1>1, <2>1, <2>2
<1>6. \A i \in 1..Len(chunks') : chunks'[i] \in C
  BY <1>5
<1>7. ScreensInv'
  BY <1>2, <1>5, <1>6 DEF ReadinessInv, ScreensInv, C
<1> QED BY <1>2, <1>7 DEF ReadinessInv, TypedInv, GatesBehind

LEMMA ReadStep ==
  ASSUME ReadinessInv, Terminal!ReadinessAssumption, Terminal!Read
  PROVE  ReadinessInv'
<1>1. /\ typed # <<>> /\ typed' = Tail(typed)
      /\ ahead' = IF ahead # <<>> /\ Head(typed) = Head(ahead) THEN Tail(ahead) ELSE ahead
      /\ early' = (early \/ (ahead # <<>> /\ Submits(Head(typed))))
      /\ submitted' = IF ahead = <<>> /\ Submits(Head(typed)) THEN submitted + 1 ELSE submitted
      /\ UNCHANGED <<seed, glyphed, chunks, gatesLeft, delivered, fallback, settling, lapsed>>
  BY DEF Terminal!Read, Terminal!launchVars, Terminal!driverVars, Submits
<1>2. ahead' \in Seq(Gates) /\ (ahead = <<>> => ahead' = <<>>)
  BY <1>1 DEF ReadinessInv, ScreensInv
<1>3. ScreensInv'
  BY <1>1, <1>2 DEF ReadinessInv, ScreensInv
<1> DEFINE K == Gates \cup {"prompt", "enter"}
<1>4. typed \in Seq(K)
  BY DEF ReadinessInv, TypedInv
<1> HIDE DEF K
<1>5. /\ typed' \in Seq(K) /\ Len(typed') = Len(typed) - 1 /\ Head(typed) = typed[1] /\ Len(typed) \in Nat /\ Len(typed) >= 1
      /\ \A i \in 1..Len(typed') : typed'[i] = typed[i + 1] /\ i + 1 \in 1..Len(typed)
  BY <1>1, <1>4, Taking
<1>6. TypedInv
  BY DEF ReadinessInv
<1>7. \A i, j \in 1..Len(typed') : Submits(typed'[i]) /\ Submits(typed'[j]) => i = j
  <2>1. ASSUME NEW i \in 1..Len(typed'), NEW j \in 1..Len(typed'), Submits(typed'[i]), Submits(typed'[j])
        PROVE  i = j
    <3>1. i + 1 = j + 1
      BY <1>5, <1>6, <2>1 DEF TypedInv
    <3> QED BY <3>1
  <2> QED BY <2>1
<1>8. CASE Submits(Head(typed))
  <2>1. 1 \in 1..Len(typed) /\ Submits(typed[1])
    BY <1>5, <1>8
  <2>2. delivered /\ ~settling /\ submitted = 0
    BY <1>6, <2>1 DEF TypedInv
  <2>3. \A i \in 1..Len(typed') : ~Submits(typed'[i])
    <3> SUFFICES ASSUME NEW i \in 1..Len(typed'), Submits(typed'[i]) PROVE FALSE
      OBVIOUS
    <3>1. i + 1 = 1
      BY <1>5, <1>6, <2>1 DEF TypedInv
    <3> QED BY <3>1
  <2>4. TypedInv'
    BY <1>1, <1>5, <1>6, <2>2, <2>3 DEF TypedInv, K
  <2>5. GatesBehind'
    BY <1>1, <1>2, <2>2, <1>8 DEF ReadinessInv, GatesBehind, TypedInv
  <2> QED BY <1>3, <2>4, <2>5 DEF ReadinessInv
<1>9. CASE ~Submits(Head(typed))
  <2>1. submitted' = submitted /\ early' = early
    BY <1>1, <1>6, <1>9 DEF TypedInv
  <2>2. \A i \in 1..Len(typed') : Submits(typed'[i]) => delivered /\ ~settling /\ submitted = 0
    BY <1>5, <1>6 DEF TypedInv
  <2>3. TypedInv'
    BY <1>1, <1>5, <1>6, <1>7, <2>1, <2>2 DEF TypedInv, K
  <2>4. GatesBehind'
    BY <1>1, <1>2, <2>1 DEF ReadinessInv, GatesBehind
  <2> QED BY <1>3, <2>3, <2>4 DEF ReadinessInv
<1> QED BY <1>8, <1>9

\* A delivery, of a prompt that was not delivered yet.
LEMMA DeliveryStep ==
  ASSUME ReadinessInv, Terminal!ReadinessAssumption, ~delivered, NEW how, Terminal!DeliverInto(typed, how),
         how = "fallback" \/ (how = "ready" /\ (glyphed => ahead = <<>>)),
         ScreensInv', UNCHANGED <<seed, glyphed, ahead, gatesLeft, early, submitted>>
  PROVE  ReadinessInv'
<1> DEFINE K == Gates \cup {"prompt", "enter"}
<1>1. /\ delivered' = TRUE /\ lapsed' = (how = "fallback") /\ settling' = (seed = "prefill")
      /\ typed' = IF seed = "prefill" THEN typed ELSE Append(typed, "prompt")
  BY DEF Terminal!DeliverInto
<1>2. TypedInv /\ GatesBehind
  BY DEF ReadinessInv
<1>3. submitted = 0 /\ ~settling /\ ~early /\ \A i \in 1..Len(typed) : ~Submits(typed[i])
  BY <1>2 DEF TypedInv
<1>4. typed \in Seq(K) /\ "prompt" \in K /\ Submits("prompt")
  BY <1>2 DEF TypedInv, Submits
<1>5. TypedInv'
  <2>1. CASE seed = "prefill"
    BY <1>1, <1>2, <1>3, <2>1 DEF TypedInv
  <2>2. CASE seed # "prefill"
    <3> HIDE DEF K
    <3>1. /\ typed' \in Seq(K) /\ Len(typed') = Len(typed) + 1
          /\ \A i \in 1..Len(typed) : typed'[i] = typed[i]
      BY <1>1, <1>4, <2>2, Typing
    <3>2. \A i \in 1..Len(typed') : Submits(typed'[i]) => i = Len(typed) + 1
      <4>1. \A i \in 1..Len(typed') : i \in 1..Len(typed) \/ i = Len(typed) + 1
        BY <1>4, <3>1
      <4> QED BY <1>3, <3>1, <4>1
    <3>3. settling' = FALSE
      BY <1>1, <2>2
    <3> QED BY <1>1, <1>2, <1>3, <3>1, <3>2, <3>3 DEF TypedInv, K
  <2> QED BY <2>1, <2>2
<1>6. GatesBehind'
  BY <1>1, <1>3 DEF GatesBehind
<1> QED BY <1>5, <1>6 DEF ReadinessInv

LEMMA OnDataStep ==
  ASSUME ReadinessInv, Terminal!ReadinessAssumption, Terminal!OnData
  PROVE  ReadinessInv'
<1> DEFINE C == SUBSET (Gates \cup {Terminal!Glyph})
           shown == Head(chunks)
           caught == shown \cap gatesLeft
<1>1. /\ chunks # <<>> /\ chunks' = Tail(chunks) /\ UNCHANGED <<seed, glyphed, ahead, paints, early, submitted>>
      /\ \/ UNCHANGED <<typed, gatesLeft, delivered, fallback, settling, lapsed>>
         \/ ~delivered /\ \E g \in caught : /\ gatesLeft' = gatesLeft \ {g} /\ typed' = Append(typed, g)
                                            /\ UNCHANGED <<delivered, fallback, settling, lapsed>>
         \/ ~delivered /\ UNCHANGED gatesLeft /\ Terminal!IsReady(shown) /\ Terminal!DeliverInto(typed, "ready")
  BY DEF Terminal!OnData, Terminal!launchVars, Terminal!childVars, Terminal!driverVars
<1>2. chunks \in Seq(C) /\ \A i \in 1..Len(chunks) : Terminal!Glyph \in chunks[i] => ahead = <<>>
  BY DEF ReadinessInv, ScreensInv
<1>3. /\ shown \in C /\ (Terminal!Glyph \in shown => ahead = <<>>)
      /\ chunks' \in Seq(C) /\ \A i \in 1..Len(chunks') : chunks'[i] \in C /\ (Terminal!Glyph \in chunks'[i] => ahead = <<>>)
  <2> HIDE DEF C
  <2>1. /\ Tail(chunks) \in Seq(C) /\ shown = chunks[1] /\ shown \in C /\ 1 \in 1..Len(chunks)
        /\ \A i \in 1..Len(Tail(chunks)) : Tail(chunks)[i] = chunks[i + 1] /\ i + 1 \in 1..Len(chunks)
    BY <1>1, <1>2, Taking
  <2>2. \A i \in 1..Len(chunks') : chunks'[i] \in C
    BY <1>1, <2>1
  <2> HIDE DEF shown
  <2> QED BY <1>1, <1>2, <2>1, <2>2
<1>4. gatesLeft' \subseteq Gates => ScreensInv'
  BY <1>1, <1>3 DEF ReadinessInv, ScreensInv
<1>5. gatesLeft \subseteq Gates
  BY DEF ReadinessInv, ScreensInv
<1>6. CASE UNCHANGED <<typed, gatesLeft, delivered, fallback, settling, lapsed>>
  BY <1>1, <1>4, <1>5, <1>6 DEF ReadinessInv, TypedInv, GatesBehind
<1>7. ASSUME ~delivered, NEW g \in caught, gatesLeft' = gatesLeft \ {g}, typed' = Append(typed, g),
             UNCHANGED <<delivered, fallback, settling, lapsed>>
      PROVE  ReadinessInv'
  <2> DEFINE K == Gates \cup {"prompt", "enter"}
  <2>1. g \in Gates /\ g \in K /\ typed \in Seq(K) /\ TypedInv /\ GatesBehind
    BY <1>5 DEF ReadinessInv, TypedInv
  <2>2. ~Submits(g)
    BY <2>1 DEF Terminal!ReadinessAssumption, Submits
  <2> HIDE DEF K, caught
  <2>3. /\ typed' \in Seq(K) /\ Len(typed') = Len(typed) + 1 /\ typed'[Len(typed) + 1] = g
        /\ \A i \in 1..Len(typed) : typed'[i] = typed[i]
    BY <1>7, <2>1, Typing
  <2>4. \A i \in 1..Len(typed') : ~Submits(typed'[i])
    <3>1. \A i \in 1..Len(typed') : i \in 1..Len(typed) \/ i = Len(typed) + 1
      BY <2>1, <2>3
    <3> QED BY <1>7, <2>1, <2>2, <2>3, <3>1 DEF TypedInv
  <2>5. TypedInv' /\ GatesBehind'
    BY <1>1, <1>7, <2>1, <2>3, <2>4 DEF TypedInv, GatesBehind, K
  <2> QED BY <1>4, <1>5, <1>7, <2>5 DEF ReadinessInv
<1>8. CASE ~delivered /\ UNCHANGED gatesLeft /\ Terminal!IsReady(shown) /\ Terminal!DeliverInto(typed, "ready")
  <2>1. glyphed => ahead = <<>>
    BY <1>3, <1>8 DEF Terminal!IsReady
  <2> QED BY <1>1, <1>4, <1>5, <1>8, <2>1, DeliveryStep
<1> QED BY <1>1, <1>6, <1>7, <1>8

LEMMA ReadinessStep ==
  ASSUME ReadinessInv, Terminal!ReadinessAssumption, [Terminal!Next]_(Terminal!vars)
  PROVE  ReadinessInv'
<1>1. CASE Terminal!PassByHand
  <2>1. /\ ahead # <<>> /\ ahead' = Tail(ahead)
        /\ UNCHANGED <<seed, glyphed, paints, chunks, gatesLeft, delivered, fallback, settling, lapsed, typed, early, submitted>>
    BY <1>1 DEF Terminal!PassByHand, Terminal!launchVars, Terminal!driverVars
  <2>2. ahead' \in Seq(Gates)
    BY <2>1 DEF ReadinessInv, ScreensInv
  <2> QED BY <2>1, <2>2 DEF ReadinessInv, ScreensInv, TypedInv, GatesBehind
<1>2. CASE Terminal!Fallback
  <2>1. /\ ~delivered /\ Terminal!DeliverInto(typed, "fallback")
        /\ UNCHANGED <<seed, glyphed, ahead, paints, chunks, gatesLeft, early, submitted>>
    BY <1>2 DEF Terminal!Fallback, Terminal!Undelivered, Terminal!launchVars, Terminal!childVars
  <2>2. ScreensInv'
    BY <2>1 DEF ReadinessInv, ScreensInv
  <2> QED BY <2>1, <2>2, DeliveryStep
<1>3. CASE Terminal!Settle
  <2> DEFINE K == Gates \cup {"prompt", "enter"}
  <2>1. /\ settling /\ settling' = FALSE /\ typed' = Append(typed, "enter")
        /\ UNCHANGED <<seed, glyphed, ahead, paints, chunks, gatesLeft, delivered, fallback, lapsed, early, submitted>>
    BY <1>3 DEF Terminal!Settle, Terminal!launchVars, Terminal!childVars
  <2>2. typed \in Seq(K) /\ "enter" \in K /\ TypedInv
    BY DEF ReadinessInv, TypedInv
  <2> HIDE DEF K
  <2>3. /\ typed' \in Seq(K) /\ Len(typed') = Len(typed) + 1
        /\ \A i \in 1..Len(typed) : typed'[i] = typed[i]
    BY <2>1, <2>2, Typing
  <2>4. \A i \in 1..Len(typed) : ~Submits(typed[i])
    BY <2>1, <2>2 DEF TypedInv
  <2>5. \A i \in 1..Len(typed') : Submits(typed'[i]) => i = Len(typed) + 1
    <3>1. \A i \in 1..Len(typed') : i \in 1..Len(typed) \/ i = Len(typed) + 1
      BY <2>2, <2>3
    <3> QED BY <2>3, <2>4, <3>1
  <2>6. TypedInv'
    BY <2>1, <2>2, <2>3, <2>5 DEF TypedInv, K
  <2> QED BY <2>1, <2>6 DEF ReadinessInv, ScreensInv, GatesBehind
<1>4. CASE UNCHANGED Terminal!vars
  BY <1>4 DEF Terminal!vars, ReadinessInv, ScreensInv, TypedInv, GatesBehind
<1> QED BY <1>1, <1>2, <1>3, <1>4, PaintStep, ReadStep, OnDataStep DEF Terminal!Next

\* Whatever gates there are, in whatever chunks they are painted.
LEMMA PromptOnce == Terminal!Spec => [](Terminal!ReadinessAssumption => Terminal!SeededOnce)
<1> DEFINE Inv == Terminal!ReadinessAssumption => ReadinessInv
<1>1. Terminal!Init => ReadinessInv
  <2> SUFFICES ASSUME Terminal!Init PROVE ReadinessInv
    OBVIOUS
  <2>0. chunks = <<>> /\ gatesLeft = Gates
    BY DEF Terminal!Init
  <2>1. ahead \in Seq(Gates)
    <3>1. \/ ahead = <<>> \/ \E g \in Gates : ahead = <<g>>
          \/ ahead \in Gates \X Gates
      BY DEF Terminal!Init
    <3>2. ASSUME ahead \in Gates \X Gates PROVE ahead \in Seq(Gates)
      <4>1. PICK g, h \in Gates : ahead = <<g, h>>
        BY <3>2
      <4> QED BY <4>1
    <3>3. ASSUME NEW g \in Gates, ahead = <<g>> PROVE ahead \in Seq(Gates)
      BY <3>3
    <3>4. CASE ahead = <<>>
      <4>1. <<>> \in Seq(Gates)
        OBVIOUS
      <4> QED BY <3>4, <4>1, Zenon
    <3> QED BY <3>1, <3>2, <3>3, <3>4
  <2>b. ~early /\ ~lapsed /\ ~settling /\ submitted = 0 /\ glyphed \in BOOLEAN
    BY DEF Terminal!Init
  <2>d. delivered = (seed = "jsonl") /\ early = FALSE /\ lapsed = FALSE
    BY Zenon DEF Terminal!Init
  <2>c. early \in BOOLEAN /\ lapsed \in BOOLEAN /\ (seed = "jsonl" => delivered)
    BY <2>d
  <2>2. TypedInv
    <3>1. CASE seed = "jsonl"
      <4>1. typed = <<"prompt">> /\ Len(typed) = 1
        BY <3>1 DEF Terminal!Init
      <4>2. typed \in Seq(Gates \cup {"prompt", "enter"})
        BY <4>1
      <4>3. \A i, j \in 1..Len(typed) : i = j
        BY <4>1
      <4> QED BY <2>b, <2>c, <3>1, <4>2, <4>3 DEF TypedInv
    <3>2. CASE seed # "jsonl"
      <4>1. typed = <<>>
        BY <3>2 DEF Terminal!Init
      <4>2. typed \in Seq(Gates \cup {"prompt", "enter"}) /\ 1..Len(typed) = {}
        BY <4>1
      <4> QED BY <2>b, <2>c, <3>2, <4>2 DEF TypedInv
    <3> QED BY <3>1, <3>2
  <2>3. GatesBehind
    BY DEF Terminal!Init, GatesBehind
  <2> QED BY <2>0, <2>1, <2>2, <2>3 DEF ReadinessInv, ScreensInv
<1>2. Inv /\ [Terminal!Next]_(Terminal!vars) => Inv'
  BY ReadinessStep
<1>3. Inv => (Terminal!ReadinessAssumption => Terminal!SeededOnce)
  BY DEF ReadinessInv, TypedInv, GatesBehind, Terminal!SeededOnce
<1> QED BY <1>1, <1>2, <1>3, PTL DEF Terminal!Spec

-----------------------------------------------------------------------------
(* The tools: CommentedOnce and Retargeted.  The verbs of an update come in *)
(* an order in which a comment is the last and no citation is taken off     *)
(* after one was put on; and a call comments in its last step only.         *)

Settings == {"revise", "status", "priority"}
VerbT == [verb : Settings \cup {"uncite", "cite", "comment"}, arg : Settings \cup Cites \cup {""}]
HasMore(u) == u.set # {} \/ u.remove \cup u.add # {}

InOrder(s) ==
  /\ s \in Seq(VerbT)
  /\ \A i \in 1..Len(s) : s[i].verb = "comment" => i = Len(s)
  /\ \A i, j \in 1..Len(s) : s[i].verb = "cite" /\ s[j].verb = "uncite" => j < i

\* Of an update that says more, the comment is still to come or the update is over.
Commented(a) ==
  /\ comments[a] <= 1 /\ (comments[a] # 0 => todo[a] = <<>> /\ loaded[a])
  /\ todo[a] # <<>> /\ todo[a][1].verb = "comment" => loaded[a]

\* What is to be cited is still to be put on, or was, and its own call leaves it on.
CitedBy(a, c) ==
  \/ \E i \in 1..Len(todo[a]) : todo[a][i] = Tools!Verb("cite", c)
  \/ /\ c \in cites \/ cutBy[c] # a
     /\ \A i \in 1..Len(todo[a]) : todo[a][i] # Tools!Verb("uncite", c)

CallInv(a) ==
  /\ tries[a] \in Nat /\ comments[a] \in Nat /\ loaded[a] \in BOOLEAN /\ "tool" \in DOMAIN calling[a]
  /\ tries[a] = 0 => comments[a] = 0
  /\ calling[a].tool = "update" =>
       /\ tries[a] # 0 /\ calling[a] \in Tools!Updates /\ InOrder(todo[a])
       /\ HasMore(calling[a]) => Commented(a)
       /\ \A c \in calling[a].add : CitedBy(a, c)

OverAgents(f) == f = [a \in Agents |-> f[a]]
ToolsInv ==
  /\ OverAgents(calling) /\ OverAgents(todo) /\ OverAgents(loaded) /\ OverAgents(tries) /\ OverAgents(comments)
  /\ cutBy = [c \in Cites |-> cutBy[c]]
  /\ \A a \in Agents : CallInv(a)

LEMMA Joined ==
  ASSUME NEW S, NEW s \in Seq(S), NEW t \in Seq(S)
  PROVE  /\ s \o t \in Seq(S) /\ Len(s \o t) = Len(s) + Len(t) /\ Len(s) \in Nat /\ Len(t) \in Nat
         /\ \A i \in 1..Len(s \o t) :
              \/ i \in 1..Len(s) /\ (s \o t)[i] = s[i]
              \/ i > Len(s) /\ i - Len(s) \in 1..Len(t) /\ (s \o t)[i] = t[i - Len(s)]
         /\ \A i \in 1..Len(s) : i \in 1..Len(s \o t) /\ (s \o t)[i] = s[i]
         /\ \A i \in 1..Len(t) : Len(s) + i \in 1..Len(s \o t) /\ (s \o t)[Len(s) + i] = t[i]
OBVIOUS

LEMMA One ==
  ASSUME NEW S, NEW x \in S
  PROVE  <<x>> \in Seq(S) /\ Len(<<x>>) = 1 /\ \A i \in 1..Len(<<x>>) : <<x>>[i] = x
OBVIOUS

LEMMA EachOne ==
  ASSUME NEW name, NEW args, IsFiniteSet(args)
  PROVE  /\ Tools!Each(name, args) \in [1..Cardinality(args) -> {Tools!Verb(name, arg) : arg \in args}]
         /\ Cardinality(args) \in Nat
         /\ \A v \in {Tools!Verb(name, arg) : arg \in args} :
              \E i \in 1..Cardinality(args) : Tools!Each(name, args)[i] = v
<1> DEFINE verbs == {Tools!Verb(name, arg) : arg \in args}
           n == Cardinality(args)
           Fits(s) == \A v \in verbs : \E i \in 1..n : s[i] = v
<1>1. Tools!Cardinality(args) = n
  BY Zenon DEF Tools!Cardinality, Cardinality
<1>2. n \in Nat /\ ExistsBijection(1..n, args)
  BY FS_CardinalityType
<1> HIDE DEF n
<1>3. PICK f \in [1..n -> args] : \A x \in args : \E i \in 1..n : f[i] = x
  BY <1>2 DEF ExistsBijection, Bijection, Injection, Surjection
<1> DEFINE g == [i \in 1..n |-> Tools!Verb(name, f[i])]
<1>4. g \in [1..n -> verbs] /\ Fits(g)
  <2>1. g \in [1..n -> verbs]
    BY <1>3
  <2>2. ASSUME NEW x \in args PROVE \E i \in 1..n : g[i] = Tools!Verb(name, x)
    BY <1>3
  <2> QED BY <2>1, <2>2
<1> HIDE DEF g
<1>5. \E s \in [1..n -> verbs] : Fits(s)
  BY <1>4
<1>6. Tools!Each(name, args) = CHOOSE s \in [1..n -> verbs] : Fits(s)
  BY <1>1 DEF Tools!Each
<1> HIDE DEF verbs, Fits
<1>7. Tools!Each(name, args) \in [1..n -> verbs] /\ Fits(Tools!Each(name, args))
  BY <1>5, <1>6
<1> QED BY <1>2, <1>7 DEF n, verbs, Fits

LEMMA EachSeq ==
  ASSUME NEW name \in {"uncite", "cite"}, NEW args \in SUBSET Cites, IsFiniteSet(Cites)
  PROVE  /\ Tools!Each(name, args) \in Seq(VerbT)
         /\ \A i \in 1..Len(Tools!Each(name, args)) : Tools!Each(name, args)[i].verb = name
         /\ \A c \in args : \E i \in 1..Len(Tools!Each(name, args)) : Tools!Each(name, args)[i] = Tools!Verb(name, c)
<1> DEFINE verbs == {Tools!Verb(name, arg) : arg \in args}
           s == Tools!Each(name, args)
           n == Cardinality(args)
<1>1. IsFiniteSet(args)
  BY FS_Subset
<1>2. s \in [1..n -> verbs] /\ n \in Nat /\ \A v \in verbs : \E i \in 1..n : s[i] = v
  <2> DEFINE e == Tools!Each(name, args)
             m == Cardinality(args)
  <2>1. e \in [1..m -> {Tools!Verb(name, arg) : arg \in args}]
    BY <1>1, EachOne
  <2>2. m \in Nat
    BY <1>1, EachOne
  <2>3. \A v \in {Tools!Verb(name, arg) : arg \in args} : \E i \in 1..m : e[i] = v
    BY <1>1, EachOne
  <2> QED BY <2>1, <2>2, <2>3
<1>3. verbs \subseteq VerbT /\ \A v \in verbs : v.verb = name
  <2> SUFFICES ASSUME NEW arg \in args PROVE Tools!Verb(name, arg) \in VerbT /\ Tools!Verb(name, arg).verb = name
    OBVIOUS
  <2> QED BY DEF Tools!Verb, VerbT
<1>4. \A c \in args : Tools!Verb(name, c) \in verbs
  OBVIOUS
<1> HIDE DEF verbs, s, n
<1>5. s \in Seq(verbs) /\ Len(s) = n
  BY <1>2
<1>6. s \in Seq(VerbT)
  BY <1>3, <1>5
<1>7. \A i \in 1..Len(s) : s[i].verb = name
  <2> SUFFICES ASSUME NEW i \in 1..Len(s) PROVE s[i].verb = name
    OBVIOUS
  <2>1. s[i] \in verbs
    BY <1>2, <1>5
  <2> QED BY <1>3, <2>1
<1>8. \A c \in args : \E i \in 1..Len(s) : s[i] = Tools!Verb(name, c)
  BY <1>2, <1>4, <1>5
<1> QED BY <1>6, <1>7, <1>8 DEF s

LEMMA FieldsSeq ==
  ASSUME NEW u, u.set \subseteq Settings
  PROVE  /\ Tools!Fields(u) \in Seq(VerbT)
         /\ \A i \in 1..Len(Tools!Fields(u)) : Tools!Fields(u)[i].verb \in Settings
         /\ u.set # {} => Tools!Fields(u) # <<>>
<1> DEFINE S == {v \in VerbT : v.verb \in Settings}
           p(f) == Tools!Part(u, f)
<1>1. ASSUME NEW f \in Settings
      PROVE  p(f) \in Seq(S) /\ (f \in u.set => Len(p(f)) = 1)
  <2>1. Tools!Verb(f, f) \in S
    BY DEF Tools!Verb, VerbT, Settings
  <2> HIDE DEF S
  <2> QED BY <2>1 DEF Tools!Part
<1>2. "revise" \in Settings /\ "status" \in Settings /\ "priority" \in Settings
  BY DEF Settings
<1> DEFINE x == p("revise")
           y == p("status")
           z == p("priority")
<1>3. x \in Seq(S) /\ y \in Seq(S) /\ z \in Seq(S)
  BY <1>1, <1>2
<1>4. Tools!Fields(u) = (x \o y) \o z
  BY DEF Tools!Fields
<1>5. u.set # {} => Len(x) = 1 \/ Len(y) = 1 \/ Len(z) = 1
  <2>1. ASSUME u.set # {} PROVE "revise" \in u.set \/ "status" \in u.set \/ "priority" \in u.set
    BY <2>1 DEF Settings
  <2> QED BY <1>1, <1>2, <2>1
<1> HIDE DEF x, y, z, p, S
<1>6. x \o y \in Seq(S) /\ Len(x \o y) = Len(x) + Len(y)
  BY <1>3, Joined
<1>7. (x \o y) \o z \in Seq(S) /\ Len((x \o y) \o z) = Len(x) + Len(y) + Len(z)
  BY <1>3, <1>6, Joined
<1>8. Len(x) \in Nat /\ Len(y) \in Nat /\ Len(z) \in Nat
  BY <1>3
<1>9. u.set # {} => (x \o y) \o z # <<>>
  <2> DEFINE v == (x \o y) \o z
  <2>1. v \in Seq(S) /\ Len(v) = Len(x) + Len(y) + Len(z)
    BY <1>7
  <2> HIDE DEF v
  <2>2. u.set # {} => Len(v) > 0
    BY <1>5, <1>8, <2>1
  <2>3. u.set # {} => v # <<>>
    BY <2>1, <2>2
  <2> QED BY <2>3 DEF v
<1> DEFINE w == (x \o y) \o z
<1>10. w \in Seq(VerbT) /\ \A i \in 1..Len(w) : w[i] \in S
  <2>1. S \subseteq VerbT
    BY DEF S
  <2>2. w \in Seq(S)
    BY <1>7
  <2> HIDE DEF w
  <2> QED BY <2>1, <2>2
<1>11. \A i \in 1..Len(w) : w[i].verb \in Settings
  <2>1. \A v \in S : v.verb \in Settings
    BY DEF S
  <2> HIDE DEF w
  <2> QED BY <1>10, <2>1
<1>12. u.set # {} => w # <<>>
  BY <1>9
<1>13. Tools!Fields(u) = w
  BY <1>4
<1> HIDE DEF w
<1> QED BY <1>10, <1>11, <1>12, <1>13

LEMMA OrderedCall ==
  ASSUME Tools!ToolsAssumption, NEW u \in Tools!Updates
  PROVE  /\ InOrder(Tools!Ordered(u))
         /\ \A c \in u.add : \E i \in 1..Len(Tools!Ordered(u)) : Tools!Ordered(u)[i] = Tools!Verb("cite", c)
         /\ HasMore(u) => Tools!Ordered(u) # <<>> /\ Tools!Ordered(u)[1].verb # "comment"
<1> DEFINE F == Tools!Fields(u)
           U == Tools!Each("uncite", u.remove)
           C == Tools!Each("cite", u.add)
           K == Tools!Comment(u)
           P == F \o U
           Q == P \o C
           R == Q \o K
<1>1. u.set \subseteq Settings /\ u.remove \in SUBSET Cites /\ u.add \in SUBSET Cites /\ IsFiniteSet(Cites)
  <2>1. Tools!IsFiniteSet(Cites) <=> IsFiniteSet(Cites)
    BY Zenon DEF Tools!IsFiniteSet, IsFiniteSet
  <2> QED BY <2>1 DEF Tools!Updates, Tools!ToolsAssumption, Settings
<1>2. Tools!Ordered(u) = R
  BY DEF Tools!Ordered
<1>3. /\ F \in Seq(VerbT) /\ (\A i \in 1..Len(F) : F[i].verb \in Settings)
      /\ u.set # {} => F # <<>>
  BY <1>1, FieldsSeq
<1>4. /\ U \in Seq(VerbT) /\ (\A i \in 1..Len(U) : U[i].verb = "uncite")
      /\ \A c \in u.remove : \E i \in 1..Len(U) : U[i] = Tools!Verb("uncite", c)
  BY <1>1, EachSeq
<1>5. /\ C \in Seq(VerbT) /\ (\A i \in 1..Len(C) : C[i].verb = "cite")
      /\ \A c \in u.add : \E i \in 1..Len(C) : C[i] = Tools!Verb("cite", c)
  BY <1>1, EachSeq
<1>6. K \in Seq(VerbT) /\ Len(K) <= 1 /\ \A i \in 1..Len(K) : K[i].verb = "comment"
  <2>1. Tools!Verb("comment", "") \in VerbT /\ Tools!Verb("comment", "").verb = "comment"
    BY DEF Tools!Verb, VerbT
  <2> DEFINE k == Tools!Verb("comment", "")
  <2>2. K = <<>> \/ K = <<k>>
    BY DEF Tools!Comment
  <2> HIDE DEF K, k
  <2>3. CASE K = <<>>
    BY <2>3
  <2>4. CASE K = <<k>>
    <3>1. k \in VerbT /\ k.verb = "comment"
      BY <2>1 DEF k
    <3>2. K \in Seq(VerbT) /\ Len(K) = 1 /\ \A i \in 1..Len(K) : K[i] = k
      BY <2>4, <3>1, One
    <3> QED BY <3>1, <3>2
  <2> QED BY <2>2, <2>3, <2>4
<1> HIDE DEF F, U, C, K
<1>7. /\ P \in Seq(VerbT) /\ Len(P) = Len(F) + Len(U) /\ Len(F) \in Nat /\ Len(U) \in Nat
      /\ \A i \in 1..Len(P) : P[i].verb \in Settings \cup {"uncite"}
  <2>0. F \in Seq(VerbT) /\ U \in Seq(VerbT)
    BY <1>3, <1>4
  <2>1. /\ P \in Seq(VerbT) /\ Len(P) = Len(F) + Len(U) /\ Len(F) \in Nat /\ Len(U) \in Nat
        /\ \A i \in 1..Len(P) : \/ i \in 1..Len(F) /\ P[i] = F[i]
                                \/ i > Len(F) /\ i - Len(F) \in 1..Len(U) /\ P[i] = U[i - Len(F)]
    BY <2>0, Joined
  <2> HIDE DEF P
  <2>2. ASSUME NEW i \in 1..Len(P) PROVE P[i].verb \in Settings \cup {"uncite"}
    BY <1>3, <1>4, <2>1
  <2> QED BY <2>1, <2>2
<1> HIDE DEF P
<1>8. /\ Q \in Seq(VerbT) /\ Len(Q) = Len(P) + Len(C) /\ Len(P) \in Nat /\ Len(C) \in Nat
      /\ \A i \in 1..Len(Q) : \/ i \in 1..Len(P) /\ Q[i].verb \in Settings \cup {"uncite"}
                              \/ i > Len(P) /\ Q[i].verb = "cite"
      /\ \A i \in 1..Len(C) : Len(P) + i \in 1..Len(Q) /\ Q[Len(P) + i] = C[i]
  <2>0. P \in Seq(VerbT) /\ C \in Seq(VerbT)
    BY <1>5, <1>7
  <2>1. /\ Q \in Seq(VerbT) /\ Len(Q) = Len(P) + Len(C) /\ Len(P) \in Nat /\ Len(C) \in Nat
        /\ \A i \in 1..Len(Q) : \/ i \in 1..Len(P) /\ Q[i] = P[i]
                                \/ i > Len(P) /\ i - Len(P) \in 1..Len(C) /\ Q[i] = C[i - Len(P)]
        /\ \A i \in 1..Len(C) : Len(P) + i \in 1..Len(Q) /\ Q[Len(P) + i] = C[i]
    BY <2>0, Joined
  <2> HIDE DEF Q
  <2>2. ASSUME NEW i \in 1..Len(Q)
        PROVE  \/ i \in 1..Len(P) /\ Q[i].verb \in Settings \cup {"uncite"}
               \/ i > Len(P) /\ Q[i].verb = "cite"
    BY <1>5, <1>7, <2>1
  <2> QED BY <2>1, <2>2
<1> HIDE DEF Q
<1>9. /\ R \in Seq(VerbT) /\ Len(R) = Len(Q) + Len(K) /\ Len(Q) \in Nat /\ Len(K) \in Nat
      /\ \A i \in 1..Len(R) : \/ i \in 1..Len(Q) /\ R[i] = Q[i]
                              \/ i > Len(Q) /\ i - Len(Q) \in 1..Len(K) /\ R[i].verb = "comment"
      /\ \A i \in 1..Len(Q) : i \in 1..Len(R) /\ R[i] = Q[i]
  <2>0. Q \in Seq(VerbT) /\ K \in Seq(VerbT)
    BY <1>6, <1>8
  <2>1. /\ R \in Seq(VerbT) /\ Len(R) = Len(Q) + Len(K) /\ Len(Q) \in Nat /\ Len(K) \in Nat
        /\ \A i \in 1..Len(R) : \/ i \in 1..Len(Q) /\ R[i] = Q[i]
                                \/ i > Len(Q) /\ i - Len(Q) \in 1..Len(K) /\ R[i] = K[i - Len(Q)]
        /\ \A i \in 1..Len(Q) : i \in 1..Len(R) /\ R[i] = Q[i]
    BY <2>0, Joined
  <2> HIDE DEF R
  <2>2. ASSUME NEW i \in 1..Len(R)
        PROVE  \/ i \in 1..Len(Q) /\ R[i] = Q[i]
               \/ i > Len(Q) /\ i - Len(Q) \in 1..Len(K) /\ R[i].verb = "comment"
    BY <1>6, <2>1
  <2> QED BY <2>1, <2>2
<1> HIDE DEF R
<1>10. InOrder(R)
  <2>1. \A i \in 1..Len(R) : R[i].verb = "comment" => i = Len(R)
    <3> SUFFICES ASSUME NEW i \in 1..Len(R), R[i].verb = "comment" PROVE i = Len(R)
      OBVIOUS
    <3>1. i > Len(Q) /\ i - Len(Q) \in 1..Len(K)
      BY <1>8, <1>9 DEF Settings
    <3> QED BY <1>6, <1>9, <3>1
  <2>2. \A i, j \in 1..Len(R) : R[i].verb = "cite" /\ R[j].verb = "uncite" => j < i
    <3> SUFFICES ASSUME NEW i \in 1..Len(R), NEW j \in 1..Len(R), R[i].verb = "cite", R[j].verb = "uncite" PROVE j < i
      OBVIOUS
    <3>1. i \in 1..Len(Q) /\ R[i] = Q[i] /\ j \in 1..Len(Q) /\ R[j] = Q[j]
      BY <1>9
    <3>2. i > Len(P) /\ j \in 1..Len(P)
      BY <1>8, <3>1 DEF Settings
    <3> QED BY <1>8, <3>2
  <2> QED BY <1>9, <2>1, <2>2 DEF InOrder
<1>11. \A c \in u.add : \E i \in 1..Len(R) : R[i] = Tools!Verb("cite", c)
  <2> SUFFICES ASSUME NEW c \in u.add PROVE \E i \in 1..Len(R) : R[i] = Tools!Verb("cite", c)
    OBVIOUS
  <2>1. PICK i \in 1..Len(C) : C[i] = Tools!Verb("cite", c)
    BY <1>5
  <2>2. Len(P) + i \in 1..Len(Q) /\ Q[Len(P) + i] = C[i]
    BY <1>8
  <2>3. Len(P) + i \in 1..Len(R) /\ R[Len(P) + i] = C[i]
    BY <1>9, <2>2
  <2> QED BY <2>1, <2>3
<1>12. HasMore(u) => R # <<>> /\ R[1].verb # "comment"
  <2> SUFFICES ASSUME HasMore(u) PROVE R # <<>> /\ R[1].verb # "comment"
    OBVIOUS
  <2>1. Len(F) > 0 \/ Len(U) > 0 \/ Len(C) > 0
    <3>1. CASE u.set # {}
      BY <1>3, <3>1
    <3>2. CASE u.remove # {}
      BY <1>4, <3>2
    <3>3. CASE u.add # {}
      BY <1>5, <3>3
    <3> QED BY <3>1, <3>2, <3>3 DEF HasMore
  <2>2. Len(Q) > 0
    BY <1>5, <1>7, <1>8, <2>1
  <2>3. 1 \in 1..Len(Q) /\ 1 \in 1..Len(R) /\ R[1] = Q[1]
    BY <1>9, <2>2
  <2>4. Q[1].verb # "comment"
    BY <1>8, <2>3 DEF Settings
  <2> QED BY <1>9, <2>3, <2>4
<1> QED BY <1>2, <1>10, <1>11, <1>12

\* An agent of whose calls nothing has changed.
LEMMA OthersKeep ==
  ASSUME ToolsInv, NEW a \in Agents, UNCHANGED <<cites, cutBy>>,
         calling'[a] = calling[a], todo'[a] = todo[a], loaded'[a] = loaded[a], tries'[a] = tries[a],
         comments'[a] = comments[a]
  PROVE  CallInv(a)'
<1>1. CallInv(a)
  BY DEF ToolsInv
<1>2. InOrder(todo[a])' <=> InOrder(todo[a])
  BY DEF InOrder
<1>3. Commented(a)' <=> Commented(a)
  BY DEF Commented
<1>4. \A c : CitedBy(a, c)' <=> CitedBy(a, c)
  BY DEF CitedBy
<1>5. HasMore(calling[a])' <=> HasMore(calling[a])
  BY DEF HasMore
<1> QED BY <1>1, <1>2, <1>3, <1>4, <1>5 DEF CallInv

\* A call's beginning, its repetition and its end: the graph stays.
LEMMA CallStep ==
  ASSUME ToolsInv, Tools!ToolsAssumption, NEW a \in Agents, NEW c, NEW t, NEW l \in BOOLEAN, NEW n \in Nat,
         calling' = [calling EXCEPT ![a] = c], todo' = [todo EXCEPT ![a] = t], loaded' = [loaded EXCEPT ![a] = l],
         tries' = [tries EXCEPT ![a] = n], UNCHANGED <<fields, cites, cutBy, comments>>,
         "tool" \in DOMAIN c, n = 0 => tries[a] = 0,
         c.tool = "update" => /\ n # 0 /\ c \in Tools!Updates /\ t = Tools!Ordered(c)
                              /\ HasMore(c) => comments[a] = 0
  PROVE  ToolsInv'
<1>1. OverAgents(calling)' /\ OverAgents(todo)' /\ OverAgents(loaded)' /\ OverAgents(tries)' /\ OverAgents(comments)'
  BY DEF ToolsInv, OverAgents
<1>2. calling'[a] = c /\ todo'[a] = t /\ loaded'[a] = l /\ tries'[a] = n /\ comments'[a] = comments[a]
  BY DEF ToolsInv, OverAgents
<1>3. \A b \in Agents : b # a => calling'[b] = calling[b] /\ todo'[b] = todo[b] /\ loaded'[b] = loaded[b] /\ tries'[b] = tries[b]
  BY DEF ToolsInv, OverAgents
<1>4. CallInv(a)'
  <2>1. CASE c.tool # "update"
    BY <1>2, <2>1 DEF ToolsInv, CallInv
  <2>2. CASE c.tool = "update"
    <3>1. c \in Tools!Updates /\ t = Tools!Ordered(c)
      BY <2>2
    <3>2. /\ InOrder(t) /\ (\A x \in c.add : \E i \in 1..Len(t) : t[i] = Tools!Verb("cite", x))
          /\ HasMore(c) => t # <<>> /\ t[1].verb # "comment"
      BY <3>1, OrderedCall
    <3>3. InOrder(todo[a])' /\ \A x \in c.add : CitedBy(a, x)'
      BY <1>2, <3>2 DEF InOrder, CitedBy
    <3>4. (HasMore(c) => Commented(a))'
      <4> SUFFICES ASSUME HasMore(c) PROVE Commented(a)'
        BY DEF HasMore
      <4>1. comments'[a] = 0 /\ todo'[a] # <<>> /\ todo'[a][1].verb # "comment"
        BY <1>2, <2>2, <3>2
      <4> QED BY <4>1 DEF Commented
    <3>5. n # 0 /\ comments[a] \in Nat
      BY <2>2 DEF ToolsInv, CallInv
    <3> QED BY <1>2, <3>1, <3>3, <3>4, <3>5 DEF CallInv, HasMore
  <2> QED BY <2>1, <2>2
<1>5. ASSUME NEW b \in Agents PROVE CallInv(b)'
  BY <1>3, <1>4, OthersKeep
<1> QED BY <1>1, <1>5 DEF ToolsInv

\* A verb that takes effect.
LEMMA ApplyStep ==
  ASSUME ToolsInv, Tools!ToolsAssumption, NEW a \in Agents, Tools!Apply(a)
  PROVE  ToolsInv'
<1> DEFINE s == todo[a]
           v == Head(s)
           t == Tail(s)
<1>1. /\ calling[a].tool = "update" /\ s # <<>> /\ UNCHANGED <<calling, tries>>
      /\ todo' = [todo EXCEPT ![a] = Tail(@)]
      /\ loaded' = [loaded EXCEPT ![a] = @ \/ v.verb # "comment"]
      /\ comments' = IF v.verb = "comment" THEN [comments EXCEPT ![a] = @ + 1] ELSE comments
      /\ cites' = CASE v.verb = "cite" -> cites \cup {v.arg}
                    [] v.verb = "uncite" -> cites \ {v.arg}
                    [] OTHER -> cites
      /\ cutBy' = CASE v.verb = "cite" -> [cutBy EXCEPT ![v.arg] = Null]
                    [] v.verb = "uncite" /\ v.arg \in cites -> [cutBy EXCEPT ![v.arg] = a]
                    [] OTHER -> cutBy
  BY DEF Tools!Apply
<1>2. /\ calling[a].tool = "update" /\ CallInv(a) /\ InOrder(s) /\ calling[a] \in Tools!Updates /\ tries[a] # 0
      /\ HasMore(calling[a]) => Commented(a)
      /\ \A c \in calling[a].add : CitedBy(a, c)
  BY <1>1 DEF ToolsInv, CallInv
<1>3. /\ s \in Seq(VerbT) /\ t \in Seq(VerbT) /\ Len(t) = Len(s) - 1 /\ v = s[1] /\ v \in VerbT /\ Len(s) >= 1
      /\ \A i \in 1..Len(t) : t[i] = s[i + 1] /\ i + 1 \in 1..Len(s)
  BY <1>1, <1>2, Taking DEF InOrder
<1>4. /\ todo'[a] = t /\ loaded'[a] = (loaded[a] \/ v.verb # "comment")
      /\ \A b \in Agents : b # a => todo'[b] = todo[b] /\ loaded'[b] = loaded[b] /\ comments'[b] = comments[b]
  BY <1>1 DEF ToolsInv, OverAgents
<1>15. loaded[a] \/ v.verb # "comment" => loaded'[a]
  <2> DEFINE w == loaded[a] \/ v.verb # "comment"
  <2>1. loaded'[a] = w
    BY <1>4, Zenon
  <2>2. w => loaded'[a]
    BY <2>1, Zenon
  <2> QED BY <2>2, Zenon
<1>16. loaded'[a] \in BOOLEAN
  <2> DEFINE w == loaded[a] \/ v.verb # "comment"
  <2>1. loaded'[a] = w
    BY <1>4, Zenon
  <2>2. w \in BOOLEAN
    OBVIOUS
  <2> QED BY <2>1, <2>2, Zenon
<1>5. /\ v.verb = "comment" => comments'[a] = comments[a] + 1
      /\ v.verb # "comment" => comments'[a] = comments[a]
  BY <1>1 DEF ToolsInv, OverAgents
<1>6. OverAgents(calling)' /\ OverAgents(todo)' /\ OverAgents(loaded)' /\ OverAgents(tries)' /\ OverAgents(comments)'
  BY <1>1 DEF ToolsInv, OverAgents
<1>7. cutBy' = [c \in Cites |-> cutBy'[c]]
  BY <1>1 DEF ToolsInv
<1>8. ASSUME NEW b \in Agents, NEW c \in Cites, c \in cites \/ cutBy[c] # b, b = a => v # Tools!Verb("uncite", c)
      PROVE  c \in cites' \/ cutBy'[c] # b
  <2>1. v = [verb |-> v.verb, arg |-> v.arg]
    BY <1>3 DEF VerbT
  <2>2. CASE v.verb = "cite"
    BY <1>1, <1>8, <2>2 DEF ToolsInv
  <2>3. CASE v.verb = "uncite" /\ c # v.arg
    BY <1>1, <1>8, <2>3 DEF ToolsInv
  <2>4. CASE v.verb = "uncite" /\ c = v.arg
    <3>1. v = Tools!Verb("uncite", c)
      BY <2>1, <2>4 DEF Tools!Verb
    <3>2. b # a
      BY <1>8, <3>1
    <3>3. c \in cites => cutBy'[c] = a
      BY <1>1, <2>4 DEF ToolsInv
    <3>4. c \notin cites => cutBy'[c] = cutBy[c]
      BY <1>1, <2>4 DEF ToolsInv
    <3> QED BY <1>8, <3>2, <3>3, <3>4
  <2>5. CASE v.verb # "cite" /\ v.verb # "uncite"
    BY <1>1, <1>8, <2>5
  <2> QED BY <2>2, <2>3, <2>4, <2>5
<1>9. ASSUME NEW c, v = Tools!Verb("cite", c) PROVE c \in cites'
  <2>1. v.verb = "cite" /\ v.arg = c
    BY <1>9 DEF Tools!Verb
  <2> QED BY <1>1, <2>1
<1> HIDE DEF t, v
<1>10. InOrder(t)
  <2>1. \A i \in 1..Len(t) : t[i].verb = "comment" => i = Len(t)
    BY <1>2, <1>3 DEF InOrder
  <2>2. \A i, j \in 1..Len(t) : t[i].verb = "cite" /\ t[j].verb = "uncite" => j < i
    <3> SUFFICES ASSUME NEW i \in 1..Len(t), NEW j \in 1..Len(t), t[i].verb = "cite", t[j].verb = "uncite" PROVE j < i
      OBVIOUS
    <3>1. i + 1 \in 1..Len(s) /\ j + 1 \in 1..Len(s) /\ s[i + 1].verb = "cite" /\ s[j + 1].verb = "uncite"
      BY <1>3
    <3>2. j + 1 < i + 1
      BY <1>2, <3>1 DEF InOrder
    <3> QED BY <3>2
  <2> QED BY <1>3, <2>1, <2>2 DEF InOrder
<1>11. ASSUME NEW c \in calling[a].add PROVE CitedBy(a, c)'
  <2>0. c \in Cites
    BY <1>2, <1>11 DEF Tools!Updates
  <2>1. CitedBy(a, c)
    BY <1>2
  <2>2. ASSUME NEW i \in 1..Len(s), s[i] = Tools!Verb("cite", c), i # 1
        PROVE  CitedBy(a, c)'
    <3>1. i - 1 \in 1..Len(t) /\ t[i - 1] = s[i]
      BY <1>3, <2>2
    <3> QED BY <1>4, <2>2, <3>1 DEF CitedBy
  <2>3. ASSUME s[1] = Tools!Verb("cite", c)
        PROVE  CitedBy(a, c)'
    <3>1. c \in cites'
      BY <1>3, <1>9, <2>3
    <3>2. ASSUME NEW i \in 1..Len(t), t[i] = Tools!Verb("uncite", c) PROVE FALSE
      <4>1. i + 1 \in 1..Len(s) /\ 1 \in 1..Len(s) /\ s[i + 1].verb = "uncite" /\ s[1].verb = "cite"
        BY <1>3, <2>3, <3>2 DEF Tools!Verb
      <4>2. i + 1 < 1
        BY <1>2, <4>1 DEF InOrder
      <4> QED BY <4>2
    <3> QED BY <1>4, <3>1, <3>2 DEF CitedBy
  <2>4. ASSUME c \in cites \/ cutBy[c] # a, \A i \in 1..Len(s) : s[i] # Tools!Verb("uncite", c)
        PROVE  CitedBy(a, c)'
    <3>1. v # Tools!Verb("uncite", c)
      BY <1>3, <2>4
    <3>2. c \in cites' \/ cutBy'[c] # a
      BY <1>8, <2>0, <2>4, <3>1
    <3>3. \A i \in 1..Len(t) : t[i] # Tools!Verb("uncite", c)
      BY <1>3, <2>4
    <3> QED BY <1>4, <3>2, <3>3 DEF CitedBy
  <2> QED BY <2>1, <2>2, <2>3, <2>4 DEF CitedBy
<1>12. HasMore(calling[a]) => Commented(a)'
  <2> SUFFICES ASSUME HasMore(calling[a]) PROVE Commented(a)'
    OBVIOUS
  <2>1. Commented(a) /\ comments[a] = 0
    BY <1>1, <1>2 DEF Commented, CallInv
  <2>2. CASE v.verb = "comment"
    <3>1. Len(s) = 1
      <4>1. 1 \in 1..Len(s) /\ s[1].verb = "comment"
        BY <1>3, <2>2
      <4>2. 1 = Len(s)
        BY <1>2, <4>1 DEF InOrder
      <4> QED BY <4>2
    <3>2. t = <<>>
      BY <1>3, <3>1
    <3>3. loaded[a]
      BY <1>1, <1>3, <2>1, <2>2 DEF Commented
    <3>4. loaded'[a] /\ comments'[a] = 1
      BY <1>15, <1>5, <2>1, <2>2, <3>3
    <3> QED BY <1>4, <3>2, <3>4 DEF Commented
  <2>3. CASE v.verb # "comment"
    BY <1>15, <1>5, <2>1, <2>3 DEF Commented
  <2> QED BY <2>2, <2>3
<1>13. CallInv(a)'
  <2>1. InOrder(todo[a])'
    BY <1>4, <1>10
  <2>2. HasMore(calling[a])' <=> HasMore(calling[a])
    BY <1>1 DEF HasMore
  <2>3. tries'[a] \in Nat /\ comments'[a] \in Nat /\ loaded'[a] \in BOOLEAN /\ tries'[a] # 0
    BY <1>1, <1>2, <1>16, <1>5 DEF CallInv
  <2>4. calling'[a] = calling[a] /\ "tool" \in DOMAIN calling[a]
    BY <1>1, <1>2 DEF CallInv
  <2> QED BY <1>2, <1>11, <1>12, <2>1, <2>2, <2>3, <2>4 DEF CallInv
<1>14. ASSUME NEW b \in Agents, b # a PROVE CallInv(b)'
  <2>1. CallInv(b) /\ calling'[b] = calling[b] /\ todo'[b] = todo[b] /\ loaded'[b] = loaded[b] /\ tries'[b] = tries[b]
        /\ comments'[b] = comments[b]
    BY <1>1, <1>4, <1>14 DEF ToolsInv
  <2>2. InOrder(todo[b])' <=> InOrder(todo[b])
    BY <2>1 DEF InOrder
  <2>3. Commented(b)' <=> Commented(b)
    BY <2>1 DEF Commented
  <2>4. HasMore(calling[b])' <=> HasMore(calling[b])
    BY <2>1 DEF HasMore
  <2>5. ASSUME NEW c \in Cites, CitedBy(b, c) PROVE CitedBy(b, c)'
    <3>1. CASE \E i \in 1..Len(todo[b]) : todo[b][i] = Tools!Verb("cite", c)
      BY <2>1, <3>1 DEF CitedBy
    <3>2. CASE (c \in cites \/ cutBy[c] # b) /\ \A i \in 1..Len(todo[b]) : todo[b][i] # Tools!Verb("uncite", c)
      <4>1. c \in cites' \/ cutBy'[c] # b
        BY <1>8, <1>14, <3>2
      <4> QED BY <2>1, <3>2, <4>1 DEF CitedBy
    <3> QED BY <2>5, <3>1, <3>2 DEF CitedBy
  <2>6. calling[b].tool = "update" => calling[b] \in Tools!Updates /\ \A c \in calling[b].add : c \in Cites
    BY <2>1 DEF CallInv, Tools!Updates
  <2> QED BY <2>1, <2>2, <2>3, <2>4, <2>5, <2>6 DEF CallInv
<1> QED BY <1>6, <1>7, <1>13, <1>14 DEF ToolsInv

LEMMA SettledStep ==
  ASSUME ToolsInv, Tools!ToolsAssumption, NEW a \in Agents,
         Tools!Load(a) \/ Tools!AnswerUpdate(a) \/ Tools!Fails(a)
  PROVE  ToolsInv'
<1>1. /\ CallInv(a) /\ todo = [todo EXCEPT ![a] = todo[a]] /\ tries = [tries EXCEPT ![a] = tries[a]]
      /\ loaded = [loaded EXCEPT ![a] = loaded[a]] /\ calling = [calling EXCEPT ![a] = calling[a]]
  BY DEF ToolsInv, OverAgents
<1>2. tries[a] \in Nat /\ loaded[a] \in BOOLEAN /\ "tool" \in DOMAIN Tools!Quiet /\ Tools!Quiet.tool # "update"
  BY <1>1 DEF CallInv, Tools!Quiet
<1>3. CASE Tools!AnswerUpdate(a)
  <2>1. /\ calling' = [calling EXCEPT ![a] = Tools!Quiet] /\ todo' = [todo EXCEPT ![a] = todo[a]]
        /\ loaded' = [loaded EXCEPT ![a] = loaded[a]] /\ tries' = [tries EXCEPT ![a] = tries[a]]
        /\ UNCHANGED <<fields, cites, cutBy, comments>>
    BY <1>1, <1>3 DEF Tools!AnswerUpdate, Tools!graph
  <2> HIDE DEF Tools!Quiet
  <2> QED BY <1>2, <2>1, CallStep
<1>4. CASE Tools!Fails(a) /\ tries[a] < MaxTries
  <2>1. /\ calling' = [calling EXCEPT ![a] = calling[a]] /\ todo' = [todo EXCEPT ![a] = Tools!Ordered(calling[a])]
        /\ loaded' = [loaded EXCEPT ![a] = FALSE] /\ tries' = [tries EXCEPT ![a] = tries[a] + 1]
        /\ UNCHANGED <<fields, cites, cutBy, comments>> /\ calling[a].tool = "update" /\ (todo[a] # <<>> \/ ~loaded[a])
    BY <1>1, <1>4 DEF Tools!Fails, Tools!graph
  <2>2. /\ "tool" \in DOMAIN calling[a] /\ calling[a] \in Tools!Updates /\ tries[a] + 1 \in Nat /\ tries[a] + 1 # 0
        /\ HasMore(calling[a]) => comments[a] = 0
    BY <1>1, <2>1 DEF CallInv, Commented
  <2> QED BY <2>1, <2>2, CallStep
<1>5. CASE Tools!Fails(a) /\ ~(tries[a] < MaxTries)
  <2>1. /\ calling' = [calling EXCEPT ![a] = Tools!Quiet] /\ todo' = [todo EXCEPT ![a] = todo[a]]
        /\ loaded' = [loaded EXCEPT ![a] = FALSE] /\ tries' = [tries EXCEPT ![a] = tries[a]]
        /\ UNCHANGED <<fields, cites, cutBy, comments>>
    BY <1>1, <1>5 DEF Tools!Fails, Tools!graph
  <2> QED BY <1>2, <2>1, CallStep
\* The work is loaded, and nothing else.
<1>6. CASE Tools!Load(a)
  <2>1. /\ calling[a].tool = "update" /\ todo[a] = <<>> /\ ~loaded[a] /\ loaded' = [loaded EXCEPT ![a] = TRUE]
        /\ UNCHANGED <<calling, todo, tries, fields, cites, cutBy, comments>>
    BY <1>6 DEF Tools!Load, Tools!graph
  <2>2. OverAgents(loaded)' /\ loaded'[a] = TRUE /\ \A b \in Agents : b # a => loaded'[b] = loaded[b]
    BY <2>1 DEF ToolsInv, OverAgents
  <2>3. CallInv(a)'
    <3>1. HasMore(calling[a])' <=> HasMore(calling[a])
      BY <2>1 DEF HasMore
    <3>2. Commented(a) => Commented(a)'
      BY <2>1, <2>2 DEF Commented
    <3>3. \A c : CitedBy(a, c)' <=> CitedBy(a, c)
      BY <2>1 DEF CitedBy
    <3>4. InOrder(todo[a])' <=> InOrder(todo[a])
      BY <2>1 DEF InOrder
    <3>5. loaded'[a] \in BOOLEAN
      BY <2>2, Zenon
    <3> QED BY <1>1, <2>1, <3>1, <3>2, <3>3, <3>4, <3>5 DEF CallInv
  <2>4. ASSUME NEW b \in Agents, b # a PROVE CallInv(b)'
    <3>1. calling'[b] = calling[b] /\ todo'[b] = todo[b] /\ loaded'[b] = loaded[b] /\ tries'[b] = tries[b]
          /\ comments'[b] = comments[b] /\ UNCHANGED <<cites, cutBy>>
      BY <2>1, <2>2, <2>4
    <3> QED BY <3>1, OthersKeep
  <2> QED BY <2>1, <2>2, <2>3, <2>4 DEF ToolsInv, OverAgents
<1> QED BY <1>3, <1>4, <1>5, <1>6

LEMMA CallsStep ==
  ASSUME ToolsInv, Tools!ToolsAssumption, NEW a \in Agents,
         \/ \E u \in Tools!Updates : Tools!Update(a, u)
         \/ \E bearer \in {a, Null}, chat \in {"own", "other", "none"}, item \in {"known", "unknown", "no"} :
              Tools!Spawn(a, bearer, chat, item)
         \/ \E k \in SpawnIds : Tools!Launch(a, k)
         \/ Tools!AnswerSpawn(a) \/ Tools!SpawnFails(a)
         \/ \E t \in Tools!Targets : Tools!Send(a, t)
         \/ Tools!Enqueue(a)
  PROVE  ToolsInv'
<1>1. /\ CallInv(a) /\ todo = [todo EXCEPT ![a] = todo[a]] /\ tries = [tries EXCEPT ![a] = tries[a]]
      /\ loaded = [loaded EXCEPT ![a] = loaded[a]]
  BY DEF ToolsInv, OverAgents
<1>2. tries[a] \in Nat /\ loaded[a] \in BOOLEAN /\ "tool" \in DOMAIN Tools!Quiet /\ Tools!Quiet.tool # "update"
  BY <1>1 DEF CallInv, Tools!Quiet
<1> HIDE DEF Tools!Quiet
<1>3. ASSUME NEW u \in Tools!Updates, Tools!Update(a, u) PROVE ToolsInv'
  <2>1. /\ calling' = [calling EXCEPT ![a] = u] /\ todo' = [todo EXCEPT ![a] = Tools!Ordered(u)]
        /\ loaded' = [loaded EXCEPT ![a] = FALSE] /\ tries' = [tries EXCEPT ![a] = 1]
        /\ UNCHANGED <<fields, cites, cutBy, comments>> /\ tries[a] = 0
    BY <1>3 DEF Tools!Update, Tools!Calls, Tools!graph
  <2>2. "tool" \in DOMAIN u /\ comments[a] = 0
    BY <1>1, <2>1 DEF Tools!Updates, CallInv
  <2> DEFINE n == 1
  <2>3. n \in Nat /\ n # 0 /\ tries' = [tries EXCEPT ![a] = n]
    BY <2>1
  <2> HIDE DEF n
  <2> QED BY <2>1, <2>2, <2>3, CallStep
\* A call of another tool begins, goes on, or ends.
<1>4. ASSUME NEW c, NEW n \in Nat, calling' = [calling EXCEPT ![a] = c], tries' = [tries EXCEPT ![a] = n],
             UNCHANGED <<todo, loaded, fields, cites, cutBy, comments>>, "tool" \in DOMAIN c, c.tool # "update",
             n = 0 => tries[a] = 0
      PROVE  ToolsInv'
  <2>1. todo' = [todo EXCEPT ![a] = todo[a]] /\ loaded' = [loaded EXCEPT ![a] = loaded[a]]
    BY <1>1, <1>4
  <2> QED BY <1>2, <1>4, <2>1, CallStep
<1>5. ASSUME NEW c, calling' = [calling EXCEPT ![a] = c],
             UNCHANGED <<tries, todo, loaded, fields, cites, cutBy, comments>>, "tool" \in DOMAIN c, c.tool # "update"
      PROVE  ToolsInv'
  <2>1. tries' = [tries EXCEPT ![a] = tries[a]]
    BY <1>1, <1>5
  <2> QED BY <1>2, <1>4, <1>5, <2>1
<1>6. ASSUME NEW bearer, NEW chat, NEW item, Tools!Spawn(a, bearer, chat, item) PROVE ToolsInv'
  <2> DEFINE c == [tool |-> "spawn", work |-> item, kid |-> Null, parent |-> Tools!resolveProvenance(bearer, Null, Null)]
  <2>1. /\ calling' = [calling EXCEPT ![a] = c] /\ tries' = [tries EXCEPT ![a] = 1]
        /\ UNCHANGED <<todo, loaded, fields, cites, cutBy, comments>>
    BY <1>6 DEF Tools!Spawn, Tools!Calls, Tools!graph
  <2>2. "tool" \in DOMAIN c /\ c.tool # "update"
    OBVIOUS
  <2> DEFINE n == 1
  <2>3. n \in Nat /\ (n = 0 => tries[a] = 0) /\ tries' = [tries EXCEPT ![a] = n]
    BY <2>1
  <2> HIDE DEF c, n
  <2> QED BY <1>4, <2>1, <2>2, <2>3
<1>7. ASSUME NEW k, Tools!Launch(a, k) PROVE ToolsInv'
  <2> DEFINE c == [calling[a] EXCEPT !.kid = k]
  <2>1. /\ calling' = [calling EXCEPT ![a].kid = k] /\ calling[a].tool = "spawn"
        /\ UNCHANGED <<tries, todo, loaded, fields, cites, cutBy, comments>>
    BY <1>7 DEF Tools!Launch, Tools!graph
  <2>2. calling' = [calling EXCEPT ![a] = c]
    BY <2>1 DEF ToolsInv, OverAgents
  <2>3. "tool" \in DOMAIN c /\ c.tool # "update"
    BY <1>1, <2>1 DEF CallInv
  <2> HIDE DEF c
  <2> QED BY <1>5, <2>1, <2>2, <2>3
<1>8. ASSUME NEW t, Tools!Send(a, t) PROVE ToolsInv'
  <2> DEFINE c == [tool |-> "send", to |-> t]
  <2>1. /\ calling' = [calling EXCEPT ![a] = c] /\ tries' = [tries EXCEPT ![a] = 1]
        /\ UNCHANGED <<todo, loaded, fields, cites, cutBy, comments>>
    BY <1>8 DEF Tools!Send, Tools!Calls, Tools!graph
  <2>2. "tool" \in DOMAIN c /\ c.tool # "update"
    OBVIOUS
  <2> DEFINE n == 1
  <2>3. n \in Nat /\ (n = 0 => tries[a] = 0) /\ tries' = [tries EXCEPT ![a] = n]
    BY <2>1
  <2> HIDE DEF c, n
  <2> QED BY <1>4, <2>1, <2>2, <2>3
<1>9. ASSUME Tools!AnswerSpawn(a) \/ Tools!SpawnFails(a) \/ Tools!Enqueue(a) PROVE ToolsInv'
  <2>1. /\ calling' = [calling EXCEPT ![a] = Tools!Quiet]
        /\ UNCHANGED <<tries, todo, loaded, fields, cites, cutBy, comments>>
    BY <1>9 DEF Tools!AnswerSpawn, Tools!SpawnFails, Tools!Enqueue, Tools!graph
  <2> QED BY <1>2, <1>5, <2>1
<1> QED BY <1>3, <1>6, <1>7, <1>8, <1>9

LEMMA ToolsStep ==
  ASSUME ToolsInv, Tools!ToolsAssumption, [Tools!Next]_(Tools!vars)
  PROVE  ToolsInv'
<1>1. CASE Tools!Next
  <2>1. ASSUME NEW a \in Agents, Tools!Apply(a) PROVE ToolsInv'
    BY <2>1, ApplyStep
  <2>2. ASSUME NEW a \in Agents, Tools!Load(a) \/ Tools!AnswerUpdate(a) \/ Tools!Fails(a) PROVE ToolsInv'
    BY <2>2, SettledStep
  <2>3. ASSUME NEW a \in Agents,
               \/ \E u \in Tools!Updates : Tools!Update(a, u)
               \/ \E bearer \in {a, Null}, chat \in {"own", "other", "none"}, item \in {"known", "unknown", "no"} :
                    Tools!Spawn(a, bearer, chat, item)
               \/ \E k \in SpawnIds : Tools!Launch(a, k)
               \/ Tools!AnswerSpawn(a) \/ Tools!SpawnFails(a)
               \/ \E t \in Tools!Targets : Tools!Send(a, t)
               \/ Tools!Enqueue(a)
        PROVE  ToolsInv'
    BY <2>3, CallsStep
  <2>4. ASSUME NEW k \in SpawnIds,
               (\E bearer \in {k, Null} : Tools!Prime(k, bearer, k)) \/ Tools!BindNative(k) \/ Tools!Exit(k)
        PROVE  ToolsInv'
    <3>1. UNCHANGED <<calling, todo, loaded, tries, fields, cites, cutBy, comments>>
      BY <2>4 DEF Tools!Prime, Tools!BindNative, Tools!Exit, Tools!tool, Tools!graph
    <3>2. ASSUME NEW a \in Agents PROVE CallInv(a)'
      BY <3>1, OthersKeep
    <3> QED BY <3>1, <3>2 DEF ToolsInv, OverAgents
  <2> QED BY <1>1, <2>1, <2>2, <2>3, <2>4 DEF Tools!Next
<1>2. CASE UNCHANGED Tools!vars
  <2>1. UNCHANGED <<calling, todo, loaded, tries, fields, cites, cutBy, comments>>
    BY <1>2 DEF Tools!vars
  <2>2. ASSUME NEW a \in Agents PROVE CallInv(a)'
    BY <2>1, OthersKeep
  <2> QED BY <2>1, <2>2 DEF ToolsInv, OverAgents
<1> QED BY <1>1, <1>2

LEMMA CommentsOnce == ToolsInv => Tools!CommentedOnce
BY DEF ToolsInv, CallInv, HasMore, Commented, Tools!CommentedOnce

LEMMA StaysCited == ToolsInv => Tools!Retargeted
<1> SUFFICES ASSUME ToolsInv, NEW a \in Agents, Tools!AnswerUpdate(a), NEW c \in calling[a].add
             PROVE  c \in cites \/ cutBy[c] # a
  BY DEF Tools!Retargeted
<1>1. calling[a].tool = "update" /\ todo[a] = <<>>
  BY DEF Tools!AnswerUpdate
<1>2. CitedBy(a, c)
  BY <1>1 DEF ToolsInv, CallInv
<1> QED BY <1>1, <1>2 DEF CitedBy

LEMMA ToolsHold ==
  Tools!Spec => [](Tools!ToolsAssumption => ToolsInv)
<1>1. Tools!Init => ToolsInv
  <2> SUFFICES ASSUME Tools!Init PROVE ToolsInv
    OBVIOUS
  <2>1. \A a \in Agents : calling[a] = [tool |-> "none"] /\ tries[a] = 0 /\ comments[a] = 0 /\ loaded[a] \in BOOLEAN
    BY DEF Tools!Init, Tools!Quiet
  <2>2. ASSUME NEW a \in Agents PROVE CallInv(a)
    BY <2>1 DEF CallInv
  <2>3. OverAgents(calling) /\ OverAgents(todo) /\ OverAgents(loaded) /\ OverAgents(tries) /\ OverAgents(comments)
    BY DEF Tools!Init, OverAgents
  <2> QED BY <2>2, <2>3 DEF Tools!Init, ToolsInv
<1>2. (Tools!ToolsAssumption => ToolsInv) /\ [Tools!Next]_(Tools!vars) => (Tools!ToolsAssumption => ToolsInv)'
  BY ToolsStep
<1> QED BY <1>1, <1>2, PTL DEF Tools!Spec

-----------------------------------------------------------------------------
(* The sessions, in terminals or as rpc agents: RowsTellTheTruth.  The      *)
(* proofs about one run of either kind are those of SessionRuntimeProofs.   *)

Terminals == INSTANCE SessionRuntimeProofs WITH
  Renderer <- {}, Sessions <- PtyIds, Runtimes <- {"pty"}, MaxKids <- MaxPtyKids, Failing <- {}
Residents == INSTANCE SessionRuntimeProofs WITH
  Renderer <- {}, Sessions <- RpcIds, Runtimes <- {"rpc"}, MaxKids <- MaxRpcKids, Failing <- {"upsert", "state", "stop"}

LEMMA TerminalsBehave ==
  /\ Terminals!RuntimeAssumption
  /\ PtySessions!Init => Terminals!Init
  /\ [PtySessions!Next]_sessionVars => [Terminals!Next]_(Terminals!vars)
<1>1. Terminals!RuntimeAssumption
  BY ServicesAssumption, Zenon
  DEF ServicesAssumption,
      PtySessions!RuntimeAssumption, Terminals!RuntimeAssumption, PtySessions!SessionState, Terminals!SessionState,
      PtySessions!Kids, Terminals!Kids, PtySessions!Origins, Terminals!Origins, PtySessions!OrNull, Terminals!OrNull
<1>2. PtySessions!Init => Terminals!Init
  BY Zenon
  DEF PtySessions!Init, Terminals!Init, PtySessions!Idle, Terminals!Idle, PtySessions!Unborn, Terminals!Unborn, PtySessions!Kids, Terminals!Kids
<1>3. PtySessions!Next => Terminals!Next
  BY Zenon DEF
    PtySessions!Kids, Terminals!Kids, PtySessions!Origins, Terminals!Origins, PtySessions!memory, Terminals!memory,
    PtySessions!locks, Terminals!locks, PtySessions!Live, Terminals!Live, PtySessions!Unspawned, Terminals!Unspawned,
    PtySessions!IsNext, Terminals!IsNext, PtySessions!Spawning, Terminals!Spawning, PtySessions!Room, Terminals!Room,
    PtySessions!FreshSession, Terminals!FreshSession, PtySessions!Goto, Terminals!Goto, PtySessions!Return,
    Terminals!Return, PtySessions!Born, Terminals!Born, PtySessions!Dies, Terminals!Dies, PtySessions!Statement,
    Terminals!Statement, PtySessions!Issue, Terminals!Issue, PtySessions!Executes, Terminals!Executes,
    PtySessions!Executed, Terminals!Executed, PtySessions!SetRow, Terminals!SetRow, PtySessions!TrySetRow, Terminals!TrySetRow, PtySessions!Reusable,
    Terminals!Reusable, PtySessions!Newest, Terminals!Newest, PtySessions!LockPty, Terminals!LockPty,
    PtySessions!Launch, Terminals!Launch, PtySessions!Resuming, Terminals!Resuming, PtySessions!ResumeHeld,
    Terminals!ResumeHeld, PtySessions!ResumeLoad, Terminals!ResumeLoad, PtySessions!ResumeLoaded,
    Terminals!ResumeLoaded, PtySessions!Spawn, Terminals!Spawn, PtySessions!Upsert, Terminals!Upsert,
    PtySessions!StopPty, Terminals!StopPty, PtySessions!GraceEnds, Terminals!GraceEnds, PtySessions!Exit,
    Terminals!Exit, PtySessions!HandleExit, Terminals!HandleExit, PtySessions!ExitRecorded, Terminals!ExitRecorded,
    PtySessions!Bind, Terminals!Bind, PtySessions!BindUpdate, Terminals!BindUpdate, PtySessions!BindRecorded,
    Terminals!BindRecorded, PtySessions!LaunchRpc, Terminals!LaunchRpc, PtySessions!ResumeRpc, Terminals!ResumeRpc,
    PtySessions!ResumeRpcLoaded, Terminals!ResumeRpcLoaded, PtySessions!RpcAlready, Terminals!RpcAlready,
    PtySessions!RpcBuild, Terminals!RpcBuild, PtySessions!RpcBuilt, Terminals!RpcBuilt, PtySessions!RpcBuildFails,
    Terminals!RpcBuildFails, PtySessions!ResumeRecorded, Terminals!ResumeRecorded, PtySessions!Torn, Terminals!Torn,
    PtySessions!UpsertFails, Terminals!UpsertFails, PtySessions!StopRpc, Terminals!StopRpc, PtySessions!RpcStopped,
    Terminals!RpcStopped, PtySessions!RpcStoppedUnrecorded, Terminals!RpcStoppedUnrecorded,
    PtySessions!DriverDies, Terminals!DriverDies, PtySessions!Reload, Terminals!Reload,
    PtySessions!Restart, Terminals!Restart, PtySessions!PtyCall, Terminals!PtyCall, PtySessions!RpcCall,
    Terminals!RpcCall, PtySessions!Progress, Terminals!Progress, PtySessions!Handshake, Terminals!Handshake, PtySessions!Background, Terminals!Background,
    PtySessions!Next, Terminals!Next, PtySessions!Cardinality, Terminals!Cardinality, PtySessions!Idle,
    Terminals!Idle
<1> QED BY <1>1, <1>2, <1>3 DEF sessionVars, Terminals!vars, Terminals!memory, Terminals!locks

LEMMA ResidentsBehave ==
  /\ Residents!RuntimeAssumption
  /\ RpcSessions!Init => Residents!Init
  /\ [RpcSessions!Next]_sessionVars => [Residents!Next]_(Residents!vars)
<1>1. Residents!RuntimeAssumption
  BY ServicesAssumption, Zenon
  DEF ServicesAssumption,
      RpcSessions!RuntimeAssumption, Residents!RuntimeAssumption, RpcSessions!SessionState, Residents!SessionState,
      RpcSessions!Kids, Residents!Kids, RpcSessions!Origins, Residents!Origins, RpcSessions!OrNull, Residents!OrNull
<1>2. RpcSessions!Init => Residents!Init
  BY Zenon
  DEF RpcSessions!Init, Residents!Init, RpcSessions!Idle, Residents!Idle, RpcSessions!Unborn, Residents!Unborn, RpcSessions!Kids, Residents!Kids
<1>3. RpcSessions!Next => Residents!Next
  BY Zenon DEF
    RpcSessions!Kids, Residents!Kids, RpcSessions!Origins, Residents!Origins, RpcSessions!memory, Residents!memory,
    RpcSessions!locks, Residents!locks, RpcSessions!Live, Residents!Live, RpcSessions!Unspawned, Residents!Unspawned,
    RpcSessions!IsNext, Residents!IsNext, RpcSessions!Spawning, Residents!Spawning, RpcSessions!Room, Residents!Room,
    RpcSessions!FreshSession, Residents!FreshSession, RpcSessions!Goto, Residents!Goto, RpcSessions!Return,
    Residents!Return, RpcSessions!Born, Residents!Born, RpcSessions!Dies, Residents!Dies, RpcSessions!Statement,
    Residents!Statement, RpcSessions!Issue, Residents!Issue, RpcSessions!Executes, Residents!Executes,
    RpcSessions!Executed, Residents!Executed, RpcSessions!SetRow, Residents!SetRow, RpcSessions!TrySetRow, Residents!TrySetRow, RpcSessions!Reusable,
    Residents!Reusable, RpcSessions!Newest, Residents!Newest, RpcSessions!LockPty, Residents!LockPty,
    RpcSessions!Launch, Residents!Launch, RpcSessions!Resuming, Residents!Resuming, RpcSessions!ResumeHeld,
    Residents!ResumeHeld, RpcSessions!ResumeLoad, Residents!ResumeLoad, RpcSessions!ResumeLoaded,
    Residents!ResumeLoaded, RpcSessions!Spawn, Residents!Spawn, RpcSessions!Upsert, Residents!Upsert,
    RpcSessions!StopPty, Residents!StopPty, RpcSessions!GraceEnds, Residents!GraceEnds, RpcSessions!Exit,
    Residents!Exit, RpcSessions!HandleExit, Residents!HandleExit, RpcSessions!ExitRecorded, Residents!ExitRecorded,
    RpcSessions!Bind, Residents!Bind, RpcSessions!BindUpdate, Residents!BindUpdate, RpcSessions!BindRecorded,
    Residents!BindRecorded, RpcSessions!LaunchRpc, Residents!LaunchRpc, RpcSessions!ResumeRpc, Residents!ResumeRpc,
    RpcSessions!ResumeRpcLoaded, Residents!ResumeRpcLoaded, RpcSessions!RpcAlready, Residents!RpcAlready,
    RpcSessions!RpcBuild, Residents!RpcBuild, RpcSessions!RpcBuilt, Residents!RpcBuilt, RpcSessions!RpcBuildFails,
    Residents!RpcBuildFails, RpcSessions!ResumeRecorded, Residents!ResumeRecorded, RpcSessions!Torn, Residents!Torn,
    RpcSessions!UpsertFails, Residents!UpsertFails, RpcSessions!StopRpc, Residents!StopRpc, RpcSessions!RpcStopped,
    Residents!RpcStopped, RpcSessions!RpcStoppedUnrecorded, Residents!RpcStoppedUnrecorded,
    RpcSessions!DriverDies, Residents!DriverDies, RpcSessions!Reload, Residents!Reload,
    RpcSessions!Restart, Residents!Restart, RpcSessions!PtyCall, Residents!PtyCall, RpcSessions!RpcCall,
    Residents!RpcCall, RpcSessions!Progress, Residents!Progress, RpcSessions!Handshake, Residents!Handshake, RpcSessions!Background, Residents!Background,
    RpcSessions!Next, Residents!Next, RpcSessions!Cardinality, Residents!Cardinality, RpcSessions!Idle,
    Residents!Idle
<1> QED BY <1>1, <1>2, <1>3 DEF sessionVars, Residents!vars, Residents!memory, Residents!locks

-----------------------------------------------------------------------------
(* The whole.  A step is one of one part, and leaves the variables of the   *)
(* others alone: every behaviour of the whole is a behaviour of each part,  *)
(* so that the whole keeps what its parts keep.                             *)

\* A part takes its step, or its variables are left alone.
ServicesTurn ==
  /\ Boot!Next \/ UNCHANGED startupVars
  /\ Hooks!Next \/ UNCHANGED hookVars
  /\ Transport!Next \/ UNCHANGED rpcVars
  /\ Trees!Next \/ UNCHANGED worktreeVars
  /\ Configs!Next \/ UNCHANGED configVars
  /\ Terminal!Next \/ UNCHANGED terminalVars
  /\ Tools!Next \/ UNCHANGED toolVars
  /\ part' = part
  /\ part = "agents" => RpcSessions!Next \/ UNCHANGED sessionVars
  /\ part # "agents" => PtySessions!Next \/ UNCHANGED sessionVars

LEMMA ServiceSteps ==
  ASSUME [Next]_vars
  PROVE  ServicesTurn
<1>1. CASE Of("startup", Boot!Next)
  BY <1>1 DEF Of, ServicesTurn
<1>2. CASE Of("tools", Tools!Next)
  BY <1>2 DEF Of, ServicesTurn
<1>3. CASE Of("configs", Configs!Next)
  BY <1>3 DEF Of, ServicesTurn
<1>4. CASE Of("hooks", Hooks!Next)
  BY <1>4 DEF Of, ServicesTurn
<1>5. CASE Of("transport", Transport!Next)
  BY <1>5 DEF Of, ServicesTurn
<1>6. CASE Of("terminal", Terminal!Next)
  BY <1>6 DEF Of, ServicesTurn
<1>7. CASE Of("trees", Trees!Next)
  BY <1>7 DEF Of, ServicesTurn
<1>8. CASE Of("status", Pane!StatusNext)
  BY <1>8 DEF Of, ServicesTurn
<1>9. CASE Of("context", Pane!ContextNext)
  BY <1>9 DEF Of, ServicesTurn
<1>10. CASE Of("watch", Watch!Next)
  BY <1>10 DEF Of, ServicesTurn
<1>11. CASE Of("terminals", PtySessions!Next)
  BY <1>11 DEF Of, ServicesTurn
<1>12. CASE Of("agents", RpcSessions!Next)
  BY <1>12 DEF Of, ServicesTurn
<1>13. CASE UNCHANGED vars
  BY <1>13 DEF vars, ServicesTurn
<1> QED BY <1>1, <1>2, <1>3, <1>4, <1>5, <1>6, <1>7, <1>8, <1>9, <1>10, <1>11, <1>12, <1>13 DEF Next

LEMMA ServicesBehave ==
  Spec => /\ Boot!Spec /\ Hooks!Spec /\ Transport!Spec /\ Trees!Spec /\ Configs!Spec
          /\ Terminal!Spec /\ Tools!Spec
<1>1. [Next]_vars => [Boot!Next]_(Boot!vars)
  BY ServiceSteps DEF ServicesTurn, startupVars, Boot!vars
<1>2. [Next]_vars => [Hooks!Next]_(Hooks!vars)
  BY ServiceSteps DEF ServicesTurn, hookVars, Hooks!vars
<1>3. [Next]_vars => [Transport!Next]_(Transport!vars)
  BY ServiceSteps DEF ServicesTurn, rpcVars, Transport!vars
<1>4. [Next]_vars => [Trees!Next]_(Trees!vars)
  BY ServiceSteps DEF ServicesTurn, worktreeVars, Trees!vars, Trees!gitVars, Trees!rowVars
<1>5. [Next]_vars => [Configs!Next]_(Configs!vars)
  BY ServiceSteps DEF ServicesTurn, configVars, Configs!vars
<1>6. [Next]_vars => [Terminal!Next]_(Terminal!vars)
  BY ServiceSteps DEF ServicesTurn, terminalVars, Terminal!vars
<1>7. [Next]_vars => [Tools!Next]_(Tools!vars)
  BY ServiceSteps DEF ServicesTurn, toolVars, Tools!vars
<1> QED BY <1>1, <1>2, <1>3, <1>4, <1>5, <1>6, <1>7, PTL
        DEF Spec, Init, Boot!Spec, Hooks!Spec, Transport!Spec, Trees!Spec, Configs!Spec, Terminal!Spec, Tools!Spec

\* A launch that was told its hooks' channel is up finds it up, a page shares its client
\* with no other, and the controller is closed before what it uses.
THEOREM ChannelsStayOpen == Spec => []ChannelsHold
BY ServicesBehave, ChannelsAreOpen, PTL

\* However many instances start, fall back and stop on a profile, a config that names a
\* port names that of the instance that serves; and through any number of installations of
\* any number of profiles, what the user has in a file that Arc merges itself into stays
\* there, unless it is saved between the read and the write of one, and an installation
\* leaves one command of Arc's for an event.
THEOREM ConfigsStayTrue == Spec => []ConfigsHold
<1>1. Boot!InstalledConfigsWork /\ (Configs!ConfigAssumption => Configs!TheirsSurvive /\ Configs!NoOrphans)
      => ConfigsHold
  BY ServicesAssumption DEF ConfigsHold
<1> QED BY <1>1, ServicesBehave, PointedConfigs, KeptConfigs, PTL

\* Whatever step the creation of a worktree fails or is cut short at, the work it carried
\* is in a tree or on the stash stack, and no branch of a user's is gone.
THEOREM WorkIsKept == Spec => []NothingLost
<1>1. (Source \notin Branches => Trees!NothingLost) => NothingLost
  BY ServicesAssumption DEF Trees!WorktreesAssumption, NothingLost
<1> QED BY <1>1, ServicesBehave, KeptWork, PTL

\* However the screens of a terminal come in pieces and its fallback fires, the composer
\* takes a seeded prompt once; and whichever calls of other agents come between the verbs
\* of an update, and however often it fails and is repeated, it comments once, and leaves
\* on what it has cited unless another took that off.
THEOREM EverythingOnce == Spec => DoneOnce
<1>1. /\ (Terminal!ReadinessAssumption => Terminal!SeededOnce) => Terminal!SeededOnce
      /\ (Tools!ToolsAssumption => ToolsInv) => Tools!CommentedOnce /\ Tools!Retargeted
  BY ServicesAssumption, CommentsOnce, StaysCited
<1> QED BY <1>1, ServicesBehave, PromptOnce, ToolsHold, PTL DEF DoneOnce

\* Whether the sessions of a behaviour are rpc agents.
Rpc == part = "agents"

LEMMA SessionsBehave ==
  /\ Spec => []Rpc \/ []~Rpc
  /\ Spec /\ []Rpc => Residents!Spec
  /\ Spec /\ []~Rpc => Terminals!Spec
<1>1. [Next]_vars => (Rpc' <=> Rpc)
  BY ServiceSteps DEF ServicesTurn, vars, Rpc
<1>2. Init => (Rpc => Residents!Init) /\ (~Rpc => Terminals!Init)
  BY ResidentsBehave, TerminalsBehave DEF Init, Rpc
<1>3. Rpc /\ [Next]_vars => [Residents!Next]_(Residents!vars)
  BY ServiceSteps, ResidentsBehave DEF ServicesTurn, Rpc
<1>4. ~Rpc /\ [Next]_vars => [Terminals!Next]_(Terminals!vars)
  BY ServiceSteps, TerminalsBehave DEF ServicesTurn, Rpc
<1> QED BY <1>1, <1>2, <1>3, <1>4, PTL DEF Spec, Residents!Spec, Terminals!Spec

\* Whichever launches, resumes, stops, exits, bindings, failed writes and restarts interleave:
\* once all is quiet the row of a terminal session says what the store says, a live rpc session
\* that is nobody's launch any more has a row, and leaves the list only with one that reads
\* exited, but where the UPDATE of its own stop fails.
THEOREM RowsAreTrue == Spec => RowsTellTheTruth
<1> DEFINE Rows == IF part = "agents" THEN RpcSessions!RpcRecorded ELSE PtySessions!RowsMirrorStore
           Exited == \A s \in DOMAIN rpc :
             (~RpcSessions!Restart /\ (\A c \in Callers : ~RpcSessions!RpcStoppedUnrecorded(c)) /\ rpc[s] # Null /\ rpc'[s] = Null /\ rows'[s] # Null)
               => rows'[s].state = "exited"
           ResidentsExited == \A s \in DOMAIN rpc :
             (~Residents!Restart /\ (\A c \in Callers : ~Residents!RpcStoppedUnrecorded(c)) /\ rpc[s] # Null /\ rpc'[s] = Null /\ rows'[s] # Null)
               => rows'[s].state = "exited"
           None == \A s \in DOMAIN rpc : rpc[s] = Null
<1>1. Residents!RuntimeAssumption /\ Terminals!RuntimeAssumption /\ Residents!NoTerminals /\ Terminals!OnlyTerminals
  BY ResidentsBehave, TerminalsBehave DEF Residents!NoTerminals, Terminals!OnlyTerminals
<1>2. Residents!Spec => []Residents!RpcRecorded
  BY <1>1, Residents!DriversAreRecorded, PTL
<1>3. Residents!Spec => [][ResidentsExited]_(Residents!vars)
  BY <1>1, Residents!DriversStopAsExited, PTL DEF Residents!StoppedAsExited
<1>4. Terminals!Spec => []Terminals!RowsMirrorStore
  BY <1>1, Terminals!RowsMirrorTheStore, PTL
<1>5. Terminals!Spec => []None
  BY <1>1, Terminals!NoDrivers, PTL
<1>6. /\ Rpc /\ Residents!RpcRecorded => Rows
      /\ ~Rpc /\ Terminals!RowsMirrorStore => Rows
  BY Zenon DEF Rpc, RpcSessions!RpcRecorded, Residents!RpcRecorded, PtySessions!RowsMirrorStore, Terminals!RowsMirrorStore,
     PtySessions!Settled, Terminals!Settled, PtySessions!Idle, Terminals!Idle
<1>7. /\ [ResidentsExited]_(Residents!vars) => [Exited]_(RpcSessions!vars)
      /\ None => [Exited]_(RpcSessions!vars)
  BY Zenon DEF RpcSessions!Restart, Residents!Restart, RpcSessions!Idle, Residents!Idle, RpcSessions!Live, Residents!Live,
     RpcSessions!RpcStoppedUnrecorded, Residents!RpcStoppedUnrecorded, RpcSessions!Executes, Residents!Executes,
     RpcSessions!Executed, Residents!Executed, RpcSessions!Torn, Residents!Torn, RpcSessions!Return, Residents!Return,
     RpcSessions!Kids, Residents!Kids, RpcSessions!vars, Residents!vars, RpcSessions!memory, Residents!memory,
     RpcSessions!locks, Residents!locks
<1> HIDE DEF Rows, Exited, ResidentsExited, None
<1>8. Spec => []Rows /\ [][Exited]_(RpcSessions!vars)
  BY <1>2, <1>3, <1>4, <1>5, <1>6, <1>7, SessionsBehave, PTL
<1> QED BY <1>8 DEF RowsTellTheTruth, Rows, Exited, RpcSessions!StoppedAsExited

=============================================================================
