------------------------------ MODULE RecordsProofs -------------------------
(***************************************************************************)
(* What the parts that read, project and store keep, for every value of    *)
(* their constants: first each on its own, then what the module that       *)
(* composes them says of all.                                              *)
(***************************************************************************)
EXTENDS Records, FiniteSetTheorems, WellFoundedInduction, TLAPS

-----------------------------------------------------------------------------
(* What chats are called: ListedIsStored and NamesAreKept.                  *)

Creating(k) == titleCalls[k].at \in {"inserting", "inserted"}
Titling(k) == titleCalls[k].at \in {"writing", "written"}

CallAt == {"idle", "inserting", "inserted", "writing", "written", "probing", "asking"}
Call ==
  [at : CallAt, chat : Chats \cup {Absent}, title : Names \cup Generated \cup {NewChat, Absent},
   by : {"user", "model"}]
TitleTypes ==
  /\ titles \in [Chats -> Names \cup Generated \cup {NewChat, Absent}]
  /\ chats \in [Chats -> Names \cup Generated \cup {NewChat, Absent}]
  /\ titleCalls \in [Calls -> Call]
  /\ \A k \in Calls :
       /\ Creating(k) => titleCalls[k].chat \in Chats /\ titleCalls[k].title \in Names \cup {NewChat}
       /\ Titling(k) => /\ titleCalls[k].chat \in Chats
                        /\ titleCalls[k].title \in IF titleCalls[k].by = "user" THEN Names ELSE Generated
       /\ titleCalls[k].at \in {"probing", "asking"} => titleCalls[k].chat \in Chats

\* A chat is listed after it is stored, and while it is being created it has no row,
\* or one that nobody else has seen.
CreatedOnce ==
  /\ \A c \in Chats : chats[c] # Absent => titles[c] # Absent
  /\ \A j, k \in Calls : Creating(j) /\ Creating(k) /\ titleCalls[j].chat = titleCalls[k].chat => j = k
  /\ \A k \in Calls : Creating(k) => chats[titleCalls[k].chat] = Absent
  /\ \A j, k \in Calls : Creating(k) /\ Titling(j) => titleCalls[j].chat # titleCalls[k].chat
  /\ \A k \in Calls : titleCalls[k].at = "inserting" => titles[titleCalls[k].chat] = Absent
  /\ \A k \in Calls : titleCalls[k].at = "inserted" => titles[titleCalls[k].chat] = titleCalls[k].title
  /\ \A k \in Calls : Titling(k) => titles[titleCalls[k].chat] # Absent

\* Of two titles on their way to one chat the later one saw the other.
AloneOnTheWay ==
  /\ \A j, k \in Calls :
       Titling(j) /\ Titling(k) /\ titleCalls[j].chat = titleCalls[k].chat /\ j # k
         => titleCalls[k].chat \in crossed
  /\ \A k \in Calls : titleCalls[k].at = "written" /\ titleCalls[k].chat \notin crossed =>
       titles[titleCalls[k].chat] = titleCalls[k].title

\* The model only ever writes to a chat that the user has not named.
NamedByUser ==
  \A c \in named \ crossed :
    /\ titles[c] \in Names /\ chats[c] \in Names \cup {Absent}
    /\ \A k \in Calls : Titling(k) /\ titleCalls[k].chat = c => titleCalls[k].by = "user"

TitlesInv ==
  TitleTypes /\ CreatedOnce /\ AloneOnTheWay /\ NamedByUser /\ named \subseteq Chats
    /\ Titles!ListedIsStored

\* One call changes.
Becomes(k, pc, c, title, by) ==
  /\ titleCalls' \in [Calls -> Call]
  /\ titleCalls'[k].at = pc /\ titleCalls'[k].chat = c /\ titleCalls'[k].title = title /\ titleCalls'[k].by = by
  /\ \A j \in Calls \ {k} : titleCalls'[j] = titleCalls[j]

LEMMA Goes ==
  ASSUME titleCalls \in [Calls -> Call], NEW k \in Calls, NEW entry \in Call, Titles!Goto(k, entry)
  PROVE  Becomes(k, entry.at, entry.chat, entry.title, entry.by)
  BY DEF Titles!Goto, Becomes

LEMMA Rests ==
  ASSUME titleCalls \in [Calls -> Call], NEW k \in Calls, Titles!Goto(k, Titles!Idle)
  PROVE  Becomes(k, "idle", Absent, Absent, "user")
<1>1. Titles!Idle \in Call
  BY DEF Titles!Idle, Call, CallAt
<1> QED BY <1>1, Goes DEF Titles!Idle

LEMMA StepsOn ==
  ASSUME titleCalls \in [Calls -> Call], NEW k \in Calls, NEW pc \in CallAt, Titles!Step(k, pc)
  PROVE  Becomes(k, pc, titleCalls[k].chat, titleCalls[k].title, titleCalls[k].by)
<1>1. titleCalls[k] \in Call
  OBVIOUS
<1>2. titleCalls'[k] = [titleCalls[k] EXCEPT !.at = pc]
  BY DEF Titles!Step
<1>3. /\ titleCalls'[k] \in Call /\ titleCalls'[k].at = pc /\ titleCalls'[k].chat = titleCalls[k].chat
      /\ titleCalls'[k].title = titleCalls[k].title /\ titleCalls'[k].by = titleCalls[k].by
  BY <1>1, <1>2 DEF Call
<1> QED BY <1>3 DEF Titles!Step, Becomes

\* A call that ends, or that waits for the model, is in nobody's way.
LEMMA StandsAside ==
  ASSUME TitlesInv, NEW k \in Calls, NEW pc \in {"idle", "probing", "asking"}, NEW c \in Chats \cup {Absent},
         NEW title, NEW by, Becomes(k, pc, c, title, by), pc # "idle" => c \in Chats,
         titleCalls[k].at = "written" =>
           chats[titleCalls[k].chat] \in {Absent, titles[titleCalls[k].chat]} \/ titleCalls[k].chat \in crossed,
         UNCHANGED <<titles, chats, named, crossed>>
  PROVE  TitlesInv'
<1> USE DEF TitlesInv, Becomes, Creating, Titling
<1>1. TitleTypes'
  BY DEF TitleTypes
<1>2. CreatedOnce'
  BY DEF CreatedOnce
<1>3. AloneOnTheWay'
  BY DEF AloneOnTheWay
<1>4. NamedByUser'
  BY DEF NamedByUser
<1>5. Titles!ListedIsStored'
  BY DEF Titles!ListedIsStored
<1> QED BY <1>1, <1>2, <1>3, <1>4, <1>5

LEMMA CreateStep ==
  ASSUME Titles!ChatTitlesAssumption, TitlesInv,
         NEW k \in Calls, NEW c \in Chats, NEW title \in Names \cup {NewChat}, Titles!Create(k, c, title)
  PROVE  TitlesInv'
<1>1. Becomes(k, "inserting", c, title, "user")
  <2> DEFINE entry == [at |-> "inserting", chat |-> c, title |-> title, by |-> "user"]
  <2>1. entry \in Call
    BY DEF Call, CallAt
  <2> QED BY <2>1, Goes DEF Titles!Create, TitlesInv, TitleTypes
<1>2. /\ titles[c] = Absent /\ \A j \in Calls : titleCalls[j].chat # c
      /\ titleCalls[k].at = "idle" /\ UNCHANGED <<titles, chats, named, crossed>>
  BY DEF Titles!Create
<1> USE <1>1, <1>2 DEF TitlesInv, Becomes, Creating, Titling
<1>3. TitleTypes'
  BY DEF TitleTypes
<1>4. CreatedOnce'
  BY DEF CreatedOnce
<1>5. AloneOnTheWay'
  BY DEF AloneOnTheWay
<1>6. NamedByUser'
  BY DEF NamedByUser
<1>7. Titles!ListedIsStored'
  BY DEF Titles!ListedIsStored
<1> QED BY <1>3, <1>4, <1>5, <1>6, <1>7

LEMMA InsertStep ==
  ASSUME Titles!ChatTitlesAssumption, TitlesInv, NEW k \in Calls, Titles!Insert(k)
  PROVE  TitlesInv'
<1>1. titleCalls \in [Calls -> Call]
  BY DEF TitlesInv, TitleTypes
<1>2. CASE Titles!Goto(k, Titles!Idle) /\ UNCHANGED titles
  BY <1>1, <1>2, Rests, StandsAside DEF Titles!Insert
<1>3. CASE titles' = [titles EXCEPT ![titleCalls[k].chat] = titleCalls[k].title] /\ Titles!Step(k, "inserted")
  <2> DEFINE c == titleCalls[k].chat
             title == titleCalls[k].title
  <2>1. Becomes(k, "inserted", c, title, titleCalls[k].by)
    BY <1>1, <1>3, StepsOn DEF CallAt
  <2>2. titleCalls[k].at = "inserting" /\ UNCHANGED <<chats, named, crossed>>
    BY DEF Titles!Insert
  <2>3. c \in Chats /\ title \in Names \cup {NewChat} /\ titles[c] = Absent /\ chats[c] = Absent
    BY <2>2 DEF TitlesInv, TitleTypes, CreatedOnce, Creating
  <2>4. /\ titles' \in [Chats -> Names \cup Generated \cup {NewChat, Absent}] /\ titles'[c] = title
        /\ \A d \in Chats \ {c} : titles'[d] = titles[d]
    BY <1>3, <2>3 DEF TitlesInv, TitleTypes
  <2>5. \A j \in Calls \ {k} : Creating(j) \/ Titling(j) => titleCalls[j].chat # c
    BY <2>2 DEF TitlesInv, CreatedOnce, Creating, Titling
  <2>6. c \notin named \ crossed /\ title # Absent
    BY <2>3 DEF TitlesInv, NamedByUser, Titles!ChatTitlesAssumption
  <2> HIDE DEF c, title
  <2> USE <2>1, <2>2, <2>3, <2>4, <2>5, <2>6 DEF TitlesInv, Becomes, Creating, Titling
  <2>7. TitleTypes'
    BY DEF TitleTypes, c, title
  <2>8. CreatedOnce'
    BY DEF CreatedOnce, TitleTypes, c
  <2>9. AloneOnTheWay'
    BY DEF AloneOnTheWay, TitleTypes
  <2>10. NamedByUser'
    BY DEF NamedByUser, TitleTypes
  <2>11. Titles!ListedIsStored'
    BY DEF Titles!ListedIsStored
  <2> QED BY <2>7, <2>8, <2>9, <2>10, <2>11
<1> QED BY <1>2, <1>3 DEF Titles!Insert

LEMMA ListStep ==
  ASSUME Titles!ChatTitlesAssumption, TitlesInv, NEW k \in Calls, Titles!List(k)
  PROVE  TitlesInv'
<1> DEFINE c == titleCalls[k].chat
           title == titleCalls[k].title
<1>1. Becomes(k, "idle", Absent, Absent, "user")
  BY Rests DEF Titles!List, TitlesInv, TitleTypes
<1>2. /\ titleCalls[k].at = "inserted" /\ UNCHANGED <<titles, crossed>>
      /\ named' = IF title = NewChat THEN named ELSE named \cup {c}
  BY DEF Titles!List
<1>3. c \in Chats /\ title \in Names \cup {NewChat} /\ titles[c] = title /\ title # Absent
  BY <1>2 DEF TitlesInv, TitleTypes, CreatedOnce, Creating, Titles!ChatTitlesAssumption
<1>4. /\ chats' \in [Chats -> Names \cup Generated \cup {NewChat, Absent}] /\ chats'[c] = title
      /\ \A d \in Chats \ {c} : chats'[d] = chats[d]
  BY <1>3 DEF Titles!List, TitlesInv, TitleTypes
<1>5. \A j \in Calls \ {k} : Creating(j) \/ Titling(j) => titleCalls[j].chat # c
  BY <1>2 DEF TitlesInv, CreatedOnce, Creating, Titling
<1>6. c \in named \ crossed => title \in Names
  BY <1>3 DEF TitlesInv, NamedByUser
<1> HIDE DEF c, title
<1> USE <1>1, <1>2, <1>3, <1>4, <1>5, <1>6 DEF TitlesInv, Becomes, Creating, Titling
<1>7. TitleTypes' /\ named' \subseteq Chats
  BY DEF TitleTypes
<1>8. CreatedOnce'
  BY DEF CreatedOnce, TitleTypes
<1>9. AloneOnTheWay'
  BY DEF AloneOnTheWay, TitleTypes
<1>10. NamedByUser'
  BY DEF NamedByUser, TitleTypes
<1>11. Titles!ListedIsStored'
  BY DEF Titles!ListedIsStored
<1> QED BY <1>7, <1>8, <1>9, <1>10, <1>11

\* A title goes on its way: the user's, or the model's to a chat without a name.
LEMMA UpdateStep ==
  ASSUME Titles!ChatTitlesAssumption, TitlesInv, NEW k \in Calls, NEW c \in Chats, NEW title,
         NEW by \in {"user", "model"}, Titles!Update(k, c, title, by),
         IF by = "user" THEN title \in Names ELSE title \in Generated /\ chats[c] = NewChat,
         chats[c] # Absent, titleCalls[k].at \in {"idle", "asking"}, UNCHANGED <<titles, chats, named>>
  PROVE  TitlesInv'
<1>1. Becomes(k, "writing", c, title, by)
  <2> DEFINE entry == [at |-> "writing", chat |-> c, title |-> title, by |-> by]
  <2>1. entry \in Call
    BY DEF Call, CallAt
  <2> QED BY <2>1, Goes DEF Titles!Update, TitlesInv, TitleTypes
<1>2. /\ crossed \subseteq crossed' /\ crossed' \subseteq crossed \cup {c}
      /\ \A j \in Calls : Titling(j) /\ titleCalls[j].chat = c => c \in crossed'
  BY DEF Titles!Update, Titles!InFlight, Titling
<1>3. titles[c] # Absent
  BY DEF TitlesInv, CreatedOnce
<1>4. \A j \in Calls : Creating(j) => titleCalls[j].chat # c
  BY DEF TitlesInv, CreatedOnce
<1>5. c \in named \ crossed => by = "user"
  BY DEF TitlesInv, NamedByUser, Titles!ChatTitlesAssumption
<1> USE <1>1, <1>2, <1>3, <1>4, <1>5 DEF TitlesInv, Becomes, Creating, Titling
<1>6. TitleTypes'
  BY DEF TitleTypes
<1>7. CreatedOnce'
  BY DEF CreatedOnce
<1>8. AloneOnTheWay'
  BY DEF AloneOnTheWay
<1>9. NamedByUser'
  BY DEF NamedByUser
<1>10. Titles!ListedIsStored'
  BY DEF Titles!ListedIsStored
<1> QED BY <1>6, <1>7, <1>8, <1>9, <1>10

LEMMA WriteTitle ==
  ASSUME Titles!ChatTitlesAssumption, TitlesInv, NEW k \in Calls, Titles!Write(k)
  PROVE  TitlesInv'
<1>1. titleCalls \in [Calls -> Call]
  BY DEF TitlesInv, TitleTypes
<1>2. CASE Titles!Goto(k, Titles!Idle) /\ UNCHANGED titles
  BY <1>1, <1>2, Rests, StandsAside DEF Titles!Write
<1>3. CASE titles' = [titles EXCEPT ![titleCalls[k].chat] = titleCalls[k].title] /\ Titles!Step(k, "written")
  <2> DEFINE c == titleCalls[k].chat
             title == titleCalls[k].title
  <2>1. Becomes(k, "written", c, title, titleCalls[k].by)
    BY <1>1, <1>3, StepsOn DEF CallAt
  <2>2. titleCalls[k].at = "writing" /\ UNCHANGED <<chats, named, crossed>>
    BY DEF Titles!Write
  <2>3. c \in Chats /\ title \in (IF titleCalls[k].by = "user" THEN Names ELSE Generated) /\ title # Absent
    BY <2>2 DEF TitlesInv, TitleTypes, Titling, Titles!ChatTitlesAssumption
  <2>4. /\ titles' \in [Chats -> Names \cup Generated \cup {NewChat, Absent}] /\ titles'[c] = title
        /\ \A d \in Chats \ {c} : titles'[d] = titles[d]
    BY <1>3, <2>3 DEF TitlesInv, TitleTypes
  <2>5. \A j \in Calls : Creating(j) => titleCalls[j].chat # c
    BY <2>2 DEF TitlesInv, CreatedOnce, Creating, Titling
  <2>6. \A j \in Calls \ {k} : Titling(j) /\ titleCalls[j].chat = c => c \in crossed
    BY <2>2 DEF TitlesInv, AloneOnTheWay, Titling
  <2>7. c \in named \ crossed => titleCalls[k].by = "user"
    BY <2>2, <2>3 DEF TitlesInv, NamedByUser, Titling
  <2> HIDE DEF c, title
  <2> USE <2>1, <2>2, <2>3, <2>4, <2>5, <2>6, <2>7 DEF TitlesInv, Becomes, Creating, Titling
  <2>8. TitleTypes'
    BY DEF TitleTypes, c, title
  <2>9. CreatedOnce'
    BY DEF CreatedOnce, TitleTypes, c
  <2>10. AloneOnTheWay'
    BY DEF AloneOnTheWay, TitleTypes, c
  <2>11. NamedByUser'
    BY DEF NamedByUser, TitleTypes, c
  <2>12. Titles!ListedIsStored'
    BY DEF Titles!ListedIsStored
  <2> QED BY <2>8, <2>9, <2>10, <2>11, <2>12
<1> QED BY <1>2, <1>3 DEF Titles!Write

LEMMA ShowStep ==
  ASSUME Titles!ChatTitlesAssumption, TitlesInv, NEW k \in Calls, Titles!Show(k)
  PROVE  TitlesInv'
<1> DEFINE c == titleCalls[k].chat
           title == titleCalls[k].title
<1>1. Becomes(k, "idle", Absent, Absent, "user")
  BY Rests DEF Titles!Show, TitlesInv, TitleTypes
<1>2. /\ titleCalls[k].at = "written" /\ UNCHANGED <<titles, crossed>>
      /\ named' = IF titleCalls[k].by = "user" THEN named \cup {c} ELSE named
  BY DEF Titles!Show
<1>3. c \in Chats /\ title \in (IF titleCalls[k].by = "user" THEN Names ELSE Generated)
  BY <1>2 DEF TitlesInv, TitleTypes, Titling
<1>4. /\ chats' \in [Chats -> Names \cup Generated \cup {NewChat, Absent}]
      /\ chats'[c] = IF chats[c] = Absent THEN Absent ELSE title
      /\ \A d \in Chats \ {c} : chats'[d] = chats[d]
  BY <1>3 DEF Titles!Show, TitlesInv, TitleTypes
<1>5. c \notin crossed => /\ titles[c] = title
                          /\ \A j \in Calls \ {k} : Titling(j) => titleCalls[j].chat # c
                          /\ c \in named => titleCalls[k].by = "user"
  BY <1>2, <1>3 DEF TitlesInv, AloneOnTheWay, NamedByUser, Titling
<1>6. titles[c] # Absent /\ \A j \in Calls : Creating(j) => titleCalls[j].chat # c
  BY <1>2 DEF TitlesInv, CreatedOnce, Titling
<1> HIDE DEF c, title
<1> USE <1>1, <1>2, <1>3, <1>4, <1>5, <1>6 DEF TitlesInv, Becomes, Creating, Titling
<1>7. TitleTypes' /\ named' \subseteq Chats
  BY DEF TitleTypes
<1>8. CreatedOnce'
  BY DEF CreatedOnce, TitleTypes
<1>9. AloneOnTheWay'
  BY DEF AloneOnTheWay, TitleTypes
<1>10. NamedByUser'
  BY DEF NamedByUser, TitleTypes
<1>11. Titles!ListedIsStored'
  BY DEF Titles!ListedIsStored, c
<1> QED BY <1>7, <1>8, <1>9, <1>10, <1>11

LEMMA TitlesStep ==
  ASSUME Titles!ChatTitlesAssumption, TitlesInv, [Titles!Next]_(Titles!vars)
  PROVE  TitlesInv'
<1>t. titleCalls \in [Calls -> Call]
  BY DEF TitlesInv, TitleTypes
<1>1. ASSUME NEW k \in Calls, NEW c \in Chats, NEW title \in Names, Titles!Rename(k, c, title)
      PROVE  TitlesInv'
  BY <1>1, UpdateStep DEF Titles!Rename
<1>2. ASSUME NEW k \in Calls, NEW c \in Chats, Titles!Seed(k, c)
      PROVE  TitlesInv'
  <2> DEFINE entry == [Titles!Idle EXCEPT !.at = "probing", !.chat = c, !.by = "model"]
  <2>1. entry \in Call /\ entry.at = "probing" /\ entry.chat = c
    BY DEF Call, CallAt, Titles!Idle
  <2>2. Becomes(k, "probing", c, entry.title, entry.by)
    BY <1>t, <1>2, <2>1, Goes DEF Titles!Seed
  <2> QED BY <1>2, <2>2, StandsAside DEF Titles!Seed
<1>3. ASSUME NEW k \in Calls, Titles!Probe(k) \/ Titles!NoTitle(k)
      PROVE  TitlesInv'
  <2>1. CASE titleCalls[k].at = "probing" /\ Titles!Step(k, "asking")
    <3>1. Becomes(k, "asking", titleCalls[k].chat, titleCalls[k].title, titleCalls[k].by)
      BY <1>t, <2>1, StepsOn DEF CallAt
    <3>2. titleCalls[k].chat \in Chats
      BY <2>1 DEF TitlesInv, TitleTypes
    <3> QED BY <1>3, <2>1, <3>1, <3>2, StandsAside DEF Titles!Probe, Titles!NoTitle
  <2>2. CASE titleCalls[k].at \in {"probing", "asking"} /\ Titles!Goto(k, Titles!Idle)
    BY <1>t, <1>3, <2>2, Rests, StandsAside DEF Titles!Probe, Titles!NoTitle
  <2> QED BY <1>3, <2>1, <2>2 DEF Titles!Probe, Titles!NoTitle
<1>4. ASSUME NEW k \in Calls, NEW title \in Generated, Titles!Complete(k, title)
      PROVE  TitlesInv'
  <2>1. titleCalls[k].at = "asking" /\ titleCalls[k].chat \in Chats /\ UNCHANGED <<titles, chats, named>>
    BY <1>4 DEF Titles!Complete, Titles!Completes, TitlesInv, TitleTypes
  <2>2. CASE Titles!Goto(k, Titles!Idle) /\ UNCHANGED crossed
    BY <1>t, <2>1, <2>2, Rests, StandsAside
  <2>3. CASE chats[titleCalls[k].chat] = NewChat /\ Titles!Update(k, titleCalls[k].chat, title, "model")
    BY <2>1, <2>3, UpdateStep DEF Titles!ChatTitlesAssumption
  <2> QED BY <1>4, <2>2, <2>3 DEF Titles!Complete, Titles!IsDefault
<1>5. ASSUME UNCHANGED <<titles, chats, titleCalls, named, crossed>>
      PROVE  TitlesInv'
  BY <1>5 DEF TitlesInv, TitleTypes, CreatedOnce, AloneOnTheWay, NamedByUser, Titles!ListedIsStored, Creating,
              Titling
<1>6. CASE Titles!Boot
  <2>1. /\ titleCalls' = [k \in Calls |-> Titles!Idle] /\ UNCHANGED <<titles, named, crossed>>
        /\ chats' = titles \/ chats' = [c \in Chats |-> Absent]
    BY <1>6 DEF Titles!Boot
  <2>2. Titles!Idle \in Call /\ \A k \in Calls : titleCalls'[k].at = "idle"
    BY <2>1 DEF Titles!Idle, Call, CallAt
  <2> QED BY <2>1, <2>2 DEF TitlesInv, TitleTypes, CreatedOnce, AloneOnTheWay, NamedByUser,
                            Titles!ListedIsStored, Creating, Titling
<1> QED BY <1>1, <1>2, <1>3, <1>4, <1>5, <1>6, CreateStep, InsertStep, ListStep, WriteTitle, ShowStep
        DEF Titles!Next, Titles!Serve, Titles!vars

\* The list shows what is stored and no title of the user's gives way to the
\* model's, of any number of chats, calls and restarts, save where two titles of a
\* chat crossed.
LEMMA TrueTitles ==
  Titles!Spec => [](Titles!ChatTitlesAssumption => Titles!ListedIsStored /\ Titles!NamesAreKept)
<1>1. Titles!ChatTitlesAssumption /\ Titles!Init => TitlesInv
  BY DEF Titles!ChatTitlesAssumption, Titles!Init, Titles!Idle, TitlesInv, TitleTypes, CreatedOnce,
         AloneOnTheWay, NamedByUser, Titles!ListedIsStored, Creating, Titling, Call, CallAt
<1>2. (Titles!ChatTitlesAssumption => TitlesInv) /\ [Titles!Next]_(Titles!vars)
        => (Titles!ChatTitlesAssumption => TitlesInv)'
  BY TitlesStep DEF Titles!ChatTitlesAssumption
<1>3. TitlesInv => Titles!ListedIsStored /\ Titles!NamesAreKept
  BY DEF TitlesInv, NamedByUser, Titles!NamesAreKept
<1> QED BY <1>1, <1>2, <1>3, PTL DEF Titles!Spec

-----------------------------------------------------------------------------
(* What signals say: SignalsAreTrue.  Whichever config sent a payload, it is *)
(* resolved to the CLI that wrote it, and all that is on the way or stored  *)
(* of one hook is of one payload.                                           *)

Inputs ==
  [cli : Signals!Clis, transcript : Signals!Clis \cup {"none"}, cursor_version : BOOLEAN,
    permission_mode : BOOLEAN,
   model : BOOLEAN, session : Targets \X Signals!Clis, event : Signals!Events, body : Bodies]

\* A payload of the terminal of target t, which is known for what it is.
Known(t, input) ==
  /\ input.session = <<t, input.cli>>
  /\ \A declared \in Signals!Clis : Signals!resolveProvider(declared, input) = input.cli

HookLines == {l \in [by : Nat, target : Targets, declared : Signals!Clis, input : Inputs] : Known(l.target, l.input)}
Signal ==
  {s \in [by : Nat, target : Targets, declared : Signals!Clis, input : Inputs, provider : Signals!Clis] :
     s.provider = s.input.cli /\ s.input.session = <<s.target, s.input.cli>>}
Binding == {s \in Signal : Signals!Binds(s)}

SignalTypes ==
  /\ fired \in Nat /\ lines \subseteq HookLines
  /\ signals \in Seq(Signal) /\ bindings \in Seq(Binding)
  /\ handling # Signals!Nothing => handling.signal \in Signal
  /\ handling = [signal |-> handling.signal, todo |-> handling.todo]
  /\ \A r \in activity :
       r = [key |-> [provider |-> r.key.input.cli, type |-> r.type, input |-> r.key.input],
            type |-> r.type, by |-> r.by]
  /\ native = [t \in Targets |-> native[t]]

\* What is on the way or stored: the hook and its payload.
Seen ==
  {<<l.by, l.input>> : l \in lines}
    \cup {<<signals[i].by, signals[i].input>> : i \in DOMAIN signals}
    \cup {<<h.signal.by, h.signal.input>> : h \in {handling} \ {Signals!Nothing}}
    \cup {<<r.by, r.key.input>> : r \in activity}

OnePayload ==
  \A p, q \in Seen : p[1] \in Nat /\ p[1] <= fired /\ (p[1] = q[1] => p = q)

SignalsInv == SignalTypes /\ OnePayload /\ Signals!BoundToItsCli

LEMMA Resolved ==
  ASSUME NEW t \in Targets, NEW owner \in Signals!Clis, NEW path \in BOOLEAN, NEW event \in Signals!Events,
         NEW body \in Bodies, owner = "codex" => path
  PROVE  /\ Signals!Payload(owner, path, <<t, owner>>, event, body) \in Inputs
         /\ Known(t, Signals!Payload(owner, path, <<t, owner>>, event, body))
<1> DEFINE input == Signals!Payload(owner, path, <<t, owner>>, event, body)
<1>1. input \in Inputs /\ input.cli = owner /\ input.session = <<t, owner>>
  BY DEF Signals!Payload, Inputs, Signals!Clis
<1>2. ASSUME NEW declared \in Signals!Clis PROVE Signals!resolveProvider(declared, input) = owner
  BY DEF Signals!Payload, Signals!resolveProvider, Signals!Clis
<1> QED BY <1>1, <1>2 DEF Known

LEMMA Shifted ==
  ASSUME NEW S, NEW s \in Seq(S), s # <<>>
  PROVE  /\ Head(s) \in S /\ Tail(s) \in Seq(S) /\ 1 \in DOMAIN s /\ s[1] = Head(s)
         /\ \A i \in DOMAIN Tail(s) : i + 1 \in DOMAIN s /\ s[i + 1] = Tail(s)[i]
OBVIOUS

LEMMA Appended ==
  ASSUME NEW S, NEW s \in Seq(S), NEW x \in S
  PROVE  /\ Append(s, x) \in Seq(S)
         /\ \A i \in DOMAIN Append(s, x) : (i \in DOMAIN s /\ Append(s, x)[i] = s[i]) \/ Append(s, x)[i] = x
OBVIOUS

LEMMA SignalOfLine ==
  ASSUME NEW line \in HookLines
  PROVE  /\ Signals!toSignal(line) \in Signal /\ Signals!toSignal(line).by = line.by
         /\ Signals!toSignal(line).input = line.input
         /\ Signals!Binds(Signals!toSignal(line)) => Signals!toSignal(line) \in Binding
<1>1. Signals!toSignal(line).provider = line.input.cli
  BY DEF Signals!toSignal, HookLines, Known
<1>2. line.input.cli \in Signals!Clis /\ line.input.session = <<line.target, line.input.cli>>
  BY DEF HookLines, Known, Inputs
<1>3. Signals!toSignal(line) \in Signal
  BY <1>1, <1>2 DEF Signals!toSignal, HookLines, Signal
<1> QED BY <1>3 DEF Signals!toSignal, Binding

LEMMA SignalTypesStep ==
  ASSUME SignalTypes, [Signals!Next]_(Signals!vars)
  PROVE  SignalTypes'
<1> USE DEF SignalTypes, Signals!rows
<1>1. ASSUME NEW t \in Targets, NEW owner \in Signals!Clis, NEW path \in BOOLEAN, NEW event \in Signals!Events,
             NEW body \in Bodies, Signals!Fire(t, owner, path, event, body)
      PROVE  SignalTypes'
  <2> DEFINE input == Signals!Payload(owner, path, <<t, owner>>, event, body)
             configs == IF owner = "cursor" THEN {"cursor", "claude"} ELSE {owner}
  <2>1. input \in Inputs /\ Known(t, input)
    BY <1>1, Resolved DEF Signals!Fire
  <2> HIDE DEF input
  <2>2. fired' \in Nat /\ configs \subseteq Signals!Clis
    BY <1>1 DEF Signals!Fire, Signals!Clis
  <2>3. \A c \in configs : Signals!Line(fired', t, c, input) \in HookLines
    BY <2>1, <2>2 DEF Signals!Line, HookLines
  <2>4. lines' \subseteq HookLines
    BY <1>1, <2>3 DEF Signals!Fire, input
  <2> QED BY <1>1, <2>2, <2>4 DEF Signals!Fire
<1>2. ASSUME NEW line \in lines, Signals!Arrive(line) PROVE SignalTypes'
  BY <1>2, SignalOfLine, Appended DEF Signals!Arrive
<1>3. ASSUME NEW line \in lines, Signals!Missed(line) PROVE SignalTypes'
  BY <1>3 DEF Signals!Missed
<1>4. CASE Signals!Bind
  BY <1>4, Shifted DEF Signals!Bind
<1>5. CASE Signals!Trace
  BY <1>5, Shifted DEF Signals!Trace
<1>6. CASE Signals!TraceFails
  BY <1>6, Shifted DEF Signals!TraceFails
<1>7. CASE Signals!Persist
  <2>1. handling.signal.provider = handling.signal.input.cli
    BY <1>7 DEF Signals!Persist, Signal
  <2>2. \A r \in activity' :
          r = [key |-> [provider |-> r.key.input.cli, type |-> r.type, input |-> r.key.input],
               type |-> r.type, by |-> r.by]
    BY <1>7, <2>1 DEF Signals!Persist, Signals!ActivityKey
  <2> QED BY <1>7, <2>2 DEF Signals!Persist
<1>8. CASE Signals!PersistFails
  BY <1>8 DEF Signals!PersistFails
<1>9. CASE Signals!Finish
  BY <1>9 DEF Signals!Finish, Signals!Nothing
<1>10. CASE UNCHANGED Signals!vars
  BY <1>10 DEF Signals!vars
<1> QED BY <1>1, <1>2, <1>3, <1>4, <1>5, <1>6, <1>7, <1>8, <1>9, <1>10 DEF Signals!Next

\* A payload comes in with its hook, and from then on only moves on or goes.
LEMMA SeenStep ==
  ASSUME SignalTypes, [Signals!Next]_(Signals!vars)
  PROVE  \/ fired' = fired /\ Seen' \subseteq Seen
         \/ \E input : fired' = fired + 1 /\ Seen' \subseteq Seen \cup {<<fired', input>>}
<1> USE DEF SignalTypes, Signals!rows, Seen
<1>1. ASSUME NEW t \in Targets, NEW owner \in Signals!Clis, NEW path \in BOOLEAN, NEW event \in Signals!Events,
             NEW body \in Bodies, Signals!Fire(t, owner, path, event, body)
      PROVE  \E input : fired' = fired + 1 /\ Seen' \subseteq Seen \cup {<<fired', input>>}
  <2> DEFINE input == Signals!Payload(owner, path, <<t, owner>>, event, body)
             configs == IF owner = "cursor" THEN {"cursor", "claude"} ELSE {owner}
  <2>1. /\ lines' = lines \cup {Signals!Line(fired', t, c, input) : c \in configs}
        /\ fired' = fired + 1 /\ UNCHANGED <<signals, handling, activity>>
    BY <1>1 DEF Signals!Fire
  <2> HIDE DEF input, configs
  <2>2. \A l \in lines' : l \in lines \/ (l.by = fired' /\ l.input = input)
    BY <2>1 DEF Signals!Line
  <2>3. Seen' \subseteq Seen \cup {<<fired', input>>}
    BY <2>1, <2>2
  <2> QED BY <2>1, <2>3
<1>2. ASSUME NEW line \in lines, Signals!Arrive(line) PROVE fired' = fired /\ Seen' \subseteq Seen
  <2>1. \A i \in DOMAIN signals' : (i \in DOMAIN signals /\ signals'[i] = signals[i])
                          \/ signals'[i] = Signals!toSignal(line)
    BY <1>2, SignalOfLine, Appended DEF Signals!Arrive
  <2>2. Signals!toSignal(line).by = line.by /\ Signals!toSignal(line).input = line.input
    BY SignalOfLine
  <2> QED BY <1>2, <2>1, <2>2 DEF Signals!Arrive
<1>3. ASSUME NEW line \in lines, Signals!Missed(line) PROVE fired' = fired /\ Seen' \subseteq Seen
  BY <1>3 DEF Signals!Missed
<1>4. CASE Signals!Bind
  BY <1>4 DEF Signals!Bind
<1>5. CASE Signals!Trace \/ Signals!TraceFails
  <2>s. signals \in Seq(Signal) /\ signals # <<>> /\ signals' = Tail(signals)
    BY <1>5 DEF Signals!Trace, Signals!TraceFails
  <2>1. /\ 1 \in DOMAIN signals /\ signals[1] = Head(signals)
        /\ \A i \in DOMAIN signals' : i + 1 \in DOMAIN signals /\ signals[i + 1] = signals'[i]
    BY <2>s, Shifted
  <2>2. handling'.signal = Head(signals) /\ UNCHANGED <<fired, lines, activity>>
    BY <1>5 DEF Signals!Trace, Signals!TraceFails
  <2> QED BY <2>1, <2>2
<1>7. CASE Signals!Persist \/ Signals!PersistFails
  <2>1. handling # Signals!Nothing /\ handling'.signal = handling.signal /\ UNCHANGED <<fired, lines, signals>>
    BY <1>7 DEF Signals!Persist, Signals!PersistFails
  <2>2. \A r \in activity' : r \in activity \/ (r.by = handling.signal.by /\ r.key.input = handling.signal.input)
    BY <1>7 DEF Signals!Persist, Signals!PersistFails, Signals!ActivityKey
  <2> QED BY <2>1, <2>2
<1>9. CASE Signals!Finish
  BY <1>9 DEF Signals!Finish
<1>10. CASE UNCHANGED Signals!vars
  BY <1>10 DEF Signals!vars
<1> HIDE DEF SignalTypes, Seen
<1> QED BY <1>1, <1>2, <1>3, <1>4, <1>5, <1>7, <1>9, <1>10 DEF Signals!Next

LEMMA PayloadStep ==
  ASSUME SignalTypes, OnePayload, [Signals!Next]_(Signals!vars)
  PROVE  OnePayload'
<1>1. fired \in Nat
  BY DEF SignalTypes
<1>2. CASE fired' = fired /\ Seen' \subseteq Seen
  BY <1>2 DEF OnePayload
<1>3. ASSUME NEW input, fired' = fired + 1, Seen' \subseteq Seen \cup {<<fired', input>>}
      PROVE  OnePayload'
  <2>1. ASSUME NEW p \in Seen' PROVE (p \in Seen /\ p[1] \in Nat /\ p[1] <= fired) \/ p = <<fired', input>>
    BY <1>3 DEF OnePayload
  <2>2. ASSUME NEW p \in Seen', NEW q \in Seen', p[1] = q[1] PROVE p = q
    BY <1>1, <1>3, <2>1, <2>2 DEF OnePayload
  <2>3. ASSUME NEW p \in Seen' PROVE p[1] \in Nat /\ p[1] <= fired'
    BY <1>1, <1>3, <2>1
  <2> HIDE DEF Seen
  <2> QED BY <2>2, <2>3 DEF OnePayload
<1> QED BY <1>2, <1>3, SeenStep

LEMMA BoundStep ==
  ASSUME SignalTypes, Signals!BoundToItsCli, [Signals!Next]_(Signals!vars)
  PROVE  Signals!BoundToItsCli'
<1>1. CASE Signals!Bind
  <2>1. Head(bindings) \in Binding
    BY <1>1, Shifted DEF Signals!Bind, SignalTypes
  <2>2. Head(bindings).input.session = <<Head(bindings).target, CliOf(Head(bindings).target)>>
    BY <2>1 DEF Binding, Signal, Signals!Binds
  <2> QED BY <1>1, <2>2 DEF Signals!Bind, Signals!BoundToItsCli, SignalTypes
<1>2. CASE native' = native
  BY <1>2 DEF Signals!BoundToItsCli
<1>3. Signals!Bind \/ native' = native
  BY DEF Signals!Next, Signals!vars, Signals!rows, Signals!Fire, Signals!Arrive,
         Signals!Missed, Signals!Trace, Signals!TraceFails,
         Signals!Persist, Signals!PersistFails, Signals!Finish
<1> QED BY <1>1, <1>2, <1>3

\* A target is bound to its own CLI, and a hook is one event of a type, however
\* many terminals, hooks and configs there are.
LEMMA TrueSignals == Signals!Spec => []Signals!SignalsAreTrue
<1>1. Signals!Init => SignalsInv
  BY DEF Signals!Init, SignalsInv, SignalTypes, OnePayload, Seen, Signals!BoundToItsCli, Signals!Nothing
<1>2. SignalsInv /\ [Signals!Next]_(Signals!vars) => SignalsInv'
  BY SignalTypesStep, PayloadStep, BoundStep DEF SignalsInv
<1>3. SignalsInv => Signals!SignalsAreTrue
  <2>1. ASSUME SignalTypes, OnePayload, NEW r \in activity, NEW s \in activity, r.by = s.by, r.type = s.type
        PROVE  r = s
    <3>1. <<r.by, r.key.input>> \in Seen /\ <<s.by, s.key.input>> \in Seen
      BY DEF Seen
    <3>2. r.key.input = s.key.input
      BY <2>1, <3>1 DEF OnePayload
    <3> QED BY <2>1, <3>2 DEF SignalTypes
  <2> QED BY <2>1 DEF SignalsInv, Signals!SignalsAreTrue, Signals!OneEventPerHook
<1> QED BY <1>1, <1>2, <1>3, PTL DEF Signals!Spec

-----------------------------------------------------------------------------
(* Transactions on the one handle: Transactional.  A writer past the permit *)
(* has it alone, works are numbered apart, and what is not the work of the  *)
(* open transaction is the same before it and in it, but for single         *)
(* statements.                                                              *)

Active == {"waiting", "granted", "running"}
Row == [by : Store!Fibers, n : Nat, i : Nat]
StoreTypes ==
  /\ at \in [Store!Fibers -> Active \cup {"idle", "committed", "undone"}]
  /\ doing \in [Store!Fibers -> [n : Nat, left : Nat]]
  /\ lastWork \in Nat /\ rows \subseteq Row /\ before \subseteq rows
     /\ outcome \subseteq [n : Nat, kept : BOOLEAN]

\* Whose the permit is, and whose the open transaction.
Owned ==
  /\ \A f \in Writers : at[f] \in {"granted", "running"} => permit = f
  /\ permit # Free => permit \in Writers /\ at[permit] \in {"granted", "running"}
  /\ \A f \in Store!Fibers : at[f] = "running" => f \in Writers /\ begun = f
  /\ begun # Free => begun \in Writers /\ at[begun] = "running"
  /\ holder = permit

\* Whose work has which number.
Numbered ==
  /\ \A f \in Store!Fibers :
       /\ doing[f].n <= lastWork
       /\ at[f] \in Active => /\ doing[f].n > 0
                              /\ \A g \in Store!Fibers \ {f} : doing[g].n # doing[f].n
                              /\ \A o \in outcome : o.n # doing[f].n
                              /\ f \in Writers => doing[f].left <= Size
                              /\ f \in Writers /\ at[f] # "running" => doing[f].left = Size
  /\ \A o \in outcome : o.n <= lastWork
  /\ \A r \in rows : r.n <= lastWork

\* The rows of the work that f has left some statements of, and of one it has left none.
Some(f, left) == {[by |-> f, n |-> doing[f].n, i |-> i] : i \in (left + 1)..Size}
All(f, n, size) == {[by |-> f, n |-> n, i |-> i] : i \in 1..size}
Entire(o) == \E f \in Writers : {r \in rows : r.n = o.n} = All(f, o.n, Size)

WholeRows ==
  /\ \A f \in Store!Fibers : at[f] \in {"waiting", "granted"} => \A r \in rows : r.n # doing[f].n
  /\ \A f \in Store!Fibers : at[f] = "running" =>
       /\ {r \in rows : r.n = doing[f].n} = Some(f, doing[f].left)
       /\ \A r \in before : r.n # doing[f].n
  /\ \A o \in outcome : IF o.kept THEN Entire(o) ELSE \A r \in rows : r.n # o.n
  /\ begun # Free => \A o \in outcome : \A r \in rows : r.n = o.n => r \in before

Waiting == {f \in Store!Fibers : at[f] = "waiting"}
Counted == waiters = Cardinality(Waiting)

StoreInv == StoreTypes /\ Owned /\ Numbered /\ WholeRows /\ Counted

LEMMA StoreTypesStep ==
  ASSUME Store!StoreAssumption, StoreTypes, [Store!Next]_(Store!vars)
  PROVE  StoreTypes'
<1> USE DEF StoreTypes, Row, Active, Store!StoreAssumption
<1>0. \A f \in Store!Fibers, b \in BOOLEAN : [n |-> doing[f].n, kept |-> b] \in [n : Nat, kept : BOOLEAN]
  OBVIOUS
<1>1. ASSUME NEW f \in Store!Fibers, Store!Ask(f) PROVE StoreTypes'
  BY <1>1 DEF Store!Ask
<1>2. ASSUME NEW f \in Store!Fibers, Store!AcquireRegular(f) PROVE StoreTypes'
  BY <1>2 DEF Store!AcquireRegular
<1>3. ASSUME NEW f \in Store!Fibers, Store!Execute(f) PROVE StoreTypes'
  BY <1>3 DEF Store!Execute, Store!Insert
<1>4. ASSUME NEW f \in Store!Fibers, Store!AcquireTransaction(f) PROVE StoreTypes'
  BY <1>4 DEF Store!AcquireTransaction
<1>5. ASSUME NEW f \in Store!Fibers, Store!Begin(f) PROVE StoreTypes'
  BY <1>5 DEF Store!Begin
<1>6. ASSUME NEW f \in Store!Fibers, Store!Run(f) PROVE StoreTypes'
  BY <1>6 DEF Store!Run, Store!Insert
<1>7. ASSUME NEW f \in Store!Fibers, Store!Commit(f) PROVE StoreTypes'
  BY <1>0, <1>7 DEF Store!Commit, Store!Close
<1>8. ASSUME NEW f \in Store!Fibers, Store!Rollback(f) PROVE StoreTypes'
  BY <1>0, <1>8 DEF Store!Rollback, Store!Close
<1>9. ASSUME NEW f \in Store!Fibers, Store!Interrupt(f) PROVE StoreTypes'
  BY <1>9 DEF Store!Interrupt
<1>10. CASE UNCHANGED Store!vars
  BY <1>10 DEF Store!vars
<1> QED BY <1>1, <1>2, <1>3, <1>4, <1>5, <1>6, <1>7, <1>8, <1>9, <1>10 DEF Store!Next, Store!Turn

LEMMA OwnedStep ==
  ASSUME Store!StoreAssumption, StoreTypes, Owned, [Store!Next]_(Store!vars)
  PROVE  Owned'
<1> USE DEF StoreTypes, Owned, Store!StoreAssumption, Store!Fibers, Active
<1>1. ASSUME NEW f \in Store!Fibers, Store!Ask(f) PROVE Owned'
  BY <1>1 DEF Store!Ask, Store!Idle
<1>2. ASSUME NEW f \in Store!Fibers, Store!AcquireRegular(f) PROVE Owned'
  BY <1>2 DEF Store!AcquireRegular
<1>3. ASSUME NEW f \in Store!Fibers, Store!Execute(f) PROVE Owned'
  BY <1>3 DEF Store!Execute
<1>4. ASSUME NEW f \in Store!Fibers, Store!AcquireTransaction(f) PROVE Owned'
  BY <1>4 DEF Store!AcquireTransaction, Store!Kept
<1>5. ASSUME NEW f \in Store!Fibers, Store!Begin(f) PROVE Owned'
  BY <1>5 DEF Store!Begin
<1>6. ASSUME NEW f \in Store!Fibers, Store!Run(f) PROVE Owned'
  BY <1>6 DEF Store!Run
<1>7. ASSUME NEW f \in Store!Fibers, Store!Commit(f) PROVE Owned'
  BY <1>7 DEF Store!Commit, Store!Close
<1>8. ASSUME NEW f \in Store!Fibers, Store!Rollback(f) PROVE Owned'
  BY <1>8 DEF Store!Rollback, Store!Close
<1>9. ASSUME NEW f \in Store!Fibers, Store!Interrupt(f) PROVE Owned'
  BY <1>9 DEF Store!Interrupt
<1>10. CASE UNCHANGED Store!vars
  BY <1>10 DEF Store!vars
<1> QED BY <1>1, <1>2, <1>3, <1>4, <1>5, <1>6, <1>7, <1>8, <1>9, <1>10 DEF Store!Next, Store!Turn

LEMMA NumberedStep ==
  ASSUME Store!StoreAssumption, StoreTypes, Owned, Numbered, [Store!Next]_(Store!vars)
  PROVE  Numbered'
<1> USE DEF StoreTypes, Owned, Numbered, Store!StoreAssumption, Store!Fibers, Active, Row
<1>1. ASSUME NEW f \in Store!Fibers, Store!Ask(f) PROVE Numbered'
  BY <1>1 DEF Store!Ask
<1>2. ASSUME NEW f \in Store!Fibers, Store!AcquireRegular(f) PROVE Numbered'
  BY <1>2 DEF Store!AcquireRegular
<1>3. ASSUME NEW f \in Store!Fibers, Store!Execute(f) PROVE Numbered'
  BY <1>3 DEF Store!Execute, Store!Insert
<1>4. ASSUME NEW f \in Store!Fibers, Store!AcquireTransaction(f) PROVE Numbered'
  BY <1>4 DEF Store!AcquireTransaction
<1>5. ASSUME NEW f \in Store!Fibers, Store!Begin(f) PROVE Numbered'
  BY <1>5 DEF Store!Begin
<1>6. ASSUME NEW f \in Store!Fibers, Store!Run(f) PROVE Numbered'
  BY <1>6 DEF Store!Run, Store!Insert
<1>7. ASSUME NEW f \in Store!Fibers, Store!Commit(f) PROVE Numbered'
  BY <1>7 DEF Store!Commit, Store!Close
<1>8. ASSUME NEW f \in Store!Fibers, Store!Rollback(f) PROVE Numbered'
  BY <1>8 DEF Store!Rollback, Store!Close
<1>9. ASSUME NEW f \in Store!Fibers, Store!Interrupt(f) PROVE Numbered'
  BY <1>9 DEF Store!Interrupt
<1>10. CASE UNCHANGED Store!vars
  BY <1>10 DEF Store!vars
<1> QED BY <1>1, <1>2, <1>3, <1>4, <1>5, <1>6, <1>7, <1>8, <1>9, <1>10 DEF Store!Next, Store!Turn

\* What the component takes from FiniteSets is what is taken from it here.
LEMMA SameSets ==
  ASSUME NEW S
  PROVE  Store!Cardinality(S) = Cardinality(S) /\ (Store!IsFiniteSet(S) <=> IsFiniteSet(S))
  BY Zenon DEF Store!Cardinality, Store!IsFiniteSet, Cardinality, IsFiniteSet

LEMMA CountedStep ==
  ASSUME Store!StoreAssumption, StoreTypes, Counted, [Store!Next]_(Store!vars)
  PROVE  Counted'
<1> USE DEF StoreTypes, Counted, Active
<1>0. IsFiniteSet(Waiting) /\ Cardinality(Waiting) \in Nat
  <2>1. Waiting \subseteq Store!Fibers
    BY DEF Waiting
  <2>2. IsFiniteSet(Waiting)
    BY <2>1, SameSets, FS_Subset DEF Store!StoreAssumption
  <2> QED BY <2>2, FS_CardinalityType
<1>1. ASSUME NEW f \in Store!Fibers, Store!Ask(f) PROVE Counted'
  <2>1. Waiting' = Waiting \cup {f} /\ f \notin Waiting
    BY <1>1 DEF Store!Ask, Store!Idle, Waiting
  <2> QED BY <1>0, <1>1, <2>1, FS_AddElement DEF Store!Ask
<1>2. ASSUME NEW f \in Store!Fibers, at[f] = "waiting", waiters' = waiters - 1,
             NEW end \in {"granted", "undone"}, at' = [at EXCEPT ![f] = end]
      PROVE  Counted'
  <2>1. Waiting' = Waiting \ {f} /\ f \in Waiting
    BY <1>2 DEF Waiting
  <2> QED BY <1>0, <1>2, <2>1, FS_RemoveElement
<1>3. ASSUME NEW f \in Store!Fibers, at[f] # "waiting", waiters' = waiters,
             NEW end \in {"running", "committed", "undone"}, at' = [at EXCEPT ![f] = end] \/ at' = at
      PROVE  Counted'
  <2>1. Waiting' = Waiting
    BY <1>3 DEF Waiting
  <2> QED BY <1>3, <2>1
<1>4. ASSUME NEW f \in Store!Fibers, Store!Turn(f) \/ Store!Interrupt(f) PROVE Counted'
  BY <1>2, <1>3, <1>4 DEF Store!Turn, Store!AcquireRegular, Store!Execute, Store!AcquireTransaction,
     Store!Begin, Store!Run, Store!Commit, Store!Rollback, Store!Close, Store!Interrupt, Store!Counted
<1>5. CASE UNCHANGED Store!vars
  BY <1>5 DEF Store!vars, Waiting
<1> QED BY <1>1, <1>4, <1>5 DEF Store!Next

LEMMA WholeRowsStep ==
  ASSUME Store!StoreAssumption, StoreTypes, Owned, Numbered, WholeRows, [Store!Next]_(Store!vars)
  PROVE  WholeRows'
<1> USE DEF Store!StoreAssumption
\* No rows but those of f's own work are added, and no outcome.
<1>1. ASSUME NEW f \in Store!Fibers, at[f] \in {"granted", "running"}, Store!Insert(f),
             UNCHANGED <<begun, before, outcome>>,
             \A g \in Store!Fibers \ {f} : at'[g] = at[g] /\ doing'[g] = doing[g], doing'[f].n = doing[f].n
      PROVE  /\ {r \in rows' : r.n = doing[f].n} =
                  {r \in rows : r.n = doing[f].n} \cup {[by |-> f, n |-> doing[f].n, i |-> doing[f].left]}
             /\ \A g \in Store!Fibers \ {f} :
                  /\ at'[g] \in {"waiting", "granted"} => \A r \in rows' : r.n # doing'[g].n
                  /\ at'[g] = "running" => /\ {r \in rows' : r.n = doing'[g].n} = Some(g, doing[g].left)'
                                           /\ \A r \in before' : r.n # doing'[g].n
             /\ \A o \in outcome' : IF o.kept THEN Entire(o)' ELSE \A r \in rows' : r.n # o.n
             /\ begun' # Free => \A o \in outcome' : \A r \in rows' : r.n = o.n => r \in before'
  <2>1. rows' = rows \cup {[by |-> f, n |-> doing[f].n, i |-> doing[f].left]}
    BY <1>1 DEF Store!Insert
  <2>2. \A g \in Store!Fibers \ {f} : at[g] \in Active => doing[g].n # doing[f].n
    BY <1>1 DEF Numbered, Active
  <2>3. ASSUME NEW n, n # doing[f].n PROVE {r \in rows' : r.n = n} = {r \in rows : r.n = n}
    BY <2>1, <2>3
  <2>4. \A o \in outcome : o.n # doing[f].n
    BY <1>1 DEF Numbered, Active
  <2>5. ASSUME NEW g \in Store!Fibers \ {f}
        PROVE  /\ at'[g] \in {"waiting", "granted"} => \A r \in rows' : r.n # doing'[g].n
               /\ at'[g] = "running" => /\ {r \in rows' : r.n = doing'[g].n} = Some(g, doing[g].left)'
                                        /\ \A r \in before' : r.n # doing'[g].n
    BY <1>1, <2>1, <2>2, <2>3 DEF WholeRows, Some, Active
  <2>6. ASSUME NEW o \in outcome' PROVE IF o.kept THEN Entire(o)' ELSE \A r \in rows' : r.n # o.n
    <3>1. o \in outcome /\ {r \in rows' : r.n = o.n} = {r \in rows : r.n = o.n}
      BY <1>1, <2>3, <2>4
    <3> QED BY <3>1 DEF WholeRows, Entire
  <2>7. ASSUME begun' # Free, NEW o \in outcome', NEW r \in rows', r.n = o.n PROVE r \in before'
    BY <1>1, <2>1, <2>4, <2>7 DEF WholeRows
  <2> QED BY <2>1, <2>5, <2>6, <2>7
<1>2. ASSUME NEW f \in Store!Fibers, Store!Ask(f) PROVE WholeRows'
  <2>1. /\ \A r \in rows : r.n # doing'[f].n
        /\ \A g \in Store!Fibers \ {f} : at'[g] = at[g] /\ doing'[g] = doing[g]
        /\ at'[f] = "waiting" /\ UNCHANGED <<rows, before, outcome, begun>>
    BY <1>2 DEF Store!Ask, StoreTypes, Numbered, Row
  <2> QED BY <2>1 DEF WholeRows, Some, Entire
<1>3. ASSUME NEW f \in Store!Fibers, at[f] = "waiting", UNCHANGED <<rows, before, outcome, begun, doing>>,
             NEW end \in {"granted", "undone"}, at' = [at EXCEPT ![f] = end]
      PROVE  WholeRows'
  BY <1>3 DEF WholeRows, Some, Entire, StoreTypes
<1>4. ASSUME NEW f \in Store!Fibers, Store!Execute(f) PROVE WholeRows'
  <2>1. /\ at'[f] = "committed" /\ Store!Insert(f) /\ at[f] = "granted"
        /\ \A g \in Store!Fibers \ {f} : at'[g] = at[g] /\ doing'[g] = doing[g]
        /\ UNCHANGED <<begun, before, outcome, doing>>
    BY <1>4 DEF Store!Execute, StoreTypes
  <2> QED BY <1>1, <2>1 DEF WholeRows
<1>5. ASSUME NEW f \in Store!Fibers, Store!Begin(f) PROVE WholeRows'
  <2>1. /\ at'[f] = "running" /\ before' = rows /\ UNCHANGED <<rows, doing, outcome>>
        /\ \A g \in Store!Fibers \ {f} : at'[g] = at[g] /\ at[g] # "running"
        /\ at[f] = "granted" /\ f \in Writers
    BY <1>5 DEF Store!Begin, StoreTypes, Owned
  <2>2. Some(f, doing[f].left) = {}
    <3>1. (doing[f].left + 1)..Size = {}
      BY <2>1 DEF Numbered, Active
    <3> QED BY <3>1 DEF Some
  <2> QED BY <2>1, <2>2 DEF WholeRows, Entire, Some
<1>6. ASSUME NEW f \in Store!Fibers, Store!Run(f) PROVE WholeRows'
  <2>1. /\ at' = at /\ Store!Insert(f) /\ at[f] = "running" /\ doing[f].left > 0
        /\ \A g \in Store!Fibers \ {f} : at'[g] = at[g] /\ doing'[g] = doing[g]
        /\ doing'[f].n = doing[f].n /\ doing'[f].left = doing[f].left - 1
        /\ UNCHANGED <<begun, before, outcome>>
    BY <1>6 DEF Store!Run, StoreTypes
  <2>2. f \in Writers /\ doing[f].left \in Nat /\ doing[f].left <= Size
    BY <2>1 DEF Owned, Numbered, StoreTypes, Active
  <2>3. (doing'[f].left + 1)..Size = ((doing[f].left + 1)..Size) \cup {doing[f].left}
    BY <2>1, <2>2
  <2>4. Some(f, doing[f].left)' = Some(f, doing[f].left) \cup {[by |-> f, n |-> doing[f].n, i |-> doing[f].left]}
    BY <2>1, <2>3 DEF Some
  <2>5. {r \in rows' : r.n = doing'[f].n} = Some(f, doing[f].left)'
    BY <1>1, <2>1, <2>4 DEF WholeRows
  <2>6. \A r \in before' : r.n # doing'[f].n
    BY <2>1 DEF WholeRows
  <2> QED BY <1>1, <2>1, <2>5, <2>6 DEF WholeRows
<1>7. ASSUME NEW f \in Store!Fibers, Store!Commit(f) PROVE WholeRows'
  <2>1. /\ begun' = Free /\ UNCHANGED <<rows, doing>> /\ at[f] = "running" /\ doing[f].left = 0
        /\ \A g \in Store!Fibers \ {f} : at'[g] = at[g] /\ at[g] # "running"
        /\ at'[f] = "committed" /\ f \in Writers
        /\ outcome' = outcome \cup {[n |-> doing[f].n, kept |-> TRUE]}
    BY <1>7 DEF Store!Commit, Store!Close, StoreTypes, Owned
  <2>2. Entire([n |-> doing[f].n, kept |-> TRUE])
    BY <2>1 DEF WholeRows, Some, All, Entire
  <2> QED BY <2>1, <2>2 DEF WholeRows, Entire
<1>8. ASSUME NEW f \in Store!Fibers, Store!Rollback(f) PROVE WholeRows'
  <2>1. /\ begun' = Free /\ rows' = before /\ UNCHANGED doing /\ at[f] = "running" /\ begun # Free
        /\ \A g \in Store!Fibers \ {f} : at'[g] = at[g] /\ at[g] # "running"
        /\ at'[f] = "undone" /\ before \subseteq rows
        /\ outcome' = outcome \cup {[n |-> doing[f].n, kept |-> FALSE]}
    BY <1>8 DEF Store!Rollback, Store!Close, StoreTypes, Owned
  <2>2. \A r \in before : r.n # doing[f].n
    BY <2>1 DEF WholeRows
  <2>3. \A o \in outcome : {r \in rows' : r.n = o.n} = {r \in rows : r.n = o.n}
    BY <2>1 DEF WholeRows
  <2>4. \A o \in outcome : IF o.kept THEN Entire(o)' ELSE \A r \in rows' : r.n # o.n
    BY <2>1, <2>3 DEF WholeRows, Entire
  <2> QED BY <2>1, <2>2, <2>4 DEF WholeRows
<1>9. CASE UNCHANGED Store!vars
  BY <1>9 DEF Store!vars, WholeRows, Some, Entire
<1>10. ASSUME NEW f \in Store!Fibers,
              Store!AcquireRegular(f) \/ Store!AcquireTransaction(f) \/ Store!Interrupt(f)
       PROVE  WholeRows'
  BY <1>3, <1>10 DEF Store!AcquireRegular, Store!AcquireTransaction, Store!Interrupt
<1> QED BY <1>2, <1>4, <1>5, <1>6, <1>7, <1>8, <1>9, <1>10 DEF Store!Next, Store!Turn

\* The rows of a transaction are as many as its statements.
LEMMA RowsOfAll ==
  ASSUME NEW f, NEW n, NEW size \in Nat
  PROVE  Cardinality(All(f, n, size)) = size
<1> DEFINE row == [i \in 1..size |-> [by |-> f, n |-> n, i |-> i]]
<1>1. row \in Bijection(1..size, All(f, n, size))
  BY DEF All, Bijection, Injection, Surjection, IsInjective
<1>2. IsFiniteSet(1..size) /\ Cardinality(1..size) = size
  BY FS_Interval
<1> QED BY <1>1, <1>2, FS_Bijection DEF ExistsBijection

\* However the fibers wait, yield, fail and are interrupted, a transaction that is
\* over has left all of its rows or none, two are never open at a time, and the
\* record of the contention is true.
LEMMA WholeTransactions == Store!Spec => [](Store!StoreAssumption => Store!Transactional)
<1>1. Store!StoreAssumption /\ Store!Init => StoreInv
  <2>1. Store!Init => Waiting = {}
    BY DEF Store!Init, Waiting
  <2>2. Store!Init => Counted
    BY <2>1, FS_EmptySet DEF Store!Init, Counted
  <2> QED BY <2>2 DEF Store!StoreAssumption, Store!Init, StoreInv, StoreTypes, Owned, Numbered, WholeRows,
                      Active, Row, Store!Fibers
<1>2. (Store!StoreAssumption => StoreInv) /\ [Store!Next]_(Store!vars) => (Store!StoreAssumption => StoreInv)'
  BY StoreTypesStep, OwnedStep, NumberedStep, WholeRowsStep, CountedStep
     DEF StoreInv, Store!StoreAssumption, Store!Fibers
<1>3. Store!StoreAssumption /\ StoreInv => Store!Transactional
  <2> SUFFICES ASSUME Store!StoreAssumption, StoreInv PROVE Store!Transactional
    OBVIOUS
  <2>1. ASSUME NEW o \in outcome
        PROVE  Cardinality({r \in rows : r.n = o.n}) = (IF o.kept THEN Size ELSE 0)
    <3>1. CASE o.kept
      <4>1. PICK f \in Writers : {r \in rows : r.n = o.n} = All(f, o.n, Size)
        BY <3>1 DEF StoreInv, WholeRows, Entire
      <4>2. Cardinality(All(f, o.n, Size)) = Size
        BY RowsOfAll DEF Store!StoreAssumption
      <4> QED BY <3>1, <4>1, <4>2
    <3>2. CASE ~o.kept
      <4>1. {r \in rows : r.n = o.n} = {}
        BY <3>2 DEF StoreInv, WholeRows
      <4> QED BY <3>2, <4>1, FS_EmptySet
    <3> QED BY <3>1, <3>2
  <2>2. begun # Free => permit = begun /\ holder = begun
    BY DEF StoreInv, Owned
  <2>3. waiters = Cardinality({f \in Store!Fibers : at[f] = "waiting"})
    BY DEF StoreInv, Counted, Waiting
  <2> QED BY <2>1, <2>2, <2>3, SameSets DEF Store!Transactional
<1> QED BY <1>1, <1>2, <1>3, PTL DEF Store!Spec

-----------------------------------------------------------------------------
(* Migrations: BootedInOrder.  What the database has run are the migrations *)
(* of the ledger in the order of their ids, since those that a boot adds    *)
(* come after all it has.                                                   *)

\* s rises through c of the ids in S.
Rises(s, c, S) == s \in [1..c -> S] /\ \A i, j \in 1..c : i < j => s[i] < s[j]
Onto(s, c, S) == \A x \in S : \E i \in 1..c : s[i] = x

LEMMA PartOfInterval ==
  ASSUME NEW n \in Nat, NEW S, S \subseteq 1..n
  PROVE  IsFiniteSet(S) /\ Cardinality(S) \in Nat
<1>1. IsFiniteSet(1..n)
  BY FS_Interval
<1>2. IsFiniteSet(S)
  BY <1>1, FS_Subset
<1> QED BY <1>2, FS_CardinalityType

LEMMA LeastNumber ==
  ASSUME NEW T, T \subseteq Nat, T # {}
  PROVE  \E x \in T : \A y \in T : x <= y
<1> DEFINE Less == {p \in Nat \X Nat : p[1] < p[2]}
<1>1. IsWellFoundedOn(Less, Nat)
  <2>1. Less = OpToRel(<, Nat)
    BY DEF OpToRel
  <2> QED BY <2>1, NatLessThanWellFounded
<1>2. PICK x \in T : \A y \in T : ~(<<y, x>> \in Less)
  <2> HIDE DEF Less
  <2> QED BY <1>1, WFMin
<1>3. ASSUME NEW y \in T PROVE x <= y
  <2>1. x \in Nat /\ y \in Nat /\ ~(y < x)
    BY <1>2
  <2> QED BY <2>1
<1> QED BY <1>3

LEMMA RisesFurther ==
  ASSUME NEW c \in Nat, NEW k \in Nat, NEW T, T \subseteq 1..(k - 1), NEW s, Rises(s, c, T)
  PROVE  \E t : Rises(t, c + 1, T \cup {k})
<1> DEFINE t == [i \in 1..(c + 1) |-> IF i = c + 1 THEN k ELSE s[i]]
<1>1. \A i \in 1..c : s[i] \in T /\ s[i] \in Nat /\ s[i] < k /\ t[i] = s[i]
  <2> TAKE i \in 1..c
  <2>1. s[i] \in T /\ t[i] = s[i]
    BY DEF Rises
  <2>2. s[i] \in 1..(k - 1)
    BY <2>1
  <2> QED BY <2>1, <2>2
<1>2. t[c + 1] = k /\ \A i \in 1..(c + 1) : i \in 1..c \/ i = c + 1
  OBVIOUS
<1>3. t \in [1..(c + 1) -> T \cup {k}]
  <2>1. \A i \in 1..(c + 1) : t[i] \in T \cup {k}
    BY <1>1, <1>2
  <2> QED BY <2>1
<1>4. \A i, j \in 1..(c + 1) : i < j => t[i] < t[j]
  <2> SUFFICES ASSUME NEW i \in 1..(c + 1), NEW j \in 1..(c + 1), i < j PROVE t[i] < t[j]
    OBVIOUS
  <2>1. i \in 1..c
    OBVIOUS
  <2> HIDE DEF t
  <2>2. CASE j \in 1..c
    BY <1>1, <2>1, <2>2 DEF Rises
  <2>3. CASE j = c + 1
    BY <1>1, <1>2, <2>1, <2>3
  <2> QED BY <1>2, <2>2, <2>3
<1> HIDE DEF t
<1> QED BY <1>3, <1>4 DEF Rises

\* Ids can be put in order: those up to k can, for each k.
LEMMA SomeOrder ==
  ASSUME NEW n \in Nat, NEW S, S \subseteq 1..n
  PROVE  \E s : Rises(s, Cardinality(S), S)
<1> DEFINE Good(T) == \E s : Rises(s, Cardinality(T), T)
           Bad == {k \in 0..n : ~Good(S \cap 1..k)}
<1>1. Good({})
  <2>1. Rises([i \in 1..0 |-> 0], 0, {})
    BY DEF Rises
  <2> QED BY <2>1, FS_EmptySet
<1>2. ASSUME NEW k \in 1..n, Good(S \cap 1..(k - 1)) PROVE Good(S \cap 1..k)
  <2> DEFINE T == S \cap 1..(k - 1)
  <2>1. PICK s : Rises(s, Cardinality(T), T)
    BY <1>2
  <2>2. CASE k \notin S
    <3>1. S \cap 1..k = T
      BY <2>2
    <3> QED BY <1>2, <3>1
  <2>3. CASE k \in S
    <3>1. S \cap 1..k = T \cup {k} /\ k \notin T /\ T \subseteq 1..n /\ T \subseteq 1..(k - 1)
      BY <2>3
    <3> HIDE DEF T
    <3>2. IsFiniteSet(T) /\ Cardinality(T) \in Nat
      BY <3>1, PartOfInterval
    <3>3. Cardinality(T \cup {k}) = Cardinality(T) + 1
      BY <3>1, <3>2, FS_AddElement
    <3>4. ASSUME NEW c \in Nat, Rises(s, c, T) PROVE \E t : Rises(t, c + 1, T \cup {k})
      <4>1. k \in Nat
        OBVIOUS
      <4> QED BY <3>1, <3>4, <4>1, RisesFurther
    <3> QED BY <2>1, <3>1, <3>2, <3>3, <3>4
  <2> QED BY <2>2, <2>3
<1> HIDE DEF Good
<1>3. Bad = {}
  <2> SUFFICES ASSUME Bad # {} PROVE FALSE
    OBVIOUS
  <2>1. PICK k \in Bad : \A j \in Bad : k <= j
    <3>1. Bad \subseteq Nat
      OBVIOUS
    <3> HIDE DEF Bad
    <3> QED BY <3>1, LeastNumber
  <2>2. k # 0
    <3>1. S \cap 1..0 = {}
      OBVIOUS
    <3> QED BY <1>1, <3>1
  <2>3. k - 1 \in 0..n /\ ~(k <= k - 1) /\ k \in 1..n
    BY <2>2
  <2>4. Good(S \cap 1..(k - 1))
    BY <2>1, <2>3
  <2> QED BY <1>2, <2>3, <2>4
<1>4. S \cap 1..n = S
  OBVIOUS
<1>5. Good(S)
  <2>1. n \in 0..n
    OBVIOUS
  <2> QED BY <1>3, <1>4, <2>1
<1> QED BY <1>5 DEF Good

\* All of them are in it.
LEMMA AllInOrder ==
  ASSUME NEW n \in Nat, NEW S, S \subseteq 1..n, NEW s, Rises(s, Cardinality(S), S)
  PROVE  Onto(s, Cardinality(S), S)
<1>1. IsFiniteSet(S) /\ Cardinality(S) \in Nat
  BY PartOfInterval
<1>2. ASSUME NEW c \in Nat, c = Cardinality(S) PROVE Onto(s, c, S)
  <2> DEFINE image == {s[i] : i \in 1..c}
  <2>0. Rises(s, c, S) /\ S \subseteq Nat
    BY <1>2
  <2>1. \A i \in 1..c : s[i] \in Nat
    BY <2>0 DEF Rises
  <2>2. \A i, j \in 1..c : s[i] = s[j] => i = j
    BY <2>0, <2>1 DEF Rises
  <2>3. s \in Bijection(1..c, image)
    BY <2>0, <2>2 DEF Rises, Bijection, Injection, Surjection, IsInjective
  <2>4. IsFiniteSet(1..c) /\ Cardinality(1..c) = c
    BY FS_Interval
  <2>5. image \subseteq S
    BY <2>0 DEF Rises
  <2>6. image = S
    <3> HIDE DEF image
    <3>1. Cardinality(image) = c
      BY <2>3, <2>4, FS_Bijection DEF ExistsBijection
    <3> QED BY <1>1, <1>2, <2>5, <3>1, FS_Subset
  <2> QED BY <2>6 DEF Onto
<1> QED BY <1>1, <1>2

\* At the first place where two orders differ the higher one has skipped an id.
LEMMA NoneSkipped ==
  ASSUME NEW c \in Nat, NEW S, S \subseteq Nat, NEW a, NEW b, Rises(a, c, S), Rises(b, c, S), Onto(b, c, S),
         NEW i \in 1..c, \A j \in 1..c : j < i => a[j] = b[j]
  PROVE  ~(a[i] < b[i])
<1> SUFFICES ASSUME a[i] < b[i] PROVE FALSE
  OBVIOUS
<1>1. \A j \in 1..c : a[j] \in S /\ a[j] \in Nat /\ b[j] \in Nat
  BY DEF Rises
<1>2. PICK j \in 1..c : b[j] = a[i]
  BY <1>1 DEF Onto
<1>3. CASE j < i
  BY <1>1, <1>2, <1>3 DEF Rises
<1>4. CASE i < j
  BY <1>1, <1>2, <1>4 DEF Rises
<1>5. i = j \/ i < j \/ j < i
  OBVIOUS
<1> QED BY <1>1, <1>2, <1>3, <1>4, <1>5

LEMMA OneOrder ==
  ASSUME NEW n \in Nat, NEW S, S \subseteq 1..n, NEW s, NEW t,
         Rises(s, Cardinality(S), S), Rises(t, Cardinality(S), S)
  PROVE  s = t
<1>0. S \subseteq Nat
  OBVIOUS
<1>1. Cardinality(S) \in Nat
  BY PartOfInterval
<1>2. Onto(s, Cardinality(S), S) /\ Onto(t, Cardinality(S), S)
  BY AllInOrder
<1>3. ASSUME NEW c \in Nat, Rises(s, c, S), Rises(t, c, S), Onto(s, c, S), Onto(t, c, S) PROVE s = t
  <2> DEFINE Differ == {i \in 1..c : s[i] # t[i]}
  <2>1. Differ = {}
    <3> SUFFICES ASSUME Differ # {} PROVE FALSE
      OBVIOUS
    <3>1. PICK i \in Differ : \A j \in Differ : i <= j
      <4>1. Differ \subseteq Nat
        OBVIOUS
      <4> HIDE DEF Differ
      <4> QED BY <4>1, LeastNumber
    <3>2. i \in 1..c /\ s[i] # t[i] /\ \A j \in 1..c : j < i => s[j] = t[j]
      BY <3>1
    <3>3. ~(s[i] < t[i]) /\ ~(t[i] < s[i])
      BY <1>0, <1>3, <3>2, NoneSkipped
    <3>4. s[i] \in Nat /\ t[i] \in Nat
      BY <1>0, <1>3, <3>2 DEF Rises
    <3> QED BY <3>2, <3>3, <3>4
  <2>2. \A i \in 1..c : s[i] = t[i]
    BY <2>1
  <2>3. s = [i \in 1..c |-> s[i]] /\ t = [i \in 1..c |-> t[i]]
    BY <1>3 DEF Rises
  <2> QED BY <2>2, <2>3
<1> QED BY <1>1, <1>2, <1>3

\* The order of ids of which some come after all the others.
LEMMA OrderOfBoth ==
  ASSUME NEW n \in Nat, NEW S, NEW T, S \subseteq 1..n, T \subseteq 1..n, \A x \in S, y \in T : x < y,
         NEW s, NEW t, Rises(s, Cardinality(S), S), Rises(t, Cardinality(T), T)
  PROVE  /\ Cardinality(S \cup T) = Cardinality(S) + Cardinality(T)
         /\ Rises(s \o t, Cardinality(S \cup T), S \cup T)
<1>1. /\ IsFiniteSet(S) /\ Cardinality(S) \in Nat
      /\ IsFiniteSet(T) /\ Cardinality(T) \in Nat
  BY PartOfInterval
<1>2. S \cap T = {}
  OBVIOUS
<1>3. Cardinality(S \cup T) = Cardinality(S) + Cardinality(T)
  <2>1. Cardinality(S \cap T) = 0
    BY <1>2, FS_EmptySet
  <2>2. Cardinality(S \cup T) = Cardinality(S) + Cardinality(T) - Cardinality(S \cap T)
    BY <1>1, FS_Union
  <2> QED BY <1>1, <2>1, <2>2
<1>4. ASSUME NEW c \in Nat, NEW d \in Nat, Rises(s, c, S), Rises(t, d, T)
      PROVE  Rises(s \o t, c + d, S \cup T)
  <2>1. s \in Seq(S) /\ Len(s) = c /\ t \in Seq(T) /\ Len(t) = d
    BY <1>4 DEF Rises
  <2>2. /\ \A i \in 1..c : (s \o t)[i] = s[i] /\ s[i] \in S
        /\ \A i \in (c + 1)..(c + d) : (s \o t)[i] = t[i - c] /\ i - c \in 1..d /\ t[i - c] \in T
        /\ DOMAIN (s \o t) = 1..(c + d) /\ s \o t = [i \in 1..(c + d) |-> (s \o t)[i]]
    <3>1. s \o t \in Seq(S \cup T) /\ Len(s \o t) = c + d
      BY <2>1
    <3>2. ASSUME NEW i \in 1..c PROVE (s \o t)[i] = s[i] /\ s[i] \in S
      BY <2>1
    <3>3. ASSUME NEW i \in (c + 1)..(c + d) PROVE (s \o t)[i] = t[i - c] /\ i - c \in 1..d
      BY <2>1
    <3>4. ASSUME NEW i \in (c + 1)..(c + d) PROVE t[i - c] \in T
      BY <1>4, <3>3, <3>4 DEF Rises
    <3>5. DOMAIN (s \o t) = 1..(c + d) /\ s \o t = [i \in 1..(c + d) |-> (s \o t)[i]]
      <4>1. \A q \in Seq(S \cup T) : q \in [1..Len(q) -> S \cup T]
        OBVIOUS
      <4>2. s \o t \in [1..(c + d) -> S \cup T]
        BY <3>1, <4>1
      <4> QED BY <4>2
    <3> QED BY <3>2, <3>3, <3>4, <3>5
  <2> DEFINE both == s \o t
  <2>3. \A i \in 1..(c + d) : i \in 1..c \/ i \in (c + 1)..(c + d)
    OBVIOUS
  <2> HIDE DEF both
  <2>4. both \in [1..(c + d) -> S \cup T]
    <3>1. \A i \in 1..(c + d) : both[i] \in S \cup T
      BY <2>2, <2>3 DEF both
    <3> QED BY <2>2, <3>1 DEF both
  <2>5. \A i, j \in 1..(c + d) : i < j => both[i] < both[j]
    <3> SUFFICES ASSUME NEW i \in 1..(c + d), NEW j \in 1..(c + d), i < j PROVE both[i] < both[j]
      OBVIOUS
    <3>1. CASE i \in 1..c /\ j \in 1..c
      BY <1>4, <2>2, <3>1 DEF both, Rises
    <3>2. CASE i \in 1..c /\ j \in (c + 1)..(c + d)
      BY <2>2, <3>2 DEF both
    <3>3. CASE i \in (c + 1)..(c + d) /\ j \in (c + 1)..(c + d)
      <4>1. i - c \in 1..d /\ j - c \in 1..d /\ i - c < j - c
        BY <2>2, <3>3
      <4> QED BY <1>4, <2>2, <3>3, <4>1 DEF both, Rises
    <3> QED BY <2>3, <3>1, <3>2, <3>3
  <2> QED BY <2>4, <2>5 DEF both, Rises
<1> QED BY <1>1, <1>3, <1>4

LEMMA GreatestNumber ==
  ASSUME NEW n \in Nat, NEW S, S \subseteq 0..n, S # {}
  PROVE  \E x \in S : \A y \in S : x >= y
<1> DEFINE gaps == {n - x : x \in S}
<1>1. gaps \subseteq Nat /\ gaps # {}
  OBVIOUS
<1>2. PICK g \in gaps : \A h \in gaps : g <= h
  <2> HIDE DEF gaps
  <2> QED BY <1>1, LeastNumber
<1>3. PICK x \in S : g = n - x
  OBVIOUS
<1>4. ASSUME NEW y \in S PROVE x >= y
  <2>1. n - y \in gaps
    OBVIOUS
  <2>2. n - x <= n - y
    BY <1>2, <1>3, <2>1
  <2> QED BY <2>2
<1> QED BY <1>4

\* What the component takes from FiniteSets is what is taken from it here.
LEMMA SameCardinality ==
  ASSUME NEW S
  PROVE  Ledger!Cardinality(S) = Cardinality(S)
  BY Zenon DEF Ledger!Cardinality, Cardinality

LEMMA InOrderRises ==
  ASSUME Ledger!MigrationsAssumption, NEW S, S \subseteq Ledger!Ids
  PROVE  Rises(Ledger!InOrder(S), Cardinality(S), S)
<1>1. MaxId \in Nat /\ S \subseteq 1..MaxId
  BY DEF Ledger!MigrationsAssumption, Ledger!Ids
<1>2. \E s : Rises(s, Cardinality(S), S)
  BY <1>1, SomeOrder
<1>3. Ledger!InOrder(S) =
        CHOOSE s \in [1..Cardinality(S) -> S] : \A i, j \in 1..Cardinality(S) : i < j => s[i] < s[j]
  BY SameCardinality DEF Ledger!InOrder
<1> QED BY <1>2, <1>3 DEF Rises

LedgerTypes ==
  /\ DOMAIN record \subseteq Ledger!Ids /\ DOMAIN ledger \subseteq Ledger!Ids
  /\ record = [id \in DOMAIN record |-> record[id]]
  /\ \A id \in DOMAIN record : record[id] \in Ledger!Migration
  /\ schema \in Seq([id : Ledger!Ids, body : MigrationBodies])

RunInOrder ==
  /\ Len(schema) = Cardinality(DOMAIN ledger)
  /\ \A i \in 1..Len(schema) : schema[i].id = Ledger!InOrder(DOMAIN ledger)[i]

AsRecorded ==
  booted => /\ DOMAIN ledger = DOMAIN record
            /\ \A id \in DOMAIN record : ledger[id] = record[id].name

LedgerInv == LedgerTypes /\ RunInOrder /\ AsRecorded

LEMMA BootStep ==
  ASSUME Ledger!MigrationsAssumption, LedgerInv, Ledger!Boot
  PROVE  LedgerInv'
<1> USE DEF LedgerInv
<1> DEFINE D == DOMAIN ledger
           P == Ledger!Pending
           s == Ledger!InOrder(D)
           t == Ledger!InOrder(P)
           high == Ledger!HighWater
<1>1. MaxId \in Nat /\ D \subseteq 1..MaxId /\ P \subseteq DOMAIN record /\ P \subseteq 1..MaxId
  BY DEF Ledger!MigrationsAssumption, LedgerTypes, Ledger!Ids, Ledger!Pending
<1>2. high \in Nat /\ high \in D \cup {0} /\ \A x \in D : x <= high
  <2>1. D \cup {0} \subseteq 0..MaxId /\ D \cup {0} # {}
    BY <1>1
  <2>2. \E x \in D \cup {0} : \A y \in D \cup {0} : x >= y
    <3> HIDE DEF D
    <3> QED BY <1>1, <2>1, GreatestNumber
  <2>3. high \in D \cup {0} /\ \A y \in D \cup {0} : high >= y
    BY <2>2 DEF Ledger!HighWater, Ledger!Max
  <2> HIDE DEF high
  <2> QED BY <1>1, <2>1, <2>3
<1>3. \A x \in D, y \in P : x < y
  BY <1>1, <1>2 DEF Ledger!Pending
<1>4. Rises(s, Cardinality(D), D) /\ Rises(t, Cardinality(P), P)
  <2>1. D \subseteq Ledger!Ids /\ P \subseteq Ledger!Ids
    BY <1>1 DEF Ledger!Ids
  <2> HIDE DEF D, P
  <2> QED BY <2>1, InOrderRises
<1>5. /\ Cardinality(D \cup P) = Cardinality(D) + Cardinality(P)
      /\ Ledger!InOrder(D \cup P) = s \o t
      /\ Cardinality(D) \in Nat /\ Cardinality(P) \in Nat
  <2> HIDE DEF D, P, s, t
  <2>1. D \cup P \subseteq 1..MaxId /\ D \cup P \subseteq Ledger!Ids
    BY <1>1 DEF Ledger!Ids
  <2>2. /\ Cardinality(D \cup P) = Cardinality(D) + Cardinality(P)
        /\ Rises(s \o t, Cardinality(D \cup P), D \cup P)
    BY <1>1, <1>3, <1>4, OrderOfBoth
  <2>3. Rises(Ledger!InOrder(D \cup P), Cardinality(D \cup P), D \cup P)
    BY <2>1, InOrderRises
  <2>4. Ledger!InOrder(D \cup P) = s \o t
    BY <1>1, <2>1, <2>2, <2>3, OneOrder
  <2> QED BY <1>1, <2>2, <2>4, PartOfInterval
<1>6. /\ DOMAIN ledger' = D \cup P /\ booted' = TRUE /\ record' = record
      /\ \A id \in D \cup P : ledger'[id] = IF id \in P THEN record[id].name ELSE ledger[id]
      /\ schema' = schema \o Ledger!Bodied(P) /\ Ledger!Verified
  BY DEF Ledger!Boot
<1>7. D \cup P = DOMAIN record /\ \A id \in D : record[id].name = ledger[id]
  <2>1. CASE D = {}
    <3>1. high = 0
      BY <1>2, <2>1
    <3>2. \A id \in DOMAIN record : id > 0
      BY DEF LedgerTypes, Ledger!Ids
    <3> QED BY <2>1, <3>1, <3>2 DEF Ledger!Pending
  <2>2. CASE D # {}
    <3>1. Ledger!RowsKnown /\ Ledger!NoGapRefilled
      BY <1>6, <2>2 DEF Ledger!Verified
    <3>2. \A id \in DOMAIN record : id <= high \/ id > high
      BY <1>2 DEF LedgerTypes, Ledger!Ids
    <3> QED BY <3>1, <3>2 DEF Ledger!RowsKnown, Ledger!NoGapRefilled, Ledger!Pending
  <2> QED BY <2>1, <2>2
<1>8. AsRecorded'
  BY <1>6, <1>7 DEF AsRecorded
<1>9. /\ Ledger!Bodied(P) \in Seq([id : Ledger!Ids, body : MigrationBodies]) /\ Len(Ledger!Bodied(P)) = Cardinality(P)
      /\ \A i \in 1..Cardinality(P) : Ledger!Bodied(P)[i].id = t[i]
  <2>1. Ledger!Bodied(P) = [i \in 1..Cardinality(P) |-> [id |-> t[i], body |-> record[t[i]].body]]
    BY SameCardinality DEF Ledger!Bodied
  <2>2. \A i \in 1..Cardinality(P) : t[i] \in P
    BY <1>4 DEF Rises
  <2> HIDE DEF P, t
  <2>3. \A i \in 1..Cardinality(P) : t[i] \in Ledger!Ids /\ record[t[i]].body \in MigrationBodies
    BY <1>1, <2>2 DEF LedgerTypes, Ledger!Ids, Ledger!Migration
  <2>4. ASSUME NEW d \in Nat, NEW q, q = [i \in 1..d |-> [id |-> t[i], body |-> record[t[i]].body]],
               \A i \in 1..d : t[i] \in Ledger!Ids /\ record[t[i]].body \in MigrationBodies
        PROVE  /\ q \in Seq([id : Ledger!Ids, body : MigrationBodies]) /\ Len(q) = d
               /\ \A i \in 1..d : q[i].id = t[i]
    <3>1. \A i \in 1..d : q[i].id = t[i] /\ q[i] \in [id : Ledger!Ids, body : MigrationBodies]
      BY <2>4
    <3>2. q \in [1..d -> [id : Ledger!Ids, body : MigrationBodies]]
      BY <2>4, <3>1
    <3>3. ASSUME NEW X, q \in [1..d -> X] PROVE q \in Seq(X) /\ Len(q) = d
      BY <3>3
    <3> QED BY <3>1, <3>2, <3>3
  <2> QED BY <1>5, <2>1, <2>3, <2>4
<1>10. LedgerTypes'
  BY <1>1, <1>6, <1>9 DEF LedgerTypes, Ledger!Ids
<1>11. RunInOrder'
  <2> HIDE DEF D, P, s, t
  <2>1. s \in [1..Cardinality(D) -> D] /\ t \in [1..Cardinality(P) -> P]
    BY <1>4 DEF Rises
  <2>2. schema \in Seq([id : Ledger!Ids, body : MigrationBodies]) /\ Len(schema) = Cardinality(D)
        /\ \A i \in 1..Cardinality(D) : schema[i].id = s[i]
    BY DEF LedgerTypes, RunInOrder, D, s
  <2>3. ASSUME NEW c \in Nat, NEW d \in Nat, c = Cardinality(D), d = Cardinality(P)
        PROVE  /\ Len(schema') = c + d
               /\ \A i \in 1..(c + d) : schema'[i].id = (s \o t)[i]
    <3>1. Len(schema) = c /\ Len(Ledger!Bodied(P)) = d /\ schema' = schema \o Ledger!Bodied(P)
      BY <1>6, <1>9, <2>2, <2>3
    <3>2. s \in Seq(D) /\ Len(s) = c /\ t \in Seq(P) /\ Len(t) = d
      BY <2>1, <2>3
    <3>3. ASSUME NEW i \in 1..c PROVE schema'[i] = schema[i] /\ (s \o t)[i] = s[i]
      BY <1>9, <2>2, <3>1, <3>2
    <3>4. ASSUME NEW i \in (c + 1)..(c + d)
          PROVE  schema'[i] = Ledger!Bodied(P)[i - c] /\ (s \o t)[i] = t[i - c] /\ i - c \in 1..d
      BY <1>9, <2>2, <3>1, <3>2
    <3>5. \A i \in 1..(c + d) : i \in 1..c \/ i \in (c + 1)..(c + d)
      OBVIOUS
    <3>6. Len(schema') = c + d
      <4>1. \A p, q \in Seq([id : Ledger!Ids, body : MigrationBodies]) : Len(p \o q) = Len(p) + Len(q)
        OBVIOUS
      <4> QED BY <1>9, <2>2, <3>1, <4>1
    <3>7. ASSUME NEW i \in 1..(c + d) PROVE schema'[i].id = (s \o t)[i]
      <4>1. CASE i \in 1..c
        BY <2>2, <2>3, <3>3, <4>1
      <4>2. CASE i \in (c + 1)..(c + d)
        BY <1>9, <2>3, <3>4, <4>2
      <4> QED BY <3>5, <4>1, <4>2
    <3> QED BY <3>6, <3>7
  <2> QED BY Zenon, <1>5, <1>6, <2>3 DEF RunInOrder
<1> QED BY <1>8, <1>10, <1>11

\* A boot that got through has run what a fresh install runs, in its order, however
\* many releases changed the record, and users went back, before it.
LEMMA BootsInOrder == Ledger!Spec => [](Ledger!MigrationsAssumption => Ledger!BootedInOrder)
<1>1. Ledger!MigrationsAssumption /\ Ledger!Init => LedgerInv
  <2> SUFFICES ASSUME Ledger!MigrationsAssumption, Ledger!Init PROVE LedgerInv
    OBVIOUS
  <2>1. LedgerTypes
    BY DEF Ledger!MigrationsAssumption, Ledger!Init, LedgerTypes, Ledger!Ids
  <2>2. DOMAIN ledger = {} /\ Len(schema) = 0
    BY DEF Ledger!Init
  <2>3. RunInOrder
    BY <2>2, FS_EmptySet DEF RunInOrder
  <2> QED BY <2>1, <2>3 DEF Ledger!Init, LedgerInv, AsRecorded
<1>2. ASSUME Ledger!MigrationsAssumption, LedgerInv, [Ledger!Next]_(Ledger!vars) PROVE LedgerInv'
  <2>1. ASSUME NEW id \in Ledger!Ids, NEW m \in Ledger!Migration, Ledger!Add(id, m) PROVE LedgerInv'
    BY <1>2, <2>1 DEF Ledger!Add, Ledger!Released, LedgerInv, LedgerTypes, RunInOrder, AsRecorded
  <2>2. ASSUME NEW id \in Ledger!Ids, NEW m \in Ledger!Migration, Ledger!Change(id, m) PROVE LedgerInv'
    BY <1>2, <2>2 DEF Ledger!Change, Ledger!Released, LedgerInv, LedgerTypes, RunInOrder, AsRecorded
  <2>3. ASSUME NEW id \in Ledger!Ids, Ledger!Delete(id) PROVE LedgerInv'
    BY <1>2, <2>3 DEF Ledger!Delete, Ledger!Released, LedgerInv, LedgerTypes, RunInOrder, AsRecorded
  <2>4. ASSUME NEW id \in Ledger!Ids, NEW to \in Ledger!Ids, Ledger!Renumber(id, to) PROVE LedgerInv'
    BY <1>2, <2>4 DEF Ledger!Renumber, Ledger!Released, LedgerInv, LedgerTypes, RunInOrder, AsRecorded
  <2>5. CASE Ledger!Install
    <3>1. DOMAIN ledger' = {} /\ schema' = <<>> /\ booted' = FALSE /\ record' = record
      BY <2>5 DEF Ledger!Install
    <3>2. RunInOrder'
      BY <3>1, FS_EmptySet DEF RunInOrder
    <3> QED BY <1>2, <3>1, <3>2 DEF LedgerInv, LedgerTypes, AsRecorded
  <2>6. CASE UNCHANGED Ledger!vars
    BY <1>2, <2>6 DEF Ledger!vars, LedgerInv, LedgerTypes, RunInOrder, AsRecorded
  <2> QED BY <1>2, <2>1, <2>2, <2>3, <2>4, <2>5, <2>6, BootStep DEF Ledger!Next
<1>3. Ledger!MigrationsAssumption /\ LedgerInv => Ledger!BootedInOrder
  <2> SUFFICES ASSUME Ledger!MigrationsAssumption, LedgerInv, booted
               PROVE  [i \in DOMAIN schema |-> schema[i].id] = Ledger!InOrder(DOMAIN record)
    BY DEF Ledger!BootedInOrder, LedgerInv, AsRecorded
  <2>1. DOMAIN schema = 1..Cardinality(DOMAIN record)
    BY DEF LedgerInv, LedgerTypes, RunInOrder, AsRecorded
  <2>2. \A i \in DOMAIN schema : schema[i].id = Ledger!InOrder(DOMAIN record)[i]
    BY DEF LedgerInv, LedgerTypes, RunInOrder, AsRecorded
  <2>3. Ledger!InOrder(DOMAIN record) \in [1..Cardinality(DOMAIN record) -> DOMAIN record]
    BY InOrderRises DEF LedgerInv, LedgerTypes, Rises
  <2> QED BY <2>1, <2>2, <2>3
<1>4. (Ledger!MigrationsAssumption => LedgerInv) /\ [Ledger!Next]_(Ledger!vars)
        => (Ledger!MigrationsAssumption => LedgerInv)'
  BY <1>2 DEF Ledger!MigrationsAssumption
<1> QED BY <1>1, <1>3, <1>4, PTL DEF Ledger!Spec

StoresAssumption ==
  Store!StoreAssumption /\ Ledger!MigrationsAssumption /\ Titles!ChatTitlesAssumption

\* Side by side the three keep what each of them keeps.
LEMMA SoundStores == Store!Spec /\ Ledger!Spec /\ Titles!Spec => [](StoresAssumption => StoreIsSound)
<1>1. (Store!StoreAssumption => Store!Transactional) /\ (Ledger!MigrationsAssumption => Ledger!BootedInOrder)
        /\ (Titles!ChatTitlesAssumption => Titles!ListedIsStored /\ Titles!NamesAreKept)
        => (StoresAssumption => StoreIsSound)
  BY DEF StoresAssumption, StoreIsSound
<1> QED BY <1>1, WholeTransactions, BootsInOrder, TrueTitles, PTL

-----------------------------------------------------------------------------
(* What is searched: SearchFindsIt.  A posting that no document has lies    *)
(* under a rowid below the one a work has by now, and works stay, so that   *)
(* no later document is given it.                                           *)

Document == [rowid : Nat, text : RowTexts]
Present == {r \in Index!Rows : source[r] # Absent}
IndexTypes ==
  /\ release \in 2..5 /\ source \in [Index!Rows -> RowTexts \cup {Absent}]
  /\ docs \in [Index!Rows -> Document \cup {Absent}] /\ fts \subseteq Document
  /\ IsFiniteSet(Present)

\* Rowids are bounded, so that there is a next one.
Bounded == \E n \in Nat : \A r \in Index!Documents : docs[r].rowid <= n

\* Before the first migration there is nothing to find.
NoneYet == release = 2 => Index!Documents = {}

\* What is left of an earlier text of a work.
LeftBelow(p) ==
  /\ \A r \in Index!Documents : docs[r].rowid # p.rowid
  /\ \E w \in Works : w \in Index!Documents /\ docs[w].rowid > p.rowid
NothingStale ==
  release = 5 => \A p \in fts : (\E r \in Index!Documents : docs[r] = p) \/ LeftBelow(p)

IndexInv == IndexTypes /\ Bounded /\ NoneYet /\ Index!EveryRowIsFound /\ NothingStale

LEMMA NextIsNew ==
  ASSUME IndexTypes, Bounded
  PROVE  /\ Index!NextRowid \in Nat
         /\ \A r \in Index!Documents : docs[r].rowid < Index!NextRowid
<1> DEFINE S == {docs[r].rowid : r \in Index!Documents} \cup {0}
<1>1. PICK n \in Nat : \A r \in Index!Documents : docs[r].rowid <= n
  BY DEF Bounded
<1>2. \A r \in Index!Documents : docs[r].rowid \in 0..n
  BY <1>1 DEF IndexTypes, Document, Index!Documents
<1>3. S \subseteq 0..n /\ S # {}
  BY <1>2
<1>4. \E x \in S : \A y \in S : x >= y
  <2> HIDE DEF S
  <2> QED BY <1>3, GreatestNumber
<1>5. Index!Max(S) \in S /\ \A y \in S : Index!Max(S) >= y
  <2> HIDE DEF S
  <2>1. Index!Max(S) = CHOOSE x \in S : \A y \in S : x >= y
    BY DEF Index!Max
  <2> QED BY <1>4, <2>1
<1>6. Index!NextRowid = 1 + Index!Max(S)
  BY DEF Index!NextRowid
<1>7. ASSUME NEW r \in Index!Documents PROVE docs[r].rowid <= Index!Max(S)
  <2>1. docs[r].rowid \in S
    OBVIOUS
  <2> QED BY <1>5, <2>1
<1> HIDE DEF S
<1>m. Index!Max(S) \in 0..n
  BY <1>3, <1>5
<1> DEFINE most == Index!Max(S)
<1>8. most \in Nat
  <2> HIDE DEF most
  <2>1. most \in 0..n
    BY <1>m DEF most
  <2> QED BY <2>1
<1>9. \A r \in Index!Documents : docs[r].rowid \in Nat
  BY <1>2
<1> QED BY <1>6, <1>7, <1>8, <1>9

\* A new document at the end of the table.
LEMMA FiledStep ==
  ASSUME Index!IndexAssumption, IndexInv, NEW r \in Index!Rows, NEW word \in RowTexts, release >= 3,
         source' = [source EXCEPT ![r] = word], release' = release, Index!Insert(r, word),
         docs[r] = Absent \/ r \in Works \/ release < 5
  PROVE  IndexInv'
<1> DEFINE doc == [rowid |-> Index!NextRowid, text |-> word]
<1> DEFINE next == Index!NextRowid
<1>n. next \in Nat /\ \A x \in Index!Documents : docs[x].rowid < next
  BY NextIsNew DEF IndexInv
<1>1. doc \in Document /\ doc # Absent /\ doc.rowid = next /\ doc.text = word
  BY <1>n DEF Document, Index!IndexAssumption
<1>2. docs' = [docs EXCEPT ![r] = doc] /\ fts' = fts \cup {doc}
  BY DEF Index!Insert
<1> HIDE DEF doc, next
<1>3. docs' \in [Index!Rows -> Document \cup {Absent}] /\ docs'[r] = doc
      /\ \A x \in Index!Rows : x # r => docs'[x] = docs[x]
  BY <1>1, <1>2 DEF IndexInv, IndexTypes
<1>4. (Index!Documents)' = Index!Documents \cup {r}
  BY <1>1, <1>3 DEF Index!Documents
<1>5. source' \in [Index!Rows -> RowTexts \cup {Absent}] /\ Present' = Present \cup {r}
  BY DEF IndexInv, IndexTypes, Present, Index!IndexAssumption
<1>6. IndexTypes'
  <2>1. IsFiniteSet(Present \cup {r})
    BY FS_AddElement DEF IndexInv, IndexTypes
  <2> QED BY <1>1, <1>2, <1>3, <1>5, <2>1 DEF IndexInv, IndexTypes
<1>d. \A x \in Index!Documents : docs[x] \in Document /\ docs[x].rowid \in Nat
  BY DEF Index!Documents, IndexInv, IndexTypes, Document
<1>7. Bounded'
  <2>1. \A x \in (Index!Documents)' : docs'[x].rowid <= next
    BY <1>n, <1>1, <1>3, <1>4, <1>d DEF Index!Documents
  <2> QED BY <1>n, <2>1 DEF Bounded
<1>8. NoneYet'
  BY DEF NoneYet
<1>9. (Index!EveryRowIsFound)'
  <2>1. ASSUME NEW x \in Index!Rows
        PROVE  (IF source[x] = Absent THEN docs[x] = Absent
                ELSE docs[x] # Absent /\ docs[x].text = source[x] /\ docs[x] \in fts)'
    BY <1>1, <1>2, <1>3 DEF IndexInv, IndexTypes, Index!EveryRowIsFound, Index!IndexAssumption
  <2>2. ASSUME NEW x \in (Index!Documents)', NEW y \in (Index!Documents)', docs'[x].rowid = docs'[y].rowid
        PROVE  x = y
    <3>1. CASE x = r /\ y # r
      BY <1>n, <1>1, <1>3, <1>4, <1>d, <2>2, <3>1 DEF Index!Documents
    <3>2. CASE x # r /\ y = r
      BY <1>n, <1>1, <1>3, <1>4, <1>d, <2>2, <3>2 DEF Index!Documents
    <3>3. CASE x # r /\ y # r
      BY <1>3, <1>4, <2>2, <3>3 DEF IndexInv, Index!EveryRowIsFound, Index!Documents
    <3> QED BY <3>1, <3>2, <3>3
  <2> QED BY <2>1, <2>2 DEF Index!EveryRowIsFound
<1>10. ASSUME release = 5, NEW p \in fts'
       PROVE  (\E x \in (Index!Documents)' : docs'[x] = p) \/ LeftBelow(p)'
  <2>1. CASE p = doc
    BY <1>3, <1>4, <2>1
  <2>2. CASE p \in fts /\ p = docs[r] /\ r \in Index!Documents
    <3>1. r \in Works /\ p.rowid \in Nat /\ p.rowid < next
      BY <1>n, <1>d, <1>10, <2>2 DEF Index!Documents
    <3>2. ASSUME NEW x \in (Index!Documents)' PROVE docs'[x].rowid # p.rowid
      <4>1. CASE x = r
        BY <1>1, <1>3, <1>n, <3>1, <4>1
      <4>2. CASE x # r
        BY <1>3, <1>4, <2>2, <4>2 DEF IndexInv, Index!EveryRowIsFound, Index!Documents
      <4> QED BY <4>1, <4>2
    <3> QED BY <1>1, <1>3, <1>4, <1>n, <3>1, <3>2 DEF LeftBelow
  <2>3. CASE p \in fts /\ \E x \in Index!Documents : x # r /\ docs[x] = p
    BY <1>3, <1>4, <2>3 DEF Index!Documents
  <2>4. CASE p \in fts /\ LeftBelow(p)
    <3>1. PICK w \in Works : w \in Index!Documents /\ docs[w].rowid > p.rowid
      BY <2>4 DEF LeftBelow
    <3>2. p.rowid \in Nat /\ p.rowid < next
      BY <1>n, <1>d, <2>4, <3>1 DEF IndexInv, IndexTypes, Document
    <3>3. w \in (Index!Documents)' /\ docs'[w].rowid > p.rowid
      BY <1>1, <1>3, <1>4, <1>n, <3>1, <3>2 DEF Index!Documents
    <3>4. ASSUME NEW x \in (Index!Documents)' PROVE docs'[x].rowid # p.rowid
      BY <1>1, <1>3, <1>4, <1>n, <2>4, <3>2 DEF LeftBelow, Index!Documents
    <3> QED BY <3>3, <3>4 DEF LeftBelow
  <2> QED BY <1>2, <1>10, <2>1, <2>2, <2>3, <2>4 DEF IndexInv, NothingStale
<1> QED BY <1>6, <1>7, <1>8, <1>9, <1>10 DEF IndexInv, NothingStale

\* The posting of a document moves with its text.
LEMMA UpdateInPlace ==
  ASSUME Index!IndexAssumption, IndexInv, NEW r \in Index!Rows, NEW word \in RowTexts, release = 5,
         source' = [source EXCEPT ![r] = word], release' = release,
         docs[r] # Absent, Index!Upsert(r, word)
  PROVE  IndexInv'
<1> DEFINE doc == [docs[r] EXCEPT !.text = word]
<1>d. \A x \in Index!Documents : docs[x] \in Document /\ docs[x].rowid \in Nat
  BY DEF Index!Documents, IndexInv, IndexTypes, Document
<1>1. doc \in Document /\ doc # Absent /\ doc.rowid = docs[r].rowid /\ doc.text = word
  <2>1. docs[r] \in Document
    BY DEF IndexInv, IndexTypes
  <2> QED BY <2>1 DEF Document, Index!IndexAssumption
<1>2. docs' = [docs EXCEPT ![r] = doc] /\ fts' = (fts \ {docs[r]}) \cup {doc}
  BY DEF Index!Upsert
<1> HIDE DEF doc
<1>3. docs' \in [Index!Rows -> Document \cup {Absent}] /\ docs'[r] = doc
      /\ \A x \in Index!Rows : x # r => docs'[x] = docs[x]
  BY <1>1, <1>2 DEF IndexInv, IndexTypes
<1>4. (Index!Documents)' = Index!Documents /\ r \in Index!Documents
  BY <1>1, <1>3 DEF Index!Documents
<1>5. \A x \in Index!Documents : docs'[x].rowid = docs[x].rowid
  BY <1>1, <1>3 DEF Index!Documents
<1>6. source' \in [Index!Rows -> RowTexts \cup {Absent}] /\ Present' = Present \cup {r}
  BY DEF IndexInv, IndexTypes, Present, Index!IndexAssumption
<1>7. IndexTypes'
  <2>1. IsFiniteSet(Present \cup {r})
    BY FS_AddElement DEF IndexInv, IndexTypes
  <2> QED BY <1>1, <1>2, <1>3, <1>6, <2>1 DEF IndexInv, IndexTypes
<1>8. Bounded' /\ NoneYet'
  BY <1>4, <1>5 DEF IndexInv, Bounded, NoneYet
<1>9. (Index!EveryRowIsFound)'
  <2>1. ASSUME NEW x \in Index!Rows
        PROVE  (IF source[x] = Absent THEN docs[x] = Absent
                ELSE docs[x] # Absent /\ docs[x].text = source[x] /\ docs[x] \in fts)'
    <3>1. CASE x = r
      BY <1>1, <1>2, <1>3, <3>1 DEF IndexInv, IndexTypes, Index!IndexAssumption
    <3>2. CASE x # r
      <4>1. source'[x] = source[x] /\ docs'[x] = docs[x]
        BY <1>3, <3>2 DEF IndexInv, IndexTypes
      <4>2. docs[x] # Absent => docs[x] # docs[r]
        BY <1>4, <3>2 DEF IndexInv, Index!EveryRowIsFound, Index!Documents
      <4> QED BY <1>2, <4>1, <4>2 DEF IndexInv, Index!EveryRowIsFound
    <3> QED BY <3>1, <3>2
  <2>2. ASSUME NEW x \in (Index!Documents)', NEW y \in (Index!Documents)', docs'[x].rowid = docs'[y].rowid
        PROVE  x = y
    BY <1>4, <1>5, <2>2 DEF IndexInv, Index!EveryRowIsFound
  <2> QED BY <2>1, <2>2 DEF Index!EveryRowIsFound
<1>10. ASSUME NEW p \in fts'
       PROVE  (\E x \in (Index!Documents)' : docs'[x] = p) \/ LeftBelow(p)'
  <2>1. CASE p = doc
    BY <1>3, <1>4, <2>1
  <2>2. CASE \E x \in Index!Documents : x # r /\ docs[x] = p
    BY <1>3, <1>4, <2>2 DEF Index!Documents
  <2>3. CASE LeftBelow(p)
    BY <1>4, <1>5, <2>3 DEF LeftBelow
  <2> QED BY <1>2, <1>10, <2>1, <2>2, <2>3 DEF IndexInv, NothingStale
<1> QED BY <1>7, <1>8, <1>9, <1>10 DEF IndexInv, NothingStale

LEMMA EraseStep ==
  ASSUME Index!IndexAssumption, IndexInv, NEW m \in MessageRows, Index!Erase(m)
  PROVE  IndexInv'
<1>r. m \in Index!Rows /\ m \notin Works
  BY DEF Index!Rows, Index!IndexAssumption
<1>1. /\ source' = [source EXCEPT ![m] = Absent] /\ docs' = [docs EXCEPT ![m] = Absent] /\ release' = release
      /\ fts' = IF docs[m] = Absent THEN fts ELSE fts \ {docs[m]}
  BY DEF Index!Erase
<1>2. (Index!Documents)' = Index!Documents \ {m} /\ \A x \in (Index!Documents)' : docs'[x] = docs[x]
  BY <1>1, <1>r DEF Index!Documents, IndexInv, IndexTypes
<1>3. IndexTypes'
  <2>1. Present' = Present \ {m}
    BY <1>1, <1>r DEF Present, IndexInv, IndexTypes
  <2>2. IsFiniteSet(Present \ {m})
    BY FS_RemoveElement DEF IndexInv, IndexTypes
  <2> QED BY <1>1, <1>r, <2>1, <2>2 DEF IndexInv, IndexTypes
<1>4. Bounded' /\ NoneYet'
  BY <1>1, <1>2 DEF IndexInv, Bounded, NoneYet
<1>5. ASSUME release >= 3 PROVE (Index!EveryRowIsFound)'
  <2>1. ASSUME NEW x \in Index!Rows
        PROVE  (IF source[x] = Absent THEN docs[x] = Absent
                ELSE docs[x] # Absent /\ docs[x].text = source[x] /\ docs[x] \in fts)'
    <3>1. CASE x = m
      BY <1>1, <1>r, <3>1 DEF IndexInv, IndexTypes
    <3>2. CASE x # m
      <4>1. source'[x] = source[x] /\ docs'[x] = docs[x]
        BY <1>1, <3>2 DEF IndexInv, IndexTypes
      <4>2. docs[x] # Absent /\ docs[m] # Absent => docs[x] # docs[m]
        BY <1>5, <1>r, <3>2 DEF IndexInv, Index!EveryRowIsFound, Index!Documents
      <4> QED BY <1>1, <1>5, <4>1, <4>2 DEF IndexInv, Index!EveryRowIsFound
    <3> QED BY <3>1, <3>2
  <2>2. ASSUME NEW x \in (Index!Documents)', NEW y \in (Index!Documents)', docs'[x].rowid = docs'[y].rowid
        PROVE  x = y
    BY <1>2, <1>5, <2>2 DEF IndexInv, Index!EveryRowIsFound
  <2> QED BY <2>1, <2>2 DEF Index!EveryRowIsFound
<1>6. ASSUME release = 5, NEW p \in fts'
      PROVE  (\E x \in (Index!Documents)' : docs'[x] = p) \/ LeftBelow(p)'
  <2>1. p \in fts /\ (m \in Index!Documents => p # docs[m])
    BY <1>1, <1>6 DEF Index!Documents
  <2>2. CASE \E x \in Index!Documents : docs[x] = p
    BY <1>2, <2>1, <2>2
  <2>3. CASE LeftBelow(p)
    BY <1>2, <1>r, <2>3 DEF LeftBelow
  <2> QED BY <1>6, <2>1, <2>2, <2>3 DEF IndexInv, NothingStale
<1>7. (Index!EveryRowIsFound)'
  BY <1>1, <1>5 DEF Index!EveryRowIsFound
<1> QED BY <1>1, <1>3, <1>4, <1>6, <1>7 DEF IndexInv, NothingStale

\* A migration files all there is anew.
LEMMA UpgradeStep ==
  ASSUME Index!IndexAssumption, IndexInv, Index!Upgrade
  PROVE  IndexInv'
<1>1. /\ release \in 2..4 /\ release' = release + 1 /\ source' = source
      /\ fts' = {docs'[r] : r \in {x \in Index!Rows : docs'[x] # Absent}}
  BY DEF Index!Upgrade, Index!Rebuilt, IndexInv, IndexTypes
<1>f. fts' = {docs'[r] : r \in (Index!Documents)'}
  BY <1>1 DEF Index!Documents
<1>2. CASE release = 2
  <2>1. PICK rank \in [Present -> 1..Index!Cardinality(Present)] :
          /\ \A a, b \in Present : rank[a] = rank[b] => a = b
          /\ docs' = [r \in Index!Rows |-> IF r \in Present
                                           THEN [rowid |-> rank[r], text |-> source[r]] ELSE Absent]
    BY <1>2 DEF Index!Upgrade, Index!Backfill, Present
  <2>2. Cardinality(Present) \in Nat /\ Index!Cardinality(Present) = Cardinality(Present)
    <3>1. Index!Cardinality(Present) = Cardinality(Present)
      BY Zenon DEF Index!Cardinality, Cardinality
    <3> QED BY <3>1, FS_CardinalityType DEF IndexInv, IndexTypes
  <2> DEFINE c == Cardinality(Present)
  <2>3. rank \in [Present -> 1..c] /\ c \in Nat
    BY <2>1, <2>2
  <2> HIDE DEF c
  <2>4. ASSUME NEW r \in Present
        PROVE  /\ docs'[r] = [rowid |-> rank[r], text |-> source[r]] /\ docs'[r] \in Document
               /\ docs'[r] # Absent /\ docs'[r].rowid = rank[r] /\ docs'[r].text = source[r] /\ rank[r] <= c
    <3>1. r \in Index!Rows /\ source[r] \in RowTexts
      BY DEF Present, IndexInv, IndexTypes
    <3>2. docs'[r] = [rowid |-> rank[r], text |-> source[r]]
      BY <2>1, <3>1
    <3>3. rank[r] \in 1..c
      BY <2>3
    <3>4. docs'[r] \in Document
      BY <2>3, <3>1, <3>2, <3>3 DEF Document
    <3>5. rank[r] <= c
      BY <2>3, <3>3
    <3> QED BY <3>2, <3>4, <3>5 DEF Document, Index!IndexAssumption
  <2>5. \A r \in Index!Rows : r \notin Present => docs'[r] = Absent
    BY <2>1
  <2>6. (Index!Documents)' = Present
    BY <2>4, <2>5 DEF Index!Documents, Present
  <2>7. docs' \in [Index!Rows -> Document \cup {Absent}]
    <3>1. \A r \in Index!Rows : docs'[r] \in Document \cup {Absent}
      BY <2>4, <2>5
    <3>2. docs' = [r \in Index!Rows |-> docs'[r]]
      BY <2>1
    <3> QED BY <3>1, <3>2
  <2>8. IndexTypes'
    <3>1. fts' \subseteq Document
      BY <1>f, <2>4, <2>6
    <3>2. Present' = Present
      BY <1>1 DEF Present
    <3> QED BY <1>1, <2>7, <3>1, <3>2 DEF IndexInv, IndexTypes
  <2>9. Bounded'
    BY <2>3, <2>4, <2>6 DEF Bounded
  <2>10. (Index!EveryRowIsFound)'
    <3>1. ASSUME NEW x \in Index!Rows
          PROVE  (IF source[x] = Absent THEN docs[x] = Absent
                  ELSE docs[x] # Absent /\ docs[x].text = source[x] /\ docs[x] \in fts)'
      <4>1. CASE x \in Present
        BY <1>1, <1>f, <2>4, <2>6, <4>1 DEF Present
      <4>2. CASE x \notin Present
        BY <1>1, <2>5, <4>2 DEF Present
      <4> QED BY <4>1, <4>2
    <3>2. ASSUME NEW x \in (Index!Documents)', NEW y \in (Index!Documents)', docs'[x].rowid = docs'[y].rowid
          PROVE  x = y
      <4>1. x \in Present /\ y \in Present
        BY <2>6
      <4>2. rank[x] = rank[y]
        BY <2>4, <3>2, <4>1
      <4> QED BY <2>1, <4>1, <4>2
    <3> QED BY <3>1, <3>2 DEF Index!EveryRowIsFound
  <2> QED BY <1>1, <1>2, <2>8, <2>9, <2>10 DEF IndexInv, NoneYet, NothingStale
<1>3. CASE release # 2
  <2>1. docs' = docs
    BY <1>3 DEF Index!Upgrade
  <2>2. (Index!Documents)' = Index!Documents /\ Present' = Present
    BY <1>1, <2>1 DEF Index!Documents, Present
  <2>3. fts' = {docs[r] : r \in Index!Documents}
    BY <1>f, <2>1, <2>2
  <2>4. IndexTypes'
    BY <1>1, <2>1, <2>2, <2>3 DEF IndexInv, IndexTypes, Index!Documents
  <2>5. (Index!EveryRowIsFound)'
    BY <1>1, <1>3, <2>1, <2>2, <2>3 DEF IndexInv, Index!EveryRowIsFound, Index!Documents
  <2>6. NothingStale' /\ Bounded' /\ NoneYet'
    BY <1>1, <1>3, <2>1, <2>2, <2>3 DEF IndexInv, NothingStale, Bounded, NoneYet
  <2> QED BY <2>4, <2>5, <2>6 DEF IndexInv
<1> QED BY <1>2, <1>3

LEMMA IndexStep ==
  ASSUME Index!IndexAssumption, IndexInv, [Index!Next]_(Index!vars)
  PROVE  IndexInv'
<1>1. ASSUME NEW r \in Index!Rows, NEW word \in RowTexts, Index!Write(r, word)
      PROVE  IndexInv'
  <2>1. source' = [source EXCEPT ![r] = word] /\ Index!Project(r, word) /\ release' = release
    BY <1>1 DEF Index!Write
  <2>2. CASE release < 3
    <3>1. docs' = docs /\ fts' = fts /\ release = 2
      BY <2>1, <2>2 DEF Index!Project, IndexInv, IndexTypes
    <3>2. (Index!Documents)' = Index!Documents /\ Present' = Present \cup {r}
      BY <2>1, <3>1 DEF Index!Documents, Present, Index!IndexAssumption, IndexInv, IndexTypes
    <3>3. IsFiniteSet(Present \cup {r})
      BY FS_AddElement DEF IndexInv, IndexTypes
    <3> QED BY <2>1, <3>1, <3>2, <3>3
            DEF IndexInv, IndexTypes, Bounded, NoneYet, NothingStale, Index!EveryRowIsFound
  <2>3. CASE release >= 3 /\ (release < 5 \/ r \in Works)
    <3>1. Index!Insert(r, word)
      BY <2>1, <2>3 DEF Index!Project, Index!Replace, IndexInv, IndexTypes
    <3> QED BY <2>1, <2>3, <3>1, FiledStep
  <2>4. CASE release = 5 /\ r \notin Works
    <3>1. Index!Upsert(r, word)
      BY <2>1, <2>4 DEF Index!Project
    <3>2. CASE docs[r] = Absent
      <4>1. Index!Insert(r, word)
        BY <3>1, <3>2 DEF Index!Upsert
      <4>2. source' = [source EXCEPT ![r] = word] /\ release' = release /\ release >= 3
        BY <2>1, <2>4
      <4> QED BY <3>2, <4>1, <4>2, FiledStep
    <3>3. CASE docs[r] # Absent
      BY <2>1, <2>4, <3>1, <3>3, UpdateInPlace
    <3> QED BY <3>2, <3>3
  <2> QED BY <2>2, <2>3, <2>4 DEF IndexInv, IndexTypes
<1>2. CASE UNCHANGED Index!vars
  <2>1. UNCHANGED <<release, source, docs, fts>>
    BY <1>2 DEF Index!vars
  <2>2. (Index!Documents)' = Index!Documents /\ Present' = Present
    BY <2>1 DEF Index!Documents, Present
  <2> QED BY <2>1, <2>2
          DEF IndexInv, IndexTypes, Bounded, NoneYet, NothingStale, LeftBelow, Index!EveryRowIsFound
<1> QED BY <1>1, <1>2, EraseStep, UpgradeStep DEF Index!Next

LEMMA IndexHolds == Index!Spec => [](Index!IndexAssumption => IndexInv)
<1>1. Index!Init => (Index!IndexAssumption => IndexInv)
  <2> SUFFICES ASSUME Index!Init PROVE IndexInv
    OBVIOUS
  <2>1. Present = {} /\ Index!Documents = {}
    BY DEF Index!Init, Present, Index!Documents
  <2>2. IsFiniteSet(Present)
    BY <2>1, FS_EmptySet
  <2> QED BY <2>1, <2>2
          DEF Index!Init, IndexInv, IndexTypes, Bounded, NoneYet, NothingStale, Index!EveryRowIsFound
<1>2. (Index!IndexAssumption => IndexInv) /\ [Index!Next]_(Index!vars) => (Index!IndexAssumption => IndexInv)'
  BY IndexStep DEF Index!IndexAssumption
<1> QED BY <1>1, <1>2, PTL DEF Index!Spec

\* A call, and what it may have read.
Steps == {"idle", "probing", "reading", "looking", "asking", "storing", "lost", "done", "failed"}
Key == [model : Models \cup {Empty}, input : Renderings \cup {Empty}]
Distillation == [at : Steps, key : Key, id : Nat]
DistillerInv ==
  /\ distills \in [Calls -> Distillation] /\ lastId \in Nat
  /\ nodes \subseteq [id : Nat, key : Key]
  /\ timeline \in Renderings \cup {Empty}
  /\ Distiller!AnswersAreStored

\* A call goes on by itself, and what is stored stays.
LEMMA CallGoesOn ==
  ASSUME DistillerInv, NEW c \in Calls, distills' \in [Calls -> Distillation],
         \A k \in Calls : k # c => distills'[k] = distills[k],
         UNCHANGED <<timeline, nodes, summarizes>>, lastId' \in Nat,
         distills'[c].at = "done" => \E n \in nodes : n.key = distills'[c].key /\ n.id = distills'[c].id,
         distills'[c].at = "lost" => \E n \in nodes : n.key = distills'[c].key
  PROVE  DistillerInv'
  BY DEF DistillerInv, Distiller!AnswersAreStored, Distiller!OfKey

LEMMA DistillerStep ==
  ASSUME DistillerInv, [Distiller!Next]_(Distiller!vars)
  PROVE  DistillerInv'
<1>i. Distiller!Idle \in Distillation /\ Distiller!Idle.at = "idle"
  BY DEF Distiller!Idle, Distiller!NoKey, Distiller!NoId, Distillation, Steps, Key
<1>t. distills \in [Calls -> Distillation] /\ (lastId' = lastId => lastId' \in Nat)
  BY DEF DistillerInv
<1>1. CASE Distiller!Restart
  <2>1. distills' = [c \in Calls |-> Distiller!Idle] /\ UNCHANGED <<timeline, nodes, summarizes, lastId>>
    BY <1>1 DEF Distiller!Restart, Distiller!graph
  <2>2. distills' \in [Calls -> Distillation] /\ \A c \in Calls : distills'[c].at = "idle"
    BY <1>i, <2>1
  <2> QED BY <2>1, <2>2 DEF DistillerInv, Distiller!AnswersAreStored, Distiller!OfKey
<1>2. ASSUME NEW t \in Renderings \cup {Empty}, Distiller!Chat(t)
      PROVE  DistillerInv'
  BY <1>2 DEF Distiller!Chat, Distiller!graph, DistillerInv, Distiller!AnswersAreStored, Distiller!OfKey
<1>3. ASSUME NEW c \in Calls, NEW step \in {"failed", "probing"},
             distills' = [distills EXCEPT ![c] = [Distiller!Idle EXCEPT !.at = step]],
             UNCHANGED <<timeline, nodes, summarizes, lastId>>
      PROVE  DistillerInv'
  <2> DEFINE d == [Distiller!Idle EXCEPT !.at = step]
  <2>1. d \in Distillation /\ d.at = step
    BY <1>i DEF Distillation, Steps
  <2> HIDE DEF d
  <2>2. /\ distills' \in [Calls -> Distillation] /\ distills'[c].at = step
        /\ \A k \in Calls : k # c => distills'[k] = distills[k]
    BY <1>3, <1>t, <2>1 DEF d
  <2> QED BY <1>3, <1>t, <2>2, CallGoesOn
<1>4. ASSUME NEW c \in Calls, Distiller!Fail(c), UNCHANGED <<timeline, nodes, summarizes, lastId>>
      PROVE  DistillerInv'
  BY <1>3, <1>4 DEF Distiller!Fail
<1>5. ASSUME NEW c \in Calls, Distiller!Distill(c)
      PROVE  DistillerInv'
  BY <1>3, <1>5 DEF Distiller!Distill, Distiller!graph
<1>6. ASSUME NEW c \in Calls, Distiller!NoModel(c) \/ Distiller!NotCompleted(c) \/ Distiller!InsertFails(c)
                              \/ (Distiller!Render(c) /\ timeline = Empty)
      PROVE  DistillerInv'
  BY <1>4, <1>6 DEF Distiller!NoModel, Distiller!NotCompleted, Distiller!InsertFails, Distiller!Render,
                    Distiller!graph
<1>7. ASSUME NEW c \in Calls, NEW m \in Models, Distiller!ModelPicked(c, m)
      PROVE  DistillerInv'
  <2>1. distills' = [distills EXCEPT ![c].at = "reading", ![c].key.model = m]
        /\ UNCHANGED <<timeline, nodes, summarizes, lastId>>
    BY <1>7 DEF Distiller!ModelPicked, Distiller!graph
  <2>2. /\ distills' \in [Calls -> Distillation] /\ distills'[c].at = "reading"
        /\ \A k \in Calls : k # c => distills'[k] = distills[k]
    <3> DEFINE Ms == Models \cup {Empty}
               Ns == Renderings \cup {Empty}
    <3>1. distills \in [Calls -> [at : Steps, key : [model : Ms, input : Ns], id : Nat]]
          /\ m \in Ms /\ "reading" \in Steps
      BY <1>t DEF Distillation, Key, Steps
    <3> HIDE DEF Ms, Ns
    <3>2. distills' \in [Calls -> [at : Steps, key : [model : Ms, input : Ns], id : Nat]]
      BY ZenonT(60), <2>1, <3>1
    <3>3. distills'[c].at = "reading" /\ \A k \in Calls : k # c => distills'[k] = distills[k]
      BY <2>1, <3>1
    <3> QED BY <3>2, <3>3 DEF Distillation, Key, Ms, Ns
  <2> QED BY <1>t, <2>1, <2>2, CallGoesOn
<1>8. ASSUME NEW c \in Calls, Distiller!Render(c), timeline # Empty
      PROVE  DistillerInv'
  <2>1. distills' = [distills EXCEPT ![c].at = "looking", ![c].key.input = timeline]
        /\ UNCHANGED <<timeline, nodes, summarizes, lastId>>
    BY <1>8 DEF Distiller!Render, Distiller!graph
  <2>2. timeline \in Renderings \cup {Empty}
    BY DEF DistillerInv
  <2>3. /\ distills' \in [Calls -> Distillation] /\ distills'[c].at = "looking"
        /\ \A k \in Calls : k # c => distills'[k] = distills[k]
    <3> DEFINE Ms == Models \cup {Empty}
               Ns == Renderings \cup {Empty}
    <3>1. distills \in [Calls -> [at : Steps, key : [model : Ms, input : Ns], id : Nat]]
          /\ timeline \in Ns /\ "looking" \in Steps
      BY <1>t, <2>2 DEF Distillation, Key, Steps
    <3> HIDE DEF Ms, Ns
    <3>2. distills' \in [Calls -> [at : Steps, key : [model : Ms, input : Ns], id : Nat]]
      BY ZenonT(60), <2>1, <3>1
    <3>3. distills'[c].at = "looking" /\ \A k \in Calls : k # c => distills'[k] = distills[k]
      BY <2>1, <3>1
    <3> QED BY <3>2, <3>3 DEF Distillation, Key, Ms, Ns
  <2> QED BY <1>t, <2>1, <2>3, CallGoesOn
<1>9. ASSUME NEW c \in Calls, Distiller!LookUp(c)
      PROVE  DistillerInv'
  <2>1. UNCHANGED <<timeline, nodes, summarizes, lastId>>
    BY <1>9 DEF Distiller!LookUp, Distiller!graph
  <2>2. CASE Distiller!OfKey(distills[c].key) # {}
    <3>1. PICK n \in Distiller!OfKey(distills[c].key) :
            distills' = [distills EXCEPT ![c].at = "done", ![c].id = n.id]
      BY <1>9, <2>2 DEF Distiller!LookUp
    <3>2. n \in nodes /\ n.key = distills[c].key /\ n.id \in Nat
      BY DEF Distiller!OfKey, DistillerInv
    <3>3. /\ distills' \in [Calls -> Distillation]
          /\ distills'[c].at = "done" /\ distills'[c].key = distills[c].key /\ distills'[c].id = n.id
          /\ \A k \in Calls : k # c => distills'[k] = distills[k]
      BY <1>t, <3>1, <3>2 DEF Distillation, Steps
    <3> QED BY <1>t, <2>1, <3>2, <3>3, CallGoesOn
  <2>3. CASE Distiller!OfKey(distills[c].key) = {} /\ distills[c].at = "looking"
    <3>1. distills' = [distills EXCEPT ![c].at = "asking"]
      BY <1>9, <2>3 DEF Distiller!LookUp, Distiller!Go
    <3>2. /\ distills' \in [Calls -> Distillation] /\ distills'[c].at = "asking"
          /\ \A k \in Calls : k # c => distills'[k] = distills[k]
      BY <1>t, <3>1 DEF Distillation, Steps
    <3> QED BY <1>t, <2>1, <3>2, CallGoesOn
  <2>4. CASE Distiller!OfKey(distills[c].key) = {} /\ distills[c].at # "looking"
    BY <1>4, <1>9, <2>1, <2>4 DEF Distiller!LookUp
  <2> QED BY <2>2, <2>3, <2>4
<1>10. ASSUME NEW c \in Calls, Distiller!Completed(c)
       PROVE  DistillerInv'
  <2>1. distills' = [distills EXCEPT ![c].at = "storing", ![c].id = lastId'] /\ lastId' \in Nat
        /\ UNCHANGED <<timeline, nodes, summarizes>>
    BY <1>10 DEF Distiller!Completed, DistillerInv
  <2>2. /\ distills' \in [Calls -> Distillation] /\ distills'[c].at = "storing"
        /\ \A k \in Calls : k # c => distills'[k] = distills[k]
    BY <1>t, <2>1 DEF Distillation, Steps
  <2> QED BY <2>1, <2>2, CallGoesOn
<1>11. ASSUME NEW c \in Calls, Distiller!Insert(c)
       PROVE  DistillerInv'
  <2>1. timeline' = timeline /\ lastId' = lastId
    BY <1>11 DEF Distiller!Insert
  <2>2. CASE Distiller!Taken(distills[c].key)
    <3>1. distills' = [distills EXCEPT ![c].at = "lost"] /\ UNCHANGED <<nodes, summarizes>>
      BY <1>11, <2>2 DEF Distiller!Insert, Distiller!Loses, Distiller!Go
    <3>2. /\ distills' \in [Calls -> Distillation]
          /\ distills'[c].at = "lost" /\ distills'[c].key = distills[c].key
          /\ \A k \in Calls : k # c => distills'[k] = distills[k]
      BY <1>t, <3>1 DEF Distillation, Steps
    <3> QED BY <1>t, <2>1, <2>2, <3>1, <3>2, CallGoesOn DEF Distiller!Taken, Distiller!OfKey
  <2>3. CASE ~Distiller!Taken(distills[c].key)
    <3> DEFINE entry == [id |-> distills[c].id, key |-> distills[c].key]
    <3>1. /\ distills' = [distills EXCEPT ![c].at = "done"]
          /\ nodes' = nodes \cup {entry} /\ summarizes' = summarizes \cup {distills[c].id}
      BY <1>11, <2>3 DEF Distiller!Insert, Distiller!Go
    <3>2. entry \in [id : Nat, key : Key] /\ entry.id = distills[c].id /\ entry.key = distills[c].key
      BY <1>t DEF Distillation
    <3>3. \A n \in nodes : n.key # distills[c].key
      BY <2>3 DEF Distiller!Taken, Distiller!OfKey
    <3>4. /\ distills' \in [Calls -> Distillation]
          /\ distills'[c].key = distills[c].key /\ distills'[c].id = distills[c].id
          /\ \A k \in Calls : k # c => distills'[k] = distills[k]
      BY <1>t, <3>1 DEF Distillation, Steps
    <3> HIDE DEF entry
    <3> QED BY <2>1, <3>1, <3>2, <3>3, <3>4 DEF DistillerInv, Distiller!AnswersAreStored, Distiller!OfKey
  <2> QED BY <2>2, <2>3
<1>12. CASE UNCHANGED Distiller!vars
  BY <1>12 DEF Distiller!vars, Distiller!graph, DistillerInv, Distiller!AnswersAreStored, Distiller!OfKey
<1>13. ASSUME NEW c \in Calls, Distiller!Render(c)
       PROVE  DistillerInv'
  BY <1>6, <1>8, <1>13
<1>14. CASE Distiller!Next
  <2>1. CASE \E t \in Renderings \cup {Empty} : Distiller!Chat(t)
    BY <1>2, <2>1
  <2>2. ASSUME NEW c \in Calls, \E m \in Models : Distiller!ModelPicked(c, m)
        PROVE  DistillerInv'
    BY <1>7, <2>2
  <2> QED BY <1>1, <1>5, <1>6, <1>9, <1>10, <1>11, <1>13, <1>14, <2>1, <2>2 DEF Distiller!Next
<1> QED BY <1>12, <1>14

\* However rows are written, erased and migrated, and distillations race.
LEMMA FoundSearches ==
  Index!Spec /\ Distiller!Spec => [](Index!IndexAssumption => SearchFindsIt)
<1>1. IndexInv => Index!HitsAreCurrent /\ Index!EveryRowIsFound
  <2> SUFFICES ASSUME IndexInv, release = 5, NEW r \in Index!Documents, NEW p \in fts,
                      p.rowid = docs[r].rowid
               PROVE  p = docs[r]
    BY DEF IndexInv, Index!HitsAreCurrent
  <2>1. PICK x \in Index!Documents : docs[x] = p
    BY DEF IndexInv, NothingStale, LeftBelow
  <2> QED BY <2>1 DEF IndexInv, Index!EveryRowIsFound
<1>2. Distiller!Init => DistillerInv
  BY DEF Distiller!Init, Distiller!Idle, Distiller!NoKey, Distiller!NoId, DistillerInv,
         Distiller!AnswersAreStored, Distiller!OfKey, Distillation, Steps, Key
<1>3. DistillerInv => Distiller!AnswersAreStored
  BY DEF DistillerInv
<1> QED BY <1>1, <1>2, <1>3, IndexHolds, DistillerStep, PTL DEF Distiller!Spec, SearchFindsIt

-----------------------------------------------------------------------------
(* Pull requests: ShowsItsPullRequest.  Numbers on GitHub are given once, a *)
(* sync that nothing has crossed has a row of all that it has gone over,    *)
(* under one time, and of such rows the best is the branch's own.           *)

HubInv ==
  /\ hub \subseteq Requests!Prs /\ IsFiniteSet(hub)
  /\ \A a \in hub : a.number <= Cardinality(hub)
  /\ \A a, b \in hub : a.number = b.number => a = b

\* Each has a row of what it was, all under one time.
RowsOf(prs, moment) ==
  \A a \in prs : a.number \in DOMAIN prRows /\ prRows[a.number] = Requests!mapGhPullRequest(a, moment)

Listing(prs) ==
  prs \subseteq Requests!Prs /\ IsFiniteSet(prs) /\ \A a, b \in prs : a.number = b.number => a = b

Fields(s) == s = [slug |-> s.slug, todo |-> s.todo, now |-> s.now, listed |-> s.listed, crossed |-> s.crossed]
SyncOf(s) ==
  /\ Fields(s)
  /\ Listing(s.listed) /\ s.todo \subseteq s.listed /\ s.now \in Nat /\ s.crossed \in BOOLEAN

\* What a sync has gone over, unless another has written since.
GoneOver(s) ==
  ~s.crossed /\ s.todo # {} /\ Cardinality(s.listed) <= Limit =>
    RowsOf(s.listed \ s.todo, s.now) /\ (s.now = 0 => s.todo = s.listed)

ToldInv ==
  None \notin told => told # {} /\ Listing(told) /\ (Cardinality(told) <= Limit => \E moment \in Nat : RowsOf(told, moment))

RequestsInv ==
  /\ github \in Repos \cup {None} /\ remotes \in RemotesSet /\ clock \in Nat
  /\ HubInv
  /\ under = [by \in Requests!By |-> under[by]]
  /\ \A by \in Requests!By : SyncOf(under[by]) /\ GoneOver(under[by])
  /\ ToldInv

LEMMA SameCount ==
  ASSUME NEW S
  PROVE  Requests!Cardinality(S) = Cardinality(S)
  BY Zenon DEF Requests!Cardinality, Cardinality

LEMMA IdentityOf ==
  ASSUME Requests!PullRequestsAssumption, NEW rs \in RemotesSet
  PROVE  Requests!githubIdentity(rs) \in Repos \cup {None}
<1> DEFINE remotesOn == {i \in DOMAIN rs : rs[i].at # None}
           origin == {i \in remotesOn : rs[i].name = "origin"}
           from == IF origin = {} THEN remotesOn ELSE origin
           chosen == CHOOSE i \in from : \A j \in from : i <= j
<1>1. rs \in Seq([name : STRING, at : Repos \cup {None}])
  BY DEF Requests!PullRequestsAssumption
<1>2. DOMAIN rs \subseteq Nat /\ \A i \in DOMAIN rs : rs[i].at \in Repos \cup {None}
  <2> DEFINE T == [name : STRING, at : Repos \cup {None}]
  <2>1. \A r \in T : r.at \in Repos \cup {None}
    OBVIOUS
  <2>2. rs \in Seq(T)
    BY <1>1
  <2> HIDE DEF T
  <2>3. DOMAIN rs \subseteq Nat /\ \A i \in DOMAIN rs : rs[i] \in T
    BY <2>2
  <2> QED BY <2>1, <2>3
<1>3. ASSUME remotesOn # {}
      PROVE  rs[chosen].at \in Repos \cup {None}
  <2>1. from # {} /\ from \subseteq DOMAIN rs /\ from \subseteq Nat
    BY <1>2, <1>3
  <2> HIDE DEF from
  <2>2. \E x \in from : \A y \in from : x <= y
    BY <2>1, LeastNumber
  <2>3. chosen \in from
    BY <2>2
  <2> HIDE DEF chosen
  <2> QED BY <1>2, <2>1, <2>3
<1>4. Requests!githubIdentity(rs) = IF remotesOn = {} THEN None ELSE rs[chosen].at
  BY DEF Requests!githubIdentity
<1> HIDE DEF remotesOn, chosen
<1> QED BY <1>3, <1>4

\* A listing of what gh lists all of is the list.
LEMMA AllListed ==
  ASSUME Requests!PullRequestsAssumption, HubInv, NEW slug
  PROVE  LET all == {pr \in hub : pr.base = slug}
         IN  /\ Listing(all) /\ Requests!List(slug) \subseteq all
             /\ Cardinality(all) <= Limit => Requests!List(slug) = all
<1> DEFINE all == {pr \in hub : pr.base = slug}
           above(pr) == {b \in all : b.number > pr.number}
<1>1. Listing(all)
  <2>1. IsFiniteSet(all)
    BY FS_Subset DEF HubInv
  <2> QED BY <2>1 DEF Listing, HubInv
<1>2. Requests!List(slug) = {pr \in all : Requests!Cardinality(above(pr)) < Limit}
  BY DEF Requests!List
<1>3. ASSUME NEW pr \in all, Cardinality(all) <= Limit
      PROVE  Requests!Cardinality(above(pr)) < Limit
  <2>0. pr.number \in Nat
    BY DEF HubInv, Requests!Prs
  <2>1. above(pr) \subseteq all \ {pr}
    BY <2>0
  <2> HIDE DEF all
  <2>2. IsFiniteSet(all) /\ Cardinality(all) \in Nat
    BY <1>1, FS_CardinalityType DEF Listing
  <2>3. IsFiniteSet(all \ {pr}) /\ Cardinality(all \ {pr}) = Cardinality(all) - 1
    BY <2>2, FS_RemoveElement
  <2> HIDE DEF above
  <2>4. IsFiniteSet(above(pr)) /\ Cardinality(above(pr)) <= Cardinality(all \ {pr})
    BY <2>1, <2>3, FS_Subset
  <2>5. Cardinality(above(pr)) \in Nat /\ Requests!Cardinality(above(pr)) = Cardinality(above(pr))
    BY <2>4, FS_CardinalityType, SameCount
  <2>6. Limit \in Nat
    BY DEF Requests!PullRequestsAssumption
  <2> HIDE <1>3
  <2>7. Cardinality(all) <= Limit
    BY <1>3
  <2> QED BY <2>2, <2>3, <2>4, <2>5, <2>6, <2>7
<1> HIDE DEF all, above
<1> QED BY <1>1, <1>2, <1>3 DEF all

\* A new pull request has a number of its own.
LEMMA OneMore ==
  ASSUME HubInv, NEW pr \in Requests!Prs, pr.number = Requests!Cardinality(hub) + 1
  PROVE  LET new == hub \union {pr} IN
         /\ new \subseteq Requests!Prs /\ IsFiniteSet(new)
         /\ \A a \in new : a.number <= Cardinality(new)
         /\ \A a, b \in new : a.number = b.number => a = b
<1> DEFINE new == hub \union {pr}
<1>1. pr.number = Cardinality(hub) + 1 /\ Cardinality(hub) \in Nat
  BY SameCount, FS_CardinalityType DEF HubInv
<1>2. pr \notin hub /\ \A a \in hub : a.number < pr.number
  BY <1>1 DEF HubInv, Requests!Prs
<1>3. IsFiniteSet(new) /\ Cardinality(new) = Cardinality(hub) + 1
  BY <1>2, FS_AddElement DEF HubInv
<1>4. \A a \in new : a.number <= Cardinality(new)
  <2>1. \A a \in hub : a.number \in Nat /\ a.number <= Cardinality(hub)
    BY DEF HubInv, Requests!Prs
  <2> QED BY <1>1, <1>3, <2>1
<1>5. \A a, b \in new : a.number = b.number => a = b
  <2>1. \A a \in hub : a.number \in Nat
    BY DEF HubInv, Requests!Prs
  <2> QED BY <1>1, <1>2, <2>1 DEF HubInv
<1> QED BY <1>3, <1>4, <1>5 DEF HubInv

\* One that changes keeps its number.
LEMMA OneChanged ==
  ASSUME HubInv, NEW pr \in hub, NEW next \in Requests!Prs, next.number = pr.number
  PROVE  LET new == (hub \ {pr}) \union {next} IN
         /\ new \subseteq Requests!Prs /\ IsFiniteSet(new)
         /\ \A a \in new : a.number <= Cardinality(new)
         /\ \A a, b \in new : a.number = b.number => a = b
<1> DEFINE rest == hub \ {pr}
           new == rest \union {next}
<1>1. \A a \in rest : a.number # next.number
  BY DEF HubInv
<1>2. next \notin rest
  BY <1>1
<1>3. IsFiniteSet(rest) /\ Cardinality(rest) = Cardinality(hub) - 1 /\ Cardinality(hub) \in Nat
  BY FS_RemoveElement, FS_CardinalityType DEF HubInv
<1>4. IsFiniteSet(new) /\ Cardinality(new) = Cardinality(rest) + 1
  <2> HIDE DEF rest
  <2> QED BY <1>2, <1>3, FS_AddElement
<1>5. \A a \in new : a.number <= Cardinality(new)
  <2>1. Cardinality(new) = Cardinality(hub)
    BY <1>3, <1>4
  <2> HIDE <1>3, <1>4
  <2> QED BY <2>1 DEF HubInv
<1>6. \A a, b \in new : a.number = b.number => a = b
  BY <1>1 DEF HubInv
<1> QED BY <1>4, <1>5, <1>6 DEF HubInv

\* What a step of GitHub's leaves to show.
LEMMA OnTheHub ==
  ASSUME RequestsInv, HubInv',
         github' \in Repos \cup {None}, remotes' \in RemotesSet,
         UNCHANGED <<clock, under, prRows, told>>
  PROVE  RequestsInv'
<1>1. ToldInv'
  BY DEF RequestsInv, ToldInv, RowsOf, Listing
<1>2. \A by \in Requests!By : SyncOf(under[by])' /\ GoneOver(under[by])'
  BY DEF RequestsInv, SyncOf, GoneOver, RowsOf, Listing
<1> QED BY <1>1, <1>2 DEF RequestsInv

LEMMA HubStep ==
  ASSUME RequestsInv, Requests!PullRequestsAssumption,
         \/ \E base, head \in Repos, branch \in Branches : Requests!OpenPr(base, head, branch)
         \/ \E pr \in hub : Requests!ChangePr(pr)
         \/ \E rs \in RemotesSet : Requests!SetRemotes(rs)
         \/ Requests!Detect
  PROVE  RequestsInv'
<1>1. ASSUME NEW base \in Repos, NEW head \in Repos, NEW branch \in Branches, Requests!OpenPr(base, head, branch)
      PROVE  RequestsInv'
  <2> DEFINE pr == [number |-> Requests!Cardinality(hub) + 1, base |-> base, head |-> head,
                    branch |-> branch, state |-> "open", checks |-> {}]
  <2>1. hub' = hub \union {pr} /\ UNCHANGED <<remotes, github, syncs, clock, under, prRows, told>>
    BY <1>1 DEF Requests!OpenPr
  <2>2. pr \in Requests!Prs /\ pr.number = Requests!Cardinality(hub) + 1
    <3>1. Requests!Cardinality(hub) \in Nat
      BY SameCount, FS_CardinalityType DEF RequestsInv, HubInv
    <3> QED BY <3>1 DEF Requests!Prs, Requests!States
  <2> HIDE DEF pr
  <2>3. HubInv'
    BY <2>1, <2>2, OneMore DEF RequestsInv, HubInv
  <2> QED BY <2>1, <2>3, OnTheHub DEF RequestsInv
<1>2. ASSUME NEW pr \in hub, Requests!ChangePr(pr)
      PROVE  RequestsInv'
  <2>1. pr \in Requests!Prs
    BY DEF RequestsInv, HubInv
  <2>2. PICK next : /\ hub' = (hub \ {pr}) \union {next}
                    /\ \/ \E s \in {"open", "closed", "merged"} : next = [pr EXCEPT !.state = s]
                       \/ \E c \in {{"running"}, {"failed", "running"}, {"passed"}} : next = [pr EXCEPT !.checks = c]
    BY <1>2 DEF Requests!ChangePr
  <2>3. next \in Requests!Prs /\ next.number = pr.number
    BY <2>1, <2>2 DEF Requests!Prs, Requests!States
  <2>4. HubInv'
    BY <2>2, <2>3, OneChanged DEF RequestsInv, HubInv
  <2>5. UNCHANGED <<remotes, github, clock, under, prRows, told>>
    BY <1>2 DEF Requests!ChangePr
  <2> QED BY <2>4, <2>5, OnTheHub DEF RequestsInv
<1>3. CASE (\E rs \in RemotesSet : Requests!SetRemotes(rs)) \/ Requests!Detect
  <2>1. UNCHANGED <<hub, clock, under, prRows, told>> /\ remotes' \in RemotesSet
    BY <1>3 DEF Requests!SetRemotes, Requests!Detect, RequestsInv
  <2>2. github' \in Repos \cup {None}
    BY <1>3, IdentityOf DEF Requests!SetRemotes, Requests!Detect, RequestsInv
  <2>3. HubInv'
    BY <2>1 DEF RequestsInv, HubInv
  <2> QED BY <2>1, <2>2, <2>3, OnTheHub
<1> QED BY <1>1, <1>2, <1>3

\* What a sync's beginning, its failure and a creation leave to show.
LEMMA OneSync ==
  ASSUME RequestsInv, HubInv', NEW by \in Requests!By, NEW s,
         under' = [under EXCEPT ![by] = s], SyncOf(s), s.todo # {} /\ Cardinality(s.listed) <= Limit => s.todo = s.listed,
         UNCHANGED <<remotes, github, clock, prRows, told>>
  PROVE  RequestsInv'
<1>1. ToldInv'
  BY DEF RequestsInv, ToldInv, RowsOf, Listing
<1>2. ASSUME NEW k \in Requests!By
      PROVE  SyncOf(under[k])' /\ GoneOver(under[k])'
  <2>1. under'[k] = IF k = by THEN s ELSE under[k]
    BY DEF RequestsInv
  <2>2. CASE k = by
    <3>1. s.todo # {} /\ Cardinality(s.listed) <= Limit => s.listed \ s.todo = {}
      OBVIOUS
    <3> QED BY <2>1, <2>2, <3>1 DEF GoneOver, RowsOf, SyncOf, Listing
  <2>3. CASE k # by
    BY <2>1, <2>3 DEF RequestsInv, GoneOver, RowsOf, SyncOf, Listing
  <2> QED BY <2>2, <2>3
<1>3. under' = [k \in Requests!By |-> under'[k]]
  BY DEF RequestsInv
<1>4. (\A k \in Requests!By : SyncOf(under[k]) /\ GoneOver(under[k]))'
  BY <1>2
<1> QED BY <1>1, <1>3, <1>4 DEF RequestsInv

LEMMA UpsertStep ==
  ASSUME RequestsInv, NEW by \in Requests!By, Requests!upsertPullRequest(by)
  PROVE  RequestsInv'
<1> DEFINE sync == under[by]
           moment == IF sync.now = 0 THEN clock + 1 ELSE sync.now
<1>1. PICK pr \in sync.todo :
        LET row == Requests!mapGhPullRequest(pr, moment)
            over == sync.todo = {pr} IN
        /\ clock' = IF sync.now = 0 THEN moment ELSE clock
        /\ prRows' = [n \in DOMAIN prRows \union {row.number} |-> IF n = row.number THEN row ELSE prRows[n]]
        /\ under' = [k \in Requests!By |->
             IF k # by THEN [under[k] EXCEPT !.crossed = under[k].todo # {}]
             ELSE IF over THEN Requests!NoSyncing ELSE [sync EXCEPT !.todo = @ \ {pr}, !.now = moment]]
        /\ told' = IF over /\ ~sync.crossed THEN sync.listed ELSE {None}
        /\ UNCHANGED <<remotes, github, hub>>
  BY DEF Requests!upsertPullRequest, Requests!Unknown
<1> DEFINE left == [sync EXCEPT !.todo = @ \ {pr}, !.now = moment]
           over == sync.todo = {pr}
<1>2. SyncOf(sync) /\ GoneOver(sync)
  BY DEF RequestsInv
<1>3. /\ left.slug = sync.slug /\ left.todo = sync.todo \ {pr} /\ left.now = moment
      /\ left.listed = sync.listed /\ left.crossed = sync.crossed
      /\ Fields(left)
  <2>1. Fields(sync) /\ left = [sync EXCEPT !.todo = sync.todo \ {pr}, !.now = moment]
    BY <1>2 DEF SyncOf
  <2> HIDE DEF moment, sync, left
  <2> QED BY <2>1 DEF Fields
<1>4. moment \in Nat /\ moment # 0 /\ clock' \in Nat /\ (sync.now # 0 => moment = sync.now)
  BY <1>1, <1>2 DEF RequestsInv, SyncOf
<1>5. /\ pr.number \in DOMAIN prRows' /\ prRows'[pr.number] = Requests!mapGhPullRequest(pr, moment)
      /\ \A n \in DOMAIN prRows : n # pr.number => n \in DOMAIN prRows' /\ prRows'[n] = prRows[n]
  <2>1. Requests!mapGhPullRequest(pr, moment).number = pr.number
    BY DEF Requests!mapGhPullRequest
  <2> DEFINE row == Requests!mapGhPullRequest(pr, moment)
  <2>2. prRows' = [n \in DOMAIN prRows \union {row.number} |-> IF n = row.number THEN row ELSE prRows[n]]
    BY <1>1
  <2> HIDE DEF row, moment, sync
  <2> QED BY <2>1, <2>2 DEF row
<1> HIDE DEF moment, left
\* What the sync has gone over has its rows, and what it writes now.
<1>6. ASSUME ~sync.crossed, Cardinality(sync.listed) <= Limit, NEW a \in sync.listed, a \notin sync.todo \ {pr}
      PROVE  a.number \in DOMAIN prRows' /\ prRows'[a.number] = Requests!mapGhPullRequest(a, moment)
  <2>1. CASE a = pr
    BY <1>5, <2>1
  <2>2. CASE a # pr
    <3>1. a \notin sync.todo /\ pr \in sync.listed /\ sync.todo # {}
      BY <1>1, <1>2, <1>6, <2>2 DEF SyncOf
    <3>2. sync.now # 0 /\ a.number \in DOMAIN prRows /\ prRows[a.number] = Requests!mapGhPullRequest(a, sync.now)
      BY <1>2, <1>6, <3>1 DEF GoneOver, RowsOf
    <3>3. a.number # pr.number
      BY <1>2, <2>2, <3>1 DEF SyncOf, Listing
    <3> QED BY <1>4, <1>5, <3>2, <3>3
  <2> QED BY <2>1, <2>2
<1>7. /\ under' = [k \in Requests!By |-> under'[k]]
      /\ under'[by] = IF over THEN Requests!NoSyncing ELSE left
      /\ \A k \in Requests!By : k # by => under'[k] = [under[k] EXCEPT !.crossed = under[k].todo # {}]
  BY <1>1 DEF left
<1>8. SyncOf(Requests!NoSyncing) /\ Requests!NoSyncing.todo = {}
  BY FS_EmptySet DEF SyncOf, Requests!NoSyncing, Listing, Fields
<1>9. SyncOf(under[by])' /\ GoneOver(under[by])'
  <2>1. CASE over
    <3>1. under'[by] = Requests!NoSyncing
      BY <1>7, <2>1
    <3> QED BY <1>8, <3>1 DEF SyncOf, Listing, GoneOver
  <2>2. CASE ~over
    <3>1. under'[by] = left
      BY <1>7, <2>2
    <3>2. SyncOf(left)
      BY <1>2, <1>3, <1>4 DEF SyncOf
    <3> HIDE DEF sync
    <3>3. ~left.crossed /\ Cardinality(left.listed) <= Limit =>
            \A a \in left.listed \ left.todo :
              a.number \in DOMAIN prRows' /\ prRows'[a.number] = Requests!mapGhPullRequest(a, left.now)
      BY <1>3, <1>6
    <3>4. left.now # 0
      BY <1>3, <1>4
    <3> QED BY <3>1, <3>2, <3>3, <3>4 DEF SyncOf, Listing, GoneOver, RowsOf
  <2> QED BY <2>1, <2>2
<1>10. ASSUME NEW k \in Requests!By, k # by
       PROVE  SyncOf(under[k])' /\ GoneOver(under[k])'
  <2> DEFINE s == under[k]
             new == [s EXCEPT !.crossed = s.todo # {}]
  <2>1. SyncOf(s) /\ under'[k] = new
    BY <1>7, <1>10 DEF RequestsInv
  <2> HIDE DEF s
  <2>2. new.slug = s.slug /\ new.todo = s.todo /\ new.now = s.now /\ new.listed = s.listed /\ Fields(new)
    <3>1. Fields(s) /\ new = [s EXCEPT !.crossed = s.todo # {}]
      BY <2>1 DEF SyncOf
    <3> HIDE DEF new
    <3> QED BY <3>1 DEF Fields
  <2>3. new.crossed = (s.todo # {})
    BY <2>1 DEF SyncOf, Fields
  <2> HIDE DEF new
  <2>4. new.crossed \in BOOLEAN /\ (~new.crossed => new.todo = {})
    BY <2>2, <2>3
  <2>5. SyncOf(new)
    BY <2>1, <2>2, <2>4 DEF SyncOf
  <2> QED BY <2>1, <2>4, <2>5 DEF SyncOf, Listing, GoneOver
<1>11. ToldInv'
  <2>1. CASE over /\ ~sync.crossed
    <3>1. told' = sync.listed /\ Listing(sync.listed) /\ sync.listed # {} /\ sync.todo \ {pr} = {}
      BY <1>1, <1>2, <2>1 DEF SyncOf
    <3> HIDE DEF sync
    <3>2. Cardinality(told') <= Limit =>
            \A a \in told' : a.number \in DOMAIN prRows' /\ prRows'[a.number] = Requests!mapGhPullRequest(a, moment)
      BY <1>6, <2>1, <3>1
    <3> QED BY <1>4, <3>1, <3>2 DEF ToldInv, RowsOf, Listing
  <2>2. CASE ~(over /\ ~sync.crossed)
    <3>1. told' = {None}
      BY <1>1, <2>2
    <3> QED BY <3>1 DEF ToldInv
  <2> QED BY <2>1, <2>2
<1>12. HubInv'
  BY <1>1 DEF RequestsInv, HubInv
<1>13. github' \in Repos \cup {None} /\ remotes' \in RemotesSet
  BY <1>1 DEF RequestsInv
<1> QED BY <1>4, <1>7, <1>9, <1>10, <1>11, <1>12, <1>13 DEF RequestsInv

LEMMA SyncStep ==
  ASSUME RequestsInv, Requests!PullRequestsAssumption, NEW by \in Requests!By,
         (\E slug : Requests!Begin(by, slug)) \/ Requests!SyncFails(by) \/ \E branch \in Branches : by = "create" /\ Requests!Create(branch)
  PROVE  RequestsInv'
<1>0. SyncOf(Requests!NoSyncing) /\ Requests!NoSyncing.todo = {}
  BY FS_EmptySet DEF SyncOf, Requests!NoSyncing, Listing, Fields
<1>1. ASSUME NEW slug, Requests!Begin(by, slug)
      PROVE  RequestsInv'
  <2> DEFINE all == {pr \in hub : pr.base = slug}
             s == [Requests!NoSyncing EXCEPT !.slug = slug, !.todo = Requests!List(slug), !.listed = all]
  <2>1. under' = [under EXCEPT ![by] = s] /\ UNCHANGED <<remotes, github, hub, clock, prRows, told>>
    BY <1>1 DEF Requests!Begin
  <2>2. /\ Listing(all) /\ Requests!List(slug) \subseteq all
        /\ Cardinality(all) <= Limit => Requests!List(slug) = all
    BY AllListed DEF RequestsInv
  <2> HIDE DEF all
  <2>3. s.slug = slug /\ s.todo = Requests!List(slug) /\ s.now = 0 /\ s.listed = all /\ s.crossed \in BOOLEAN /\ Fields(s)
    <3>1. s = [Requests!NoSyncing EXCEPT !.slug = slug, !.todo = Requests!List(slug), !.listed = all]
      OBVIOUS
    <3> HIDE DEF s
    <3> QED BY <3>1 DEF Fields, Requests!NoSyncing
  <2> HIDE DEF s
  <2>4. SyncOf(s) /\ (s.todo # {} /\ Cardinality(s.listed) <= Limit => s.todo = s.listed)
    BY <2>2, <2>3 DEF SyncOf
  <2>5. HubInv'
    BY <2>1 DEF RequestsInv, HubInv
  <2> QED BY <2>1, <2>4, <2>5, OneSync
<1>2. CASE Requests!SyncFails(by)
  <2>1. under' = [under EXCEPT ![by] = Requests!NoSyncing] /\ UNCHANGED <<remotes, github, hub, clock, prRows, told>>
    BY <1>2 DEF Requests!SyncFails
  <2>2. HubInv'
    BY <2>1 DEF RequestsInv, HubInv
  <2> QED BY <1>0, <2>1, <2>2, OneSync
<1>3. ASSUME NEW branch \in Branches, by = "create", Requests!Create(branch)
      PROVE  RequestsInv'
  <2> DEFINE pr == [number |-> Requests!Cardinality(hub) + 1, base |-> github, head |-> github,
                    branch |-> branch, state |-> "open", checks |-> {}]
             s == [Requests!NoSyncing EXCEPT !.slug = github]
  <2>1. /\ hub' = hub \union {pr} /\ under' = [under EXCEPT ![by] = s] /\ github \in Repos
        /\ UNCHANGED <<remotes, github, clock, prRows, told>>
    BY <1>3 DEF Requests!Create, RequestsInv
  <2>2. pr \in Requests!Prs /\ pr.number = Requests!Cardinality(hub) + 1
    <3>1. Requests!Cardinality(hub) \in Nat
      BY SameCount, FS_CardinalityType DEF RequestsInv, HubInv
    <3> QED BY <2>1, <3>1 DEF Requests!Prs, Requests!States
  <2> HIDE DEF pr
  <2>3. HubInv'
    BY <2>1, <2>2, OneMore DEF RequestsInv, HubInv
  <2>4. s.slug = github /\ s.todo = {} /\ s.now = 0 /\ s.listed = {} /\ s.crossed \in BOOLEAN /\ Fields(s)
    <3>1. s = [Requests!NoSyncing EXCEPT !.slug = github]
      OBVIOUS
    <3> HIDE DEF s
    <3> QED BY <3>1 DEF Fields, Requests!NoSyncing
  <2> HIDE DEF s
  <2>5. SyncOf(s) /\ s.todo = {}
    BY <2>4, FS_EmptySet DEF SyncOf, Listing
  <2> QED BY <2>1, <2>3, <2>5, OneSync
<1> QED BY <1>1, <1>2, <1>3

LEMMA RequestsStep ==
  ASSUME RequestsInv, Requests!PullRequestsAssumption, [Requests!Next]_(Requests!vars)
  PROVE  RequestsInv'
<1>0. "push" \in Requests!By /\ "create" \in Requests!By
  BY DEF Requests!By
<1>1. CASE Requests!SyncPushed \/ Requests!ListCreated
  BY <1>0, <1>1, SyncStep DEF Requests!SyncPushed, Requests!ListCreated
<1>2. ASSUME NEW branch \in Branches, Requests!Create(branch)
      PROVE  RequestsInv'
  BY <1>0, <1>2, SyncStep
<1>3. ASSUME NEW by \in Requests!By, Requests!upsertPullRequest(by) \/ Requests!SyncFails(by)
      PROVE  RequestsInv'
  BY <1>3, SyncStep, UpsertStep
<1>4. CASE UNCHANGED Requests!vars
  <2>1. ToldInv'
    BY <1>4 DEF Requests!vars, RequestsInv, ToldInv, RowsOf, Listing
  <2>2. \A by \in Requests!By : SyncOf(under[by])' /\ GoneOver(under[by])'
    BY <1>4 DEF Requests!vars, RequestsInv, SyncOf, GoneOver, RowsOf, Listing
  <2> QED BY <1>4, <2>1, <2>2 DEF Requests!vars, RequestsInv, HubInv
<1> QED BY <1>1, <1>2, <1>3, <1>4, HubStep DEF Requests!Next

\* Of rows under one time the best is the branch's own pull request.
LEMMA ShownIsOwn ==
  ASSUME RequestsInv, Requests!PullRequestsAssumption
  PROVE  Requests!ShowsItsPullRequest
<1> SUFFICES ASSUME told = Requests!Here, Requests!Cardinality(told) <= Limit,
                    DOMAIN prRows \subseteq {pr.number : pr \in told}, NEW branch \in Branches
             PROVE  Requests!SameAs(Requests!pullRequestForBranch(branch), Requests!OnGitHub(branch))
  BY DEF Requests!ShowsItsPullRequest
<1>1. told \subseteq hub /\ hub \subseteq Requests!Prs /\ None \notin told /\ None \notin Requests!Rows
  BY DEF Requests!Here, RequestsInv, HubInv, Requests!PullRequestsAssumption
<1>2. PICK moment \in Nat : RowsOf(told, moment)
  BY <1>1, SameCount DEF RequestsInv, ToldInv
<1> DEFINE own == {pr \in Requests!Here : pr.head = github /\ pr.branch = branch}
           open == {pr \in own : pr.state = "open"}
           T == IF open = {} THEN own ELSE open
           rowOf(pr) == Requests!mapGhPullRequest(pr, moment)
           shown == {row \in Requests!RowSet : row.branch = branch /\ Requests!headInRepository(row)}
           newest == CHOOSE a \in T : \A b \in T : a.number >= b.number
<1>3. \A pr : /\ rowOf(pr).number = pr.number /\ rowOf(pr).head = pr.head /\ rowOf(pr).branch = pr.branch
              /\ rowOf(pr).state = pr.state /\ rowOf(pr).synced = moment
              /\ rowOf(pr).checks = Requests!summarizeChecks(pr.checks)
  BY DEF Requests!mapGhPullRequest
<1>4. \A pr \in Requests!Prs : rowOf(pr) \in Requests!Rows /\ pr.number \in Nat
  <2>1. \A c : Requests!summarizeChecks(c) \in {"none", "failing", "pending", "passing"}
    BY Zenon DEF Requests!summarizeChecks
  <2> QED BY <2>1 DEF Requests!mapGhPullRequest, Requests!Prs, Requests!Rows
<1>5. \A pr \in told : pr.number \in DOMAIN prRows /\ prRows[pr.number] = rowOf(pr)
  BY <1>2 DEF RowsOf
<1>6. \A row \in shown : \E pr \in own : row = rowOf(pr)
  <2> SUFFICES ASSUME NEW row \in shown PROVE \E pr \in own : row = rowOf(pr)
    OBVIOUS
  <2>1. PICK n \in DOMAIN prRows : row = prRows[n]
    BY DEF Requests!RowSet
  <2>2. PICK pr \in told : pr.number = n
    BY <2>1
  <2>3. row = rowOf(pr) /\ row.branch = branch /\ row.head = github
    BY <1>5, <2>1, <2>2 DEF Requests!headInRepository
  <2> HIDE DEF rowOf
  <2> QED BY <1>3, <2>3
<1>7. \A pr \in own : rowOf(pr) \in shown
  <2> SUFFICES ASSUME NEW pr \in own PROVE rowOf(pr) \in shown
    OBVIOUS
  <2>1. rowOf(pr) \in Requests!RowSet
    BY <1>5 DEF Requests!RowSet
  <2> HIDE DEF rowOf
  <2> QED BY <1>3, <2>1 DEF Requests!headInRepository
<1>8. Requests!pullRequestForBranch(branch) =
        IF shown = {} THEN None ELSE CHOOSE a \in shown : \A b \in shown \ {a} : Requests!Better(a, b)
  BY DEF Requests!pullRequestForBranch, Requests!First
<1>9. Requests!OnGitHub(branch) = IF own = {} THEN None ELSE newest
  BY DEF Requests!OnGitHub
<1>10. own \subseteq hub /\ \A a, b \in own : a.number \in Nat /\ (a.number = b.number => a = b)
  BY <1>1, <1>4 DEF Requests!Here, RequestsInv, HubInv
<1> HIDE DEF shown, rowOf
<1>11. CASE own = {}
  <2>1. shown = {}
    BY <1>6, <1>11
  <2> QED BY <1>8, <1>9, <1>11, <2>1 DEF Requests!SameAs
<1>12. CASE own # {}
  <2>1. T # {} /\ T \subseteq own
    BY <1>12
  <2> DEFINE numbers == {a.number : a \in T}
  <2>2. numbers # {} /\ numbers \subseteq 0..Cardinality(hub) /\ Cardinality(hub) \in Nat
    <3>1. Cardinality(hub) \in Nat
      BY FS_CardinalityType DEF RequestsInv, HubInv
    <3>2. \A a \in T : a.number \in Nat /\ a.number <= Cardinality(hub)
      BY <1>10, <2>1 DEF RequestsInv, HubInv
    <3> HIDE DEF T
    <3> QED BY <2>1, <3>1, <3>2
  <2>3. \E a \in T : \A b \in T : a.number >= b.number
    <3> HIDE DEF T
    <3>1. PICK x \in numbers : \A y \in numbers : x >= y
      <4> HIDE DEF numbers
      <4> QED BY <2>2, GreatestNumber
    <3> QED BY <3>1
  <2>4. newest \in T /\ \A b \in T : newest.number >= b.number
    <3> HIDE DEF T
    <3> QED BY <2>3
  <2> HIDE DEF newest, numbers
  <2>5. newest \in own
    BY <2>1, <2>4
  <2>6. ASSUME NEW pr \in own, pr # newest
        PROVE  Requests!Better(rowOf(newest), rowOf(pr)) /\ ~Requests!Better(rowOf(pr), rowOf(newest))
    <3>1. pr.number \in Nat /\ newest.number \in Nat /\ pr.number # newest.number
      BY <1>10, <2>5, <2>6
    <3>2. newest.state = "open" \/ open = {}
      BY <2>4
    <3>3. pr.state # "open" \/ newest.number >= pr.number
      BY <2>4
    <3>4. open = {} => newest.number >= pr.number /\ pr.state # "open" /\ newest.state # "open"
      BY <2>4, <2>5
    <3> HIDE DEF own, open, T
    <3> QED BY <1>3, <3>1, <3>2, <3>3, <3>4 DEF Requests!Better
  <2> HIDE DEF own, T
  <2>7. rowOf(newest) \in shown /\ \A b \in shown \ {rowOf(newest)} :
          Requests!Better(rowOf(newest), b) /\ ~Requests!Better(b, rowOf(newest))
    BY <1>6, <1>7, <2>5, <2>6
  <2>8. (CHOOSE a \in shown : \A b \in shown \ {a} : Requests!Better(a, b)) = rowOf(newest)
    BY <2>7
  <2>9. Requests!pullRequestForBranch(branch) = rowOf(newest) /\ Requests!OnGitHub(branch) = newest
    BY <1>8, <1>9, <1>12, <2>7, <2>8
  <2>10. newest \in Requests!Prs /\ rowOf(newest) # None /\ newest # None
    <3>1. newest \in told
      BY <2>5 DEF own
    <3> QED BY <1>1, <1>4, <3>1
  <2> QED BY <1>3, <2>9, <2>10 DEF Requests!SameAs
<1> QED BY <1>11, <1>12

\* However syncs fail, cross and are interrupted.
LEMMA OwnPullRequests ==
  Requests!Spec => [](Requests!PullRequestsAssumption => Requests!ShowsItsPullRequest)
<1> DEFINE Inv == Requests!PullRequestsAssumption => RequestsInv
<1>1. Requests!Init => RequestsInv
  <2> SUFFICES ASSUME Requests!Init PROVE RequestsInv
    OBVIOUS
  <2>1. HubInv
    BY FS_EmptySet DEF Requests!Init, HubInv
  <2>2. SyncOf(Requests!NoSyncing) /\ GoneOver(Requests!NoSyncing)
    BY FS_EmptySet DEF SyncOf, GoneOver, Requests!NoSyncing, Listing, Fields
  <2>3. ToldInv
    BY DEF ToldInv, Requests!Init, Requests!Unknown
  <2> QED BY <2>1, <2>2, <2>3 DEF RequestsInv, Requests!Init
<1>2. Inv /\ [Requests!Next]_(Requests!vars) => Inv'
  BY RequestsStep
<1>3. Inv => (Requests!PullRequestsAssumption => Requests!ShowsItsPullRequest)
  BY ShownIsOwn
<1> QED BY <1>1, <1>2, <1>3, PTL DEF Requests!Spec

-----------------------------------------------------------------------------
(* The whole.  A step is one of one part, and leaves the variables of the   *)
(* others alone: every behaviour of the whole is a behaviour of each part,  *)
(* so that the whole keeps what its parts keep.                             *)

\* A part takes its step, or its variables are left alone.
RecordsTurn ==
  /\ Distiller!Next \/ UNCHANGED summaryVars
  /\ Titles!Next \/ UNCHANGED titleVars
  /\ Index!Next \/ UNCHANGED indexVars
  /\ Store!Next \/ UNCHANGED storeVars
  /\ Ledger!Next \/ UNCHANGED migrationVars
  /\ Signals!Next \/ UNCHANGED signalVars
  /\ Requests!Next \/ UNCHANGED requestVars

LEMMA RecordSteps ==
  ASSUME [Next]_vars
  PROVE  RecordsTurn
<1>1. CASE Of("transcript", Reader!Next)
  BY <1>1 DEF Of, RecordsTurn
<1>2. CASE Of("cursor", Cursor!Next)
  BY <1>2 DEF Of, RecordsTurn
<1>3. CASE Of("question", Cards!Next)
  BY <1>3 DEF Of, RecordsTurn
<1>4. CASE Of("order", Order!Next)
  BY <1>4 DEF Of, RecordsTurn
<1>5. CASE Of("summary", Distiller!Next)
  BY <1>5 DEF Of, RecordsTurn
<1>6. CASE Of("title", Titles!Next)
  BY <1>6 DEF Of, RecordsTurn
<1>7. CASE Of("search", Index!Next)
  BY <1>7 DEF Of, RecordsTurn
<1>8. CASE Of("store", Store!Next)
  BY <1>8 DEF Of, RecordsTurn
<1>9. CASE Of("migration", Ledger!Next)
  BY <1>9 DEF Of, RecordsTurn
<1>10. CASE Of("signal", Signals!Next)
  BY <1>10 DEF Of, RecordsTurn
<1>11. CASE Of("request", Requests!Next)
  BY <1>11 DEF Of, RecordsTurn
<1>12. CASE UNCHANGED vars
  BY <1>12 DEF vars, RecordsTurn
<1> QED BY <1>1, <1>2, <1>3, <1>4, <1>5, <1>6, <1>7, <1>8, <1>9, <1>10, <1>11, <1>12 DEF Next

LEMMA RecordsBehave ==
  Spec => /\ Distiller!Spec /\ Titles!Spec /\ Index!Spec /\ Store!Spec /\ Ledger!Spec
                 /\ Signals!Spec /\ Requests!Spec
<1>1. [Next]_vars => [Distiller!Next]_(Distiller!vars)
  BY RecordSteps DEF RecordsTurn, summaryVars, Distiller!vars, Distiller!graph
<1>2. [Next]_vars => [Titles!Next]_(Titles!vars)
  BY RecordSteps DEF RecordsTurn, titleVars, Titles!vars
<1>3. [Next]_vars => [Index!Next]_(Index!vars)
  BY RecordSteps DEF RecordsTurn, indexVars, Index!vars
<1>4. [Next]_vars => [Store!Next]_(Store!vars)
  BY RecordSteps DEF RecordsTurn, storeVars, Store!vars
<1>5. [Next]_vars => [Ledger!Next]_(Ledger!vars)
  BY RecordSteps DEF RecordsTurn, migrationVars, Ledger!vars
<1>6. [Next]_vars => [Signals!Next]_(Signals!vars)
  BY RecordSteps DEF RecordsTurn, signalVars, Signals!vars, Signals!rows
<1>7. [Next]_vars => [Requests!Next]_(Requests!vars)
  BY RecordSteps DEF RecordsTurn, requestVars, Requests!vars
<1> QED BY <1>1, <1>2, <1>3, <1>4, <1>5, <1>6, <1>7, PTL
        DEF Spec, Init, Distiller!Spec, Titles!Spec, Index!Spec, Store!Spec, Ledger!Spec,
            Signals!Spec, Requests!Spec

\* However many terminals, hooks and configs there are, a target is bound to a session of
\* the CLI it was launched with, and a hook leaves one event of a type.
THEOREM SignalsStayTrue == Spec => []SignalsAreTrue
<1>1. Signals!SignalsAreTrue => SignalsAreTrue
  BY DEF SignalsAreTrue
<1> QED BY <1>1, RecordsBehave, TrueSignals, PTL

\* Of any number of fibers on the one handle a transaction leaves all of its rows or none,
\* a boot that got through has run what a fresh install runs, and a chat is called what its
\* row says.
THEOREM StoresStaySound == Spec => []StoreIsSound
<1>1. (StoresAssumption => StoreIsSound) => StoreIsSound
  BY RecordsAssumption DEF StoresAssumption
<1> QED BY <1>1, RecordsBehave, SoundStores, PTL

\* Through every write, deletion and migration each row is found by the text it has and by
\* no other, and a distiller answers with a summary that is stored.
THEOREM SearchesFindIt == Spec => []SearchFindsIt
<1>1. (Index!IndexAssumption => SearchFindsIt) => SearchFindsIt
  BY RecordsAssumption
<1> QED BY <1>1, RecordsBehave, FoundSearches, PTL

\* After a sync that nothing crossed a branch shows the pull request it has on GitHub, in
\* its state there and never a fork's, whatever earlier, failed or interrupted syncs have
\* left, as long as gh lists them all and no other repository's rows were there before.
THEOREM PullRequestsStayOwn == Spec => []ShowsItsPullRequest
<1>1. (Requests!PullRequestsAssumption => Requests!ShowsItsPullRequest) => ShowsItsPullRequest
  BY RecordsAssumption DEF ShowsItsPullRequest
<1> QED BY <1>1, RecordsBehave, OwnPullRequests, PTL

=============================================================================
