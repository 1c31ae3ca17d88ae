---------------------------- MODULE ProviderConfig ----------------------------
(***************************************************************************)
(* The files of others that Arc writes itself into: the hook settings of   *)
(* the CLIs in a repository (hooks/install.ts, hooks/cursor-plugin.ts), at *)
(* every launch and resume, and their lists of MCP servers, when somebody  *)
(* runs arc-mcp --write (cli/mcp-config.ts).  A write is of the whole      *)
(* file, made from what was read before; several Arc processes, the user   *)
(* and the CLIs write the same files, and no lock is taken.                *)
(***************************************************************************)
EXTENDS Naturals, Sequences, FiniteSets, FiniteSetsExt

CONSTANTS
  Arcs,      \* Arc processes, each of a profile with a helper of its own
  Mine,      \* commands and servers of the user
  Legacy,    \* the helper's path of an older version
  Listening, \* an Arc process answers at the persistent port of its profile
  MaxBlocks  \* bound on the blocks of an event

HookFiles == {"settings.local.json", "codex hooks.json", "cursor hooks.json"}
McpFiles == {".mcp.json", "config.toml"}
Files == HookFiles \cup McpFiles

Helpers == Arcs \cup {Legacy}
isArcCommand(c) == c \in Helpers

ConfigAssumption == Mine \cap Helpers = {}

\* What Arc registers for, what it must never claim, and the rest.
Events == {"notice", "work", "other"}

\* A block is the set of its commands; an event has blocks by number, in this order,
\* with gaps where one has gone.  The servers of an MCP file are in one block too.
NoBlocks == [e \in Events |-> <<>>]
Absent == [is |-> "absent", of |-> NoBlocks]

VARIABLES
  named,   \* the file this behaviour is about: no step reads two of them
  text,    \* whether it is there and parses, and its blocks
  writing, \* process -> whether it is about to write, and what it read for it
  theirs,  \* what the user has put there, and under which event
  raced,   \* it was written between the read and the write of another
  armed    \* an installation has written it

vars == <<named, text, writing, theirs, raced, armed>>

Idle == [begun |-> FALSE, read |-> Absent]

CommandsOf(blocks) == UNION {blocks[i] : i \in DOMAIN blocks}

\* A file as an older version left it, beside and among the user's commands.
Older(c) == [is |-> "object", of |-> [e \in Events |->
  CASE e = "notice" -> << {c, Legacy}, {Legacy} >>
    [] e = "work" -> << {Legacy} >>
    [] OTHER -> <<>>]]

Init ==
  /\ named \in Files
  /\ \E old \in BOOLEAN, c \in Mine :
       LET left == old /\ named \in HookFiles IN
         /\ text = IF left THEN Older(c) ELSE Absent
         /\ theirs = IF left THEN {<<"notice", c>>} ELSE {}
  /\ writing = [p \in Arcs |-> Idle]
  /\ raced = FALSE /\ armed = FALSE

-----------------------------------------------------------------------------
(* What an installation makes of a file.                                   *)

\* Arc's commands go, one by one; a block that has nothing left goes too.
stripArcFromBlock(b) == {c \in b : ~isArcCommand(c)}
\* (slips: prune the blocks and not their commands; append)
WholeBlocks(blocks) == [i \in {j \in DOMAIN blocks : \A c \in blocks[j] : ~isArcCommand(c)} |-> blocks[i]]
Piled(blocks) == blocks
Pruned(blocks) ==
  LET touched(b) == b # stripArcFromBlock(b)
      stays(b) == ~touched(b) \/ stripArcFromBlock(b) # {}
  IN  [i \in {j \in DOMAIN blocks : stays(blocks[j])} |-> stripArcFromBlock(blocks[i])]
Appended(blocks, b) ==
  LET last == Max(DOMAIN blocks \cup {0})
  IN  [i \in DOMAIN blocks \cup {last + 1} |-> IF i = last + 1 THEN b ELSE blocks[i]]
replaceArcBlock(blocks, p) == Appended(Pruned(blocks), {p})

mergeClaudeHooks(of, p) ==
  [of EXCEPT !["notice"] = replaceArcBlock(@, p), !["work"] = Pruned(@)]
mergeCodexHooks(of, p) == [of EXCEPT !["notice"] = replaceArcBlock(@, p)]

\* Cursor's is written from nothing.
buildCursorHooksJson(p) == [NoBlocks EXCEPT !["notice"] = << {p} >>]

\* The server arc among the others: an object's key, or a section of the TOML.
mergeArcServer(of, p) ==
  [of EXCEPT !["other"] = << {c \in CommandsOf(@) : ~isArcCommand(c)} \cup {p} >>]

Written(of, p) ==
  CASE named = "settings.local.json" -> mergeClaudeHooks(of, p)
    [] named = "codex hooks.json" -> mergeCodexHooks(of, p)
    [] named = "cursor hooks.json" -> buildCursorHooksJson(p)
    [] OTHER -> mergeArcServer(of, p)

\* A file that does not parse is left as it is: the installation has failed, and
\* the launch goes on without.  Two of the files are not parsed.
Unparsed == {"cursor hooks.json", "config.toml"}

Read(p) ==
  /\ ~writing[p].begun /\ (text.is = "garbled" => named \in Unparsed)
  /\ writing' = [writing EXCEPT ![p] = [begun |-> TRUE, read |-> text]]
  /\ UNCHANGED <<named, text, theirs, raced, armed>>

\* installProviderHooks and installCursorHooks, before the CLI is spawned.
Install(p) == named \in HookFiles /\ Read(p)

\* arc-mcp --write: the endpoint that the app published is probed before.
WriteConfig(p) == named \in McpFiles /\ p \in Listening /\ Read(p)

Write(p) ==
  /\ writing[p].begun
  /\ text' = [is |-> IF text.is = "garbled" /\ named = "config.toml" THEN "garbled" ELSE "object",
              of |-> Written(writing[p].read.of, p)]
  /\ writing' = [writing EXCEPT ![p] = Idle]
  /\ armed' = TRUE
  /\ UNCHANGED <<named, theirs, raced>>

-----------------------------------------------------------------------------
(* The user, and the CLIs that keep their own settings in these files.     *)

Edited ==
  /\ raced' = (raced \/ \E p \in Arcs : writing[p].begun)
  /\ UNCHANGED <<named, writing, armed>>

\* A command of one's own, as a block or beside those of a block.
Add(e, c) ==
  /\ text.is # "garbled" /\ c \notin CommandsOf(text.of[e])
  /\ named \in McpFiles => e = "other"
  /\ \/ /\ Cardinality(DOMAIN text.of[e]) < MaxBlocks
        /\ text' = [is |-> "object", of |-> [text.of EXCEPT ![e] = Appended(@, {c})]]
     \/ \E i \in DOMAIN text.of[e] : text' = [text EXCEPT !.of[e][i] = @ \cup {c}]
  /\ theirs' = theirs \cup {<<e, c>>}
  /\ Edited

\* An edit half done: the file does not parse until it is finished.
Garble == text.is = "object" /\ text' = [text EXCEPT !.is = "garbled"] /\ UNCHANGED theirs /\ Edited
Repair == text.is = "garbled" /\ text' = [text EXCEPT !.is = "object"] /\ UNCHANGED theirs /\ Edited

Next ==
  \/ \E p \in Arcs : Install(p) \/ WriteConfig(p) \/ Write(p)
  \/ Garble \/ Repair
  \/ \E e \in Events, c \in Mine : Add(e, c)

Spec == Init /\ [][Next]_vars

-----------------------------------------------------------------------------
(* Properties.                                                             *)

Kept == raced \/ \A t \in theirs : t[2] \in CommandsOf(text.of[t[1]])

\* What the user has in a file that Arc merges itself into stays there, beside
\* whatever older versions and other profiles of Arc left, through any number of
\* installations and while it does not parse (install.ts:43, 138) - unless it is
\* saved between the read and the write of an installation.
TheirsSurvive == named # "cursor hooks.json" => Kept

\* An installation leaves one command of Arc's for the events it registers for,
\* however many were there, and none where the CLI expects an answer from the
\* command (README.md, "leaves no orphaned stack behind"; install.ts:165).
NoOrphans ==
  (armed /\ named \in HookFiles) =>
    LET blocks == text.of["notice"] IN
    /\ Cardinality({i \in DOMAIN blocks : \E c \in blocks[i] : isArcCommand(c)}) = 1
    /\ named = "settings.local.json" => \A c \in CommandsOf(text.of["work"]) : ~isArcCommand(c)

\* What the README says of all three files: the hooks are merged into them.
\* Cursor's is overwritten.
HooksAreMerged == named \in HookFiles => Kept
=============================================================================
