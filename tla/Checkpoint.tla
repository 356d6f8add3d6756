----------------------------- MODULE Checkpoint -----------------------------
(***************************************************************************)
(* The agent's way back (agent/checkpoint.ts over core/git.ts): before the *)
(* first write of a period the workspace is stashed, and undo discards     *)
(* what came after and pops the stash.  The repository belongs to the user *)
(* as well, who edits, stages, commits, stashes and pops between any two   *)
(* of the manager's git commands.                                          *)
(*                                                                         *)
(* The workspace is a set of changes: those in the tree, the staged ones   *)
(* among them, those committed and those in stash entries.  A period runs  *)
(* from the taking of a checkpoint until it is reverted or kept; the code  *)
(* does not end it with the turn.  Ignored files and merge conflicts are   *)
(* left out; an undo and a session rebuild are asked for between turns.    *)
(* A session that is replaced, or dropped with its key, takes its manager  *)
(* with it: what that held is handed over, or lost.                        *)
(***************************************************************************)
EXTENDS Naturals, SequencesExt

CONSTANTS
    UserChanges,    \* changes the user makes
    AgentChanges,   \* changes the agent's tools make
    NewFiles,       \* those of them that are in files git does not track yet
    MaxCommits,     \* bound: commits of the user
    MaxStashes      \* bound: stash entries ever made

Changes == UserChanges \cup AgentChanges

ASSUME ChangesAssumption == /\ UserChanges \cap AgentChanges = {}
                            /\ NewFiles \subseteq Changes
ASSUME CheckpointBounds == MaxCommits \in Nat /\ MaxStashes \in Nat

VARIABLES
    tree,       \* the changes in the working tree
    index,      \* the staged ones
    committed,  \* the committed ones
    head,       \* how many commits HEAD is past the start
    stash,      \* the stash list, top first: [id, changes]
    stashes,    \* entries ever made: the next one's identity
    taken,      \* CheckpointManager.taken
    carried,    \* what ensureSession() took from the old manager for the new one
    ensuring,   \* where a tool call stands in ensure(): [at, base]
    reverting,  \* where undo stands in revert(): [at, position]
    session,    \* the host's session: "open", null while "replacing" it or with "none" to replace,
                \* or null while a turn of the one it "outlived" goes on
    before,     \* history: the tree the period began with
    entrusted,  \* history: user changes a checkpoint put away, unless the user took them out
    fresh,      \* history: agent changes of this period still in the tree
    dropped,    \* history: what lost checkpoints since one was taken: a failed "rebuild", a "key" change
    raced       \* history: the user touched the repository inside one of the period's git sequences

repository == <<tree, index, committed, head, stash, stashes>>
history == <<before, entrusted, fresh, raced>>
host == <<session, carried>>
checkpointVars == <<repository, taken, ensuring, reverting, host, dropped, history>>

NoRef == 0
Nothing == [ref |-> NoRef, base |-> MaxCommits + 1]
Idle == [at |-> "idle", base |-> 0]
Settled == [at |-> "idle", position |-> 0]

\* ensure() is between two git commands; so is revert().
Taking == ensuring.at \in {"headRead", "dirty", "pushed"}
Undoing == reverting.at # "idle"
Entry(ref) == {e \in Range(stash) : e.id = ref}
Stashed == UNION {e.changes : e \in Range(stash)}

CheckpointTypeOK ==
    /\ tree \subseteq Changes /\ index \subseteq tree
    /\ committed \subseteq Changes \ tree
    /\ head \in 0..MaxCommits /\ stashes \in 0..MaxStashes
    /\ \A e \in Range(stash) : e.id \in 1..stashes /\ e.changes \subseteq Changes /\ e.changes # {}
    /\ \A i, j \in DOMAIN stash : i # j => stash[i].id # stash[j].id
    /\ taken \in [ref : 0..stashes, base : 0..(MaxCommits + 1)]
    /\ ensuring \in [at : {"idle", "headRead", "dirty", "pushed", "ready"}, base : 0..MaxCommits]
    /\ reverting \in [at : {"idle", "found", "headRead", "checkedOut", "cleaned"}, position : 0..MaxStashes]
    /\ carried \in [ref : 0..stashes, base : 0..(MaxCommits + 1)]
    /\ session \in {"open", "replacing", "none", "outlived"}
    /\ dropped \subseteq {"rebuild", "key"} /\ raced \in BOOLEAN
    /\ before \subseteq Changes /\ entrusted \subseteq UserChanges
    /\ fresh \subseteq AgentChanges

CheckpointInit ==
    /\ tree = {} /\ index = {} /\ committed = {} /\ head = 0
    /\ stash = <<>> /\ stashes = 0
    /\ taken = Nothing /\ ensuring = Idle /\ reverting = Settled
    /\ session = "open" /\ carried = Nothing /\ dropped = {}
    /\ before = {} /\ entrusted = {} /\ fresh = {} /\ raced = FALSE
-----------------------------------------------------------------------------
(* git. *)

\* `git stash push --include-untracked`: with nothing to save, git says so and exits 0.
StashPush(saved) ==
    IF saved = {}
    THEN UNCHANGED <<stash, stashes, tree, index>>
    ELSE /\ stashes' = stashes + 1
         /\ stash' = <<[id |-> stashes + 1, changes |-> saved]>> \o stash
         /\ tree' = tree \ saved
         /\ index' = index \ saved

\* `git stash pop stash@{position - 1}`: the entry goes back to the tree and off the list.
StashPop(position) ==
    /\ tree' = tree \cup stash[position].changes
    /\ stash' = RemoveAt(stash, position)

\* A file git knows: it was there, or the change that makes it is staged.
IsTracked(c) == c \notin NewFiles \/ c \in index

(* What `git checkout -- .` drops: unstaged changes of tracked files.  It  *)
(* restores from the index, so what is staged stays.                       *)
CheckedOut == {c \in tree : IsTracked(c) /\ c \notin index}

\* What `git clean -fd` drops: untracked files.
Cleaned == {c \in tree : ~IsTracked(c)}
-----------------------------------------------------------------------------
(* The manager. *)

(* A tool call that writes asks for a checkpoint first: one that is held   *)
(* serves; otherwise headSha().  A turn goes on with the session it has,   *)
(* whether or not the host still has it.                                   *)
Ensure ==
    /\ ensuring.at = "idle" /\ ~Undoing /\ session \in {"open", "outlived"}
    /\ IF taken # Nothing
       THEN ensuring' = [Idle EXCEPT !.at = "ready"] /\ UNCHANGED <<before, raced>>
       ELSE /\ stashes < MaxStashes
            /\ ensuring' = [at |-> "headRead", base |-> head]
            /\ before' = {} /\ raced' = FALSE
    /\ UNCHANGED <<repository, taken, reverting, host, dropped, entrusted, fresh>>

\* The manager holds a checkpoint.
Take(ref) ==
    /\ taken' = [ref |-> ref, base |-> ensuring.base]
    /\ ensuring' = [ensuring EXCEPT !.at = "ready"]
    /\ dropped' = IF session = "open" THEN {} ELSE dropped

\* snapshot(): a clean tree needs nothing put away.
IsClean ==
    /\ ensuring.at = "headRead"
    /\ \/ /\ tree = {}
          /\ Take(NoRef)
       \/ /\ tree # {}
          /\ ensuring' = [ensuring EXCEPT !.at = "dirty"]
          /\ UNCHANGED <<taken, dropped>>
    /\ UNCHANGED <<repository, reverting, host, history>>

Push ==
    /\ ensuring.at = "dirty"
    /\ StashPush(tree)
    /\ ensuring' = [ensuring EXCEPT !.at = "pushed"]
    /\ before' = tree
    /\ entrusted' = entrusted \cup (tree \cap UserChanges)
    /\ fresh' = {}
    /\ UNCHANGED <<committed, head, taken, reverting, host, dropped, raced>>

(* `git rev-parse stash@{0}`, whatever is on top by now; with an empty     *)
(* list it fails and the tool call with it (CheckpointFailed).             *)
RevParse ==
    /\ ensuring.at = "pushed"
    /\ \/ /\ stash # <<>>
          /\ Take(stash[1].id)
       \/ /\ stash = <<>>
          /\ ensuring' = Idle
          /\ UNCHANGED <<taken, dropped>>
    /\ UNCHANGED <<repository, reverting, host, history>>

\* The tool runs, and writes or changes nothing.
RunTool ==
    /\ ensuring.at = "ready"
    /\ \E written \in {{}} \cup {{c} : c \in AgentChanges \ (tree \cup committed \cup Stashed)} :
           /\ tree' = tree \cup written
           /\ fresh' = fresh \cup written
    /\ ensuring' = Idle
    /\ UNCHANGED <<index, committed, head, stash, stashes, taken, reverting, host, dropped, before, entrusted, raced>>

\* Mutant of Undo: restore() pops before it discards.
UndoPopsFirst ==
    /\ ensuring.at = "idle" /\ ~Undoing /\ session = "open"
    /\ taken # Nothing
    /\ \/ /\ taken.ref = NoRef
          /\ UNCHANGED <<tree, stash>>
       \/ \E k \in DOMAIN stash : stash[k].id = taken.ref /\ StashPop(k)
    /\ reverting' = [at |-> "found", position |-> 0]
    /\ UNCHANGED <<index, committed, head, stashes, taken, ensuring, host, dropped, history>>

(* revert(): nothing held is nothing to undo; a stash that is no longer in *)
(* the list ends it with an error, the checkpoint still held.              *)
Undo ==
    /\ ensuring.at = "idle" /\ ~Undoing /\ session = "open"
    /\ taken # Nothing
    /\ \/ /\ taken.ref = NoRef
          /\ reverting' = [at |-> "found", position |-> 0]
       \/ \E k \in DOMAIN stash : /\ stash[k].id = taken.ref
                                  /\ reverting' = [at |-> "found", position |-> k]
    /\ UNCHANGED <<repository, taken, ensuring, host, dropped, history>>

\* discardTo(): a HEAD that moved since the checkpoint refuses the undo.
CheckHead ==
    /\ reverting.at = "found"
    /\ reverting' = IF head = taken.base THEN [reverting EXCEPT !.at = "headRead"] ELSE Settled
    /\ UNCHANGED <<repository, taken, ensuring, host, dropped, history>>

Checkout ==
    /\ reverting.at = "headRead"
    /\ tree' = tree \ CheckedOut
    /\ fresh' = fresh \ CheckedOut
    /\ reverting' = [reverting EXCEPT !.at = "checkedOut"]
    /\ UNCHANGED <<index, committed, head, stash, stashes, taken, ensuring, host, dropped, before, entrusted, raced>>

\* Mutant of Clean: no git clean.
CleanForgotten ==
    /\ reverting.at = "checkedOut"
    /\ reverting' = [reverting EXCEPT !.at = "cleaned"]
    /\ UNCHANGED <<repository, taken, ensuring, host, dropped, history>>

Clean ==
    /\ reverting.at = "checkedOut"
    /\ tree' = tree \ Cleaned
    /\ fresh' = fresh \ Cleaned
    /\ reverting' = [reverting EXCEPT !.at = "cleaned"]
    /\ UNCHANGED <<index, committed, head, stash, stashes, taken, ensuring, host, dropped, before, entrusted, raced>>

(* The entry is popped by the position it was found at, and the checkpoint *)
(* is forgotten; a position past the end of the list is an error.          *)
Pop ==
    /\ reverting.at = "cleaned"
    /\ \/ /\ reverting.position = 0
          /\ taken' = Nothing /\ fresh' = {}
          /\ UNCHANGED <<tree, stash>>
       \/ /\ reverting.position \in DOMAIN stash
          /\ StashPop(reverting.position)
          /\ taken' = Nothing /\ fresh' = {}
       \/ /\ reverting.position > Len(stash)
          /\ UNCHANGED <<tree, stash, taken, fresh>>
    /\ reverting' = Settled
    /\ UNCHANGED <<index, committed, head, stashes, ensuring, host, dropped, before, entrusted, raced>>

\* keep(): the checkpoint is forgotten, the tree stays.
Keep ==
    /\ ensuring.at = "idle" /\ ~Undoing /\ session = "open"
    /\ taken # Nothing
    /\ taken' = Nothing
    /\ fresh' = {}
    /\ UNCHANGED <<repository, ensuring, reverting, host, dropped, before, entrusted, raced>>

\* Mutant of Rebuild: the checkpoint is not read before the session is dropped.
RebuildAfresh ==
    /\ ensuring.at = "idle" /\ ~Undoing /\ session = "open"
    /\ session' = "replacing"
    /\ taken' = Nothing
    /\ UNCHANGED <<repository, carried, ensuring, reverting, dropped, history>>

(* A mode or model change replaces the session: the old one's checkpoint   *)
(* is read into a local variable and the session is null, old manager and  *)
(* all, while the host asks for the new model's limits, abilities,         *)
(* commands and tools and opens the new one.                               *)
Rebuild ==
    /\ ensuring.at = "idle" /\ ~Undoing /\ session = "open"
    /\ session' = "replacing"
    /\ carried' = taken
    /\ taken' = Nothing
    /\ UNCHANGED <<repository, ensuring, reverting, dropped, history>>

\* The new session's manager adopts what was read.
Adopt ==
    /\ session = "replacing"
    /\ session' = "open"
    /\ taken' = carried
    /\ carried' = Nothing
    /\ UNCHANGED <<repository, ensuring, reverting, dropped, history>>

\* One of those awaits throws: the session stays null, the variable is gone.
RebuildFails ==
    /\ session = "replacing"
    /\ session' = "none"
    /\ carried' = Nothing
    /\ dropped' = IF carried = Nothing THEN dropped ELSE dropped \cup {"rebuild"}
    /\ UNCHANGED <<repository, taken, ensuring, reverting, history>>

(* reset(): another key.  The host forgets the session, whose turn, if one *)
(* is running, goes on.  A replacement under way is not stopped by it.     *)
KeyChange ==
    /\ session = "open"
    /\ session' = "outlived"
    /\ dropped' = dropped \cup {"key"}
    /\ UNCHANGED <<repository, taken, carried, ensuring, reverting, history>>

\* The next turn finds no session, and opens one that has nothing to adopt.
OpenAfresh ==
    /\ ensuring.at = "idle" /\ ~Undoing /\ session \in {"none", "outlived"}
    /\ session' = "open"
    /\ taken' = Nothing
    /\ UNCHANGED <<repository, carried, ensuring, reverting, dropped, history>>
-----------------------------------------------------------------------------
(* The user, at any moment. *)

Meddle == /\ raced' = (raced \/ Taking \/ Undoing)
          /\ UNCHANGED <<taken, ensuring, reverting, host, dropped, before>>

Edit ==
    /\ \E c \in UserChanges \ (tree \cup committed \cup Stashed) : tree' = tree \cup {c}
    /\ Meddle
    /\ UNCHANGED <<index, committed, head, stash, stashes, entrusted, fresh>>

Stage ==
    /\ \E c \in tree \ index : index' = index \cup {c}
    /\ Meddle
    /\ UNCHANGED <<tree, committed, head, stash, stashes, entrusted, fresh>>

Commit ==
    /\ head < MaxCommits
    /\ \E cs \in (SUBSET tree) \ {{}} :
           /\ committed' = committed \cup cs
           /\ tree' = tree \ cs
           /\ index' = index \ cs
           /\ fresh' = fresh \ cs
    /\ head' = head + 1
    /\ Meddle
    /\ UNCHANGED <<stash, stashes, entrusted>>

UserStashes ==
    /\ tree # {}
    /\ stashes + (IF Taking THEN 1 ELSE 0) < MaxStashes  \* the bound leaves ensure() its entry
    /\ StashPush(tree)
    /\ fresh' = {}
    /\ Meddle
    /\ UNCHANGED <<committed, head, entrusted>>

UserPops ==
    /\ \E k \in DOMAIN stash : StashPop(k) /\ entrusted' = entrusted \ stash[k].changes
    /\ Meddle
    /\ UNCHANGED <<index, committed, head, stashes, fresh>>

CheckpointNext ==
    \/ Ensure \/ IsClean \/ Push \/ RevParse \/ RunTool
    \/ Undo \/ CheckHead \/ Checkout \/ Clean \/ Pop
    \/ Keep \/ Rebuild \/ Adopt \/ RebuildFails \/ KeyChange \/ OpenAfresh
    \/ Edit \/ Stage \/ Commit \/ UserStashes \/ UserPops

CheckpointSpec == CheckpointInit /\ [][CheckpointNext]_checkpointVars
-----------------------------------------------------------------------------
(* Properties. *)

(* What a checkpoint put away of the user's work is in the tree, in a      *)
(* stash entry or in a commit for ever after, wherever between the git     *)
(* commands the user stashes, pops, commits or edits: the order            *)
(* find, discard, pop of restore() (git.ts:331-342).                       *)
UserWorkKept == entrusted \subseteq tree \cup committed \cup Stashed

\* The host's undo finds a checkpoint, or will once the session is replaced.
Held == \/ session = "open" /\ taken # Nothing
        \/ session = "replacing" /\ carried # Nothing

(* While work the agent did in this period is in the tree, a checkpoint is *)
(* held that undo can start from, also when the session is rebuilt         *)
(* (agentHost.ts:756-770) and after an undo that was refused - unless a    *)
(* rebuild failed or the key changed since it was taken (:385-387,         *)
(* :779-795).                                                              *)
AgentWorkUndoableUnlessDropped == fresh # {} => Held \/ dropped # {}

(* An undo nobody raced ends with the tree the period began with and, of   *)
(* everything since, only what was staged: git checkout restores from the  *)
(* index (git.ts:277-299).                                                 *)
UndoRestoresUnstaged ==
    [][Pop /\ taken' = Nothing /\ ~raced => tree' = before \cup index]_checkpointVars
=============================================================================
