--------------------------- MODULE UserSshConfig ---------------------------
(***************************************************************************)
(* The one file of the user's that Gas Can edits: ~/.ssh/config, where     *)
(* `gascan ssh-config install` and `remove`, and the offer `up` makes,     *)
(* add and take away a three line Include block (gascan/src/ssh_config.rs).*)
(* The file is replaced by exchanging it with a staged one and looking at  *)
(* what came back; what somebody else wrote meanwhile is exchanged back,   *)
(* or kept beside the file under a recovery name.                          *)
(*                                                                         *)
(* Files are objects: a path names one, an exchange swaps the objects of   *)
(* two paths.  An edit of the user's is one step by path, written in place *)
(* or as a new file.  Contents are the edits they carry and the number of  *)
(* Include blocks; a file with two, or with half of one, is refused at the *)
(* read and does not arise here.                                           *)
(***************************************************************************)
EXTENDS Naturals, FiniteSets

CONSTANTS
    Processes,  \* gascan processes that edit the file, one operation each
    Edits,      \* edits the user makes meanwhile
    Existing,   \* whether the file may be there, may be absent: subset of BOOLEAN
    Kills       \* processes may be killed

None == "none"
First == "first"
Objects == Processes \cup Edits \cup {First}
Operations == {"install", "remove", "accept", "decline"}

VARIABLES
    target,     \* the object at ~/.ssh/config, or None
    staging,    \* [Processes -> the object at the process's staging path, or None]
    recovered,  \* the objects kept under recovery names
    contents,   \* [Objects -> [edits, blocks]]
    made,       \* the edits made so far
    receipt,    \* the offer receipt is there
    op,         \* [Processes -> the operation]
    pc,         \* [Processes -> the next step]
    prev        \* [Processes -> what it read: the object and its contents]

vars == <<target, staging, recovered, contents, made, receipt, op, pc, prev>>
files == <<target, staging, recovered, contents>>
rest == <<made, receipt, op>>

Empty == [edits |-> {}, blocks |-> 0]
Nothing == [object |-> None, contents |-> Empty]

Init ==
    /\ \E exists \in Existing : target = IF exists THEN First ELSE None
    /\ staging = [p \in Processes |-> None] /\ recovered = {}
    /\ \E n \in 0 .. 1 : contents = [o \in Objects |-> IF o = First THEN [Empty EXCEPT !.blocks = n] ELSE Empty]
    /\ made = {} /\ receipt = FALSE
    /\ op \in [Processes -> Operations]
    /\ pc = [p \in Processes |-> "new"]
    /\ prev = [p \in Processes |-> Nothing]

Goto(p, label) == pc' = [pc EXCEPT ![p] = label]
Installs(p) == op[p] \in {"install", "accept"}
Answers(p) == op[p] \in {"accept", "decline"}

(* What read_file sees at a path: the object and what is in it.            *)
Seen(object) == IF object = None THEN Nothing ELSE [object |-> object, contents |-> contents[object]]

(* answer_first_use_offer records the answer once its install went well.   *)
Done(p) == IF Answers(p) THEN "receipt" ELSE "ok"

-----------------------------------------------------------------------------
(* first_use_offer: not once the block or the receipt is there.            *)
Offer(p) ==
    /\ pc[p] = "new"
    /\ Goto(p, IF ~Answers(p) THEN "read"
               ELSE IF Seen(target).contents.blocks > 0 \/ receipt THEN "ok" ELSE "asked")
    /\ UNCHANGED <<files, rest, prev>>

Answer(p) ==
    /\ pc[p] = "asked"
    /\ Goto(p, IF op[p] = "accept" THEN "read" ELSE "receipt")
    /\ UNCHANGED <<files, rest, prev>>

(* record_offer_receipt: the same replacement, of a file nobody edits.     *)
Receipt(p) ==
    /\ pc[p] = "receipt"
    /\ receipt' = TRUE
    /\ Goto(p, "ok")
    /\ UNCHANGED <<files, made, op, prev>>

(* Read the file; a block that is there already, or is not, ends it.       *)
Read(p) ==
    /\ pc[p] = "read"
    /\ prev' = [prev EXCEPT ![p] = Seen(target)]
    /\ Goto(p, IF Installs(p) = (Seen(target).contents.blocks > 0) THEN Done(p) ELSE "stage")
    /\ UNCHANGED <<files, rest>>

(* The replacement: the block before what was there, or what was there     *)
(* without the block.                                                      *)
Replacement(p) ==
    [prev[p].contents EXCEPT !.blocks = IF Installs(p) THEN @ + 1 ELSE @ - 1]

Stage(p) ==
    /\ pc[p] = "stage"
    /\ staging' = [staging EXCEPT ![p] = p]
    /\ contents' = [contents EXCEPT ![p] = Replacement(p)]
    /\ Goto(p, "check")
    /\ UNCHANGED <<target, recovered, rest, prev>>

(* An error while the staging file is still, or again, its own.            *)
Abandons(p) == staging' = [staging EXCEPT ![p] = None] /\ Goto(p, "error")

(* Is the file still the one that was read?  Only its identity is asked.   *)
Check(p) ==
    /\ pc[p] = "check"
    /\ IF target = prev[p].object THEN Goto(p, "publish") /\ UNCHANGED staging ELSE Abandons(p)
    /\ UNCHANGED <<target, recovered, contents, rest, prev>>

(* Exchange it, or link it where there was none.                           *)
Publish(p) ==
    /\ pc[p] = "publish"
    /\ IF prev[p].object = None
       THEN IF target = None
            THEN /\ target' = p /\ staging' = [staging EXCEPT ![p] = None]
                 /\ Goto(p, Done(p))
            ELSE Abandons(p) /\ UNCHANGED target
       ELSE IF target = None
            THEN Abandons(p) /\ UNCHANGED target
            ELSE /\ target' = staging[p] /\ staging' = [staging EXCEPT ![p] = target]
                 /\ Goto(p, "observe")
    /\ UNCHANGED <<recovered, contents, rest, prev>>

(* What came back must be what was read, object and contents.              *)
Observe(p) ==
    /\ pc[p] = "observe"
    /\ Goto(p, IF Seen(staging[p]) = prev[p] THEN "confirm" ELSE "rollback?")
    /\ UNCHANGED <<files, rest, prev>>

Confirm(p) ==
    /\ pc[p] = "confirm"
    /\ Goto(p, IF target = p THEN "unlink" ELSE "error")
    /\ UNCHANGED <<files, rest, prev>>

\* Mistake: the previous file is not unlinked.
KeepPrevious(p) ==
    /\ pc[p] = "unlink"
    /\ Goto(p, Done(p))
    /\ UNCHANGED <<files, rest, prev>>

Unlink(p) ==
    /\ pc[p] = "unlink"
    /\ staging' = [staging EXCEPT ![p] = None]
    /\ Goto(p, Done(p))
    /\ UNCHANGED <<target, recovered, contents, rest, prev>>

(* Somebody else's file came back.  It is exchanged back if the target is  *)
(* still the staged file, and kept under a recovery name if it is not.     *)
Own(p, object) == Seen(object) = [object |-> p, contents |-> Replacement(p)]

MayRollBack(p) ==
    /\ pc[p] = "rollback?"
    /\ Goto(p, IF Own(p, target) THEN "rollback" ELSE "preserve")
    /\ UNCHANGED <<files, rest, prev>>

RollBack(p) ==
    /\ pc[p] = "rollback"
    /\ IF target = None
       THEN Goto(p, "error") /\ UNCHANGED <<target, staging>>
       ELSE /\ target' = staging[p] /\ staging' = [staging EXCEPT ![p] = target]
            /\ Goto(p, "rolled back")
    /\ UNCHANGED <<recovered, contents, rest, prev>>

RolledBack(p) ==
    /\ pc[p] = "rolled back"
    /\ IF Own(p, staging[p]) THEN Abandons(p) ELSE Goto(p, "preserve") /\ UNCHANGED staging
    /\ UNCHANGED <<target, recovered, contents, rest, prev>>

Preserve(p) ==
    /\ pc[p] = "preserve"
    /\ recovered' = recovered \cup {staging[p]}
    /\ Abandons(p)
    /\ UNCHANGED <<target, contents, rest, prev>>

Step(p) ==
    \/ Offer(p) \/ Answer(p) \/ Receipt(p)
    \/ Read(p) \/ Stage(p) \/ Check(p) \/ Publish(p) \/ Observe(p) \/ Confirm(p) \/ Unlink(p)
    \/ MayRollBack(p) \/ RollBack(p) \/ RolledBack(p) \/ Preserve(p)

Kill(p) ==
    /\ Kills /\ pc[p] \notin {"new", "ok", "error", "killed"}
    /\ Goto(p, "killed")
    /\ UNCHANGED <<files, rest, prev>>

-----------------------------------------------------------------------------
(* The user: writes the file in place, or a new one over it.               *)
EditInPlace(e) ==
    /\ e \notin made /\ target # None
    /\ made' = made \cup {e}
    /\ contents' = [contents EXCEPT ![target].edits = @ \cup {e}]
    /\ UNCHANGED <<target, staging, recovered, receipt, op, pc, prev>>

EditByRename(e) ==
    /\ e \notin made
    /\ made' = made \cup {e}
    /\ contents' = [contents EXCEPT ![e] = [Seen(target).contents EXCEPT !.edits = @ \cup {e}]]
    /\ target' = e
    /\ UNCHANGED <<staging, recovered, receipt, op, pc, prev>>

Next ==
    \/ \E p \in Processes : Step(p) \/ Kill(p)
    \/ \E e \in Edits : EditInPlace(e) \/ EditByRename(e)

Spec == Init /\ [][Next]_vars

-----------------------------------------------------------------------------
TypeOK ==
    /\ target \in Objects \cup {None}
    /\ staging \in [Processes -> Objects \cup {None}] /\ recovered \subseteq Objects
    /\ contents \in [Objects -> [edits : SUBSET Edits, blocks : 0 .. Cardinality(Processes)]]
    /\ made \subseteq Edits /\ receipt \in BOOLEAN
    /\ \A p \in Processes : pc[p] \in {"new", "ok"} => staging[p] = None

(* Nothing the user wrote is lost: whatever happens between the read and   *)
(* the exchange, and whoever else replaces the file, every edit is in the  *)
(* file or in one kept beside it.                                          *)
NothingIsLost ==
    \A e \in made :
        \E o \in ({target} \cup recovered \cup {staging[p] : p \in Processes}) \ {None} :
            e \in contents[o].edits

(* Installing and removing at once never leaves two blocks, which OpenSSH  *)
(* would read and find_block would refuse for ever after.                  *)
AtMostOneBlock == \A o \in Objects : contents[o].blocks <= 1

(* Success is in the file: when the only process so far reports that it    *)
(* installed or removed the block, the file has it or does not have it,    *)
(* whatever the user edited meanwhile.                                     *)
SuccessIsInTheFile ==
    \A p \in Processes :
        pc[p] = "ok" /\ ~Answers(p) /\ (\A q \in Processes \ {p} : pc[q] = "new")
            => Seen(target).contents.blocks = (IF Installs(p) THEN 1 ELSE 0)
=============================================================================
