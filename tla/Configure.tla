----------------------------- MODULE Configure -----------------------------
(*****************************************************************************)
(* Developer onboarding: `gascan configure`, its focused forms `git`, `gh`   *)
(* and `glab`, and the offer that follows a successful `gascan up`.          *)
(*                                                                           *)
(* A command is a sequence of prompts and of programs run in the guest:      *)
(* the developer-home helper, the forge's own client, and ssh.  Several      *)
(* commands may run at once, from several terminals.  Every guest program    *)
(* is one step.  Its session may break, so that the command sees an error    *)
(* whether or not the program did its work.                                  *)
(*****************************************************************************)
EXTENDS FiniteSets, Integers

CONSTANTS
    Commands,      \* invocations of the command line, each used once
    Kinds,         \* the forms of the command the instance explores
    People,        \* Git identities a user may enter
    Faults,        \* how many guest programs may fail or lose their answer
    HelperHalf     \* may the helper fail between the key and the Git config?

VARIABLES
    home,      \* what the helper keeps in the guest: key, Git config, receipt
    login,     \* per forge, the protocol its client is logged in with
    account,   \* per forge, the roles the sandbox's key is registered under
    networked, \* does the sandbox have a default route?
    run,       \* the commands
    faults     \* faults still to come

world == <<home, login, account>>
vars == <<home, login, account, networked, run, faults>>

Forges == {"github", "gitlab"}
Protocols == {"ssh", "https"}
Roles == {"auth", "sign"}
Focused == {"github", "gitlab"}
Setups == [who: People, protocol: Protocols]
NoGit == [who |-> "nobody", protocol |-> "none"]

(* A forge section that has not run, and the command before it is invoked.   *)
Untouched == [result |-> "none", auth |-> "skipped", sign |-> "skipped"]
Idle == [pc |-> "idle", kind |-> "none", git |-> NoGit, want |-> NoGit,
         forge |-> "github", section |-> [f \in Forges |-> Untouched],
         hosted |-> FALSE, outcome |-> "none", clean |-> TRUE, alone |-> TRUE]

Init ==
    /\ home = [key |-> FALSE, git |-> NoGit, receipt |-> "pending", hosts |-> {}]
    /\ login = [f \in Forges |-> "none"]
    /\ account = [f \in Forges |-> {}]
    /\ networked \in BOOLEAN
    /\ run = [c \in Commands |-> Idle]
    /\ faults = Faults

Active(c) == run[c].pc \notin {"idle", "done"}

At(r, pc) == [r EXCEPT !.pc = pc]
End(r, outcome) == [r EXCEPT !.pc = "done", !.outcome = outcome]
Spoiled(r) == [r EXCEPT !.clean = FALSE]

(* The command goes on as r with nothing in the guest changed.               *)
Continue(c, r) ==
    /\ run' = [run EXCEPT ![c] = r]
    /\ UNCHANGED <<world, networked, faults>>

(* A guest program that answered: its effect, and the command's next state.  *)
Answered(c, effect, r) ==
    /\ effect
    /\ run' = [run EXCEPT ![c] = r]
    /\ UNCHANGED <<networked, faults>>

(* One that could not be run, exited with an error, or whose session broke   *)
(* before or after the program did its work.                                 *)
Broken(c, effect, r) ==
    /\ faults > 0
    /\ faults' = faults - 1
    /\ effect \/ UNCHANGED world
    /\ run' = [run EXCEPT ![c] = Spoiled(r)]
    /\ UNCHANGED networked

Quiet == UNCHANGED world
SetHome(h) == home' = h /\ UNCHANGED <<login, account>>

----------------------------------------------------------------------------
(* Invocation.  The offer asks the receipt first, the others the status.     *)

Invoke(c, kind, protocol) ==
    LET busy == {d \in Commands : Active(d)} IN
    /\ run[c].pc = "idle"
    /\ run' = [d \in Commands |->
         IF d = c
         THEN [Idle EXCEPT !.pc = IF kind = "offer" THEN "receipt" ELSE "status",
                           !.kind = kind, !.alone = busy = {},
                           !.forge = IF kind \in Focused THEN kind ELSE "github",
                           !.want = [NoGit EXCEPT !.protocol = protocol]]
         ELSE IF d \in busy THEN [run[d] EXCEPT !.alone = FALSE] ELSE run[d]]
    /\ UNCHANGED <<world, networked, faults>>

ReadReceipt(c) ==
    LET r == run[c] IN
    /\ r.pc = "receipt"
    /\ \/ Answered(c, Quiet, IF home.receipt = "pending" THEN At(r, "offer")
                             ELSE End(r, home.receipt))
       \/ Broken(c, Quiet, End(r, "error"))

AnswerOffer(c) ==
    LET r == run[c] IN
    /\ r.pc = "offer"
    /\ \/ Continue(c, At(r, "status"))
       \/ Continue(c, At(r, "decline"))
       \/ Continue(c, End(r, "cancelled"))
       \/ Continue(c, Spoiled(End(r, "error")))

Decline(c) ==
    LET r == run[c] IN
    /\ r.pc = "decline"
    /\ \/ Answered(c, SetHome([home EXCEPT !.receipt = "declined"]), End(r, "declined"))
       \/ Broken(c, SetHome([home EXCEPT !.receipt = "declined"]), End(r, "error"))

----------------------------------------------------------------------------
(* Git identity and key.                                                     *)

(* Where a command goes once it has a Git setup.                             *)
AfterGit(r) ==
    IF r.kind = "git" THEN End(r, "completed")
    ELSE IF r.kind \in Focused THEN At(r, "credential")
    ELSE At(r, "route")

\* Mistake: a focused command takes its own request for the guest's setup.
CurrentGitSetupAsWanted(r) ==
    IF home.key /\ home.git # NoGit
    THEN IF r.kind \notin Focused THEN At([r EXCEPT !.git = home.git], "choose")
         ELSE AfterGit([r EXCEPT !.git = r.want])
    ELSE At(r, "choose")

(* A focused forge command needs a Git setup, and changes its protocol to    *)
(* the one it was given.                                                     *)
FocusedGit(r) ==
    IF r.git = NoGit THEN End(r, "unready")
    ELSE IF r.git.protocol = r.want.protocol THEN AfterGit(r)
    ELSE At([r EXCEPT !.want.who = r.git.who], "mutate")

(* `current_git_setup`: all of the identity, the protocol and the key, or    *)
(* none of them.  Anything between is an error.                              *)
CurrentGitSetup(r) ==
    LET s == [r EXCEPT !.git = home.git] IN
    IF home.key # (home.git # NoGit) THEN End(r, "error")
    ELSE IF r.kind \in Focused THEN FocusedGit(s)
    ELSE At(s, "choose")

ReadStatus(c) ==
    /\ run[c].pc = "status"
    /\ \/ Answered(c, Quiet, CurrentGitSetup(run[c]))
       \/ Broken(c, Quiet, End(run[c], "error"))

(* Values typed in.  Typing what is already there changes nothing.           *)
GitValues(r, s) == IF s = r.git THEN AfterGit(r) ELSE At([r EXCEPT !.want = s], "mutate")

(* Keep the current setup, take the host's identity with SSH, or type one.   *)
ChooseGit(c) ==
    LET r == run[c] IN
    /\ r.pc = "choose"
    /\ \/ r.git # NoGit /\ Continue(c, AfterGit(r))
       \/ \E who \in People : r.git = NoGit /\
             Continue(c, At([r EXCEPT !.want = [who |-> who, protocol |-> "ssh"]], "mutate"))
       \/ \E s \in Setups : Continue(c, GitValues(r, s))
       \/ Continue(c, End(r, "cancelled"))
       \/ Continue(c, Spoiled(End(r, "error")))

(* The helper makes a key if there is none, then publishes the Git config.   *)
HelperGit(c) ==
    LET r == run[c]
        both == [home EXCEPT !.key = TRUE, !.git = r.want] IN
    /\ r.pc = "mutate"
    /\ \/ Answered(c, SetHome(both), At(r, "check"))
       \/ Broken(c, SetHome(both), End(r, "error"))
       \/ HelperHalf /\ Broken(c, SetHome([home EXCEPT !.key = TRUE]), End(r, "error"))

CheckGit(c) ==
    LET r == run[c] IN
    /\ r.pc = "check"
    /\ \/ Answered(c, Quiet, IF home.key /\ home.git = r.want
                             THEN AfterGit([r EXCEPT !.git = r.want])
                             ELSE End(r, "error"))
       \/ Broken(c, Quiet, End(r, "error"))

Route(c) ==
    LET r == run[c] IN
    /\ r.pc = "route"
    /\ \/ Answered(c, Quiet, IF networked THEN At(r, "credential") ELSE End(r, "partial"))
       \/ Broken(c, Quiet, End(r, "partial"))

----------------------------------------------------------------------------
(* One forge section.                                                        *)

Section(r) == r.section[r.forge]
Mark(r, s) == [r EXCEPT !.section[r.forge] = s]

(* After a section: the other forge, then the receipt, or the end.           *)
Failed(r) == \E f \in Forges : r.section[f].result = "failed"

AfterForge(r) ==
    IF r.kind \in Focused
    THEN End(r, IF Failed(r) THEN "partial" ELSE "completed")
    ELSE IF r.forge = "github"
    THEN At([r EXCEPT !.forge = "gitlab", !.hosted = FALSE], "credential")
    ELSE IF Failed(r) THEN End(r, "partial") ELSE At(r, "complete")

(* Section s is over with this result.                                       *)
Close(r, s, result) == AfterForge(Mark(r, [s EXCEPT !.result = result]))

(* An account found on the host, a token typed in, or a section skipped.     *)
(* A focused command has no choice to skip.                                  *)
Credential(c) ==
    LET r == run[c] IN
    /\ r.pc = "credential"
    /\ \/ Continue(c, At(r, "login"))
       \/ r.kind \notin Focused /\ Continue(c, Close(r, Section(r), "skipped"))
       \/ Continue(c, End(r, "cancelled"))
       \/ Continue(c, Spoiled(End(r, "error")))

(* A program that must reach the forge.  Offline it always fails.            *)
Reaching(c, effect, good, bad) ==
    \/ networked /\ Answered(c, effect, good)
    \/ networked /\ Broken(c, effect, bad)
    \/ ~networked /\ Continue(c, Spoiled(bad))

Login(c) ==
    LET r == run[c] IN
    /\ r.pc = "login"
    /\ Reaching(c, login' = [login EXCEPT ![r.forge] = r.git.protocol]
                   /\ UNCHANGED <<home, account>>,
                At(r, "verify"), Close(r, Section(r), "failed"))

(* The native status must name one active account with this protocol.        *)
VerifyLogin(c) ==
    LET r == run[c] IN
    /\ r.pc = "verify"
    /\ IF login[r.forge] = r.git.protocol
       THEN Reaching(c, Quiet, At(r, "list"), Close(r, Section(r), "failed"))
       ELSE Continue(c, Close(r, Section(r), "failed"))

(* What to do for a role that is not registered, or the SSH check.           *)
AfterList(r) ==
    LET s == Section(r) IN
    IF s.auth = "skipped" /\ r.git.protocol = "ssh" THEN At(r, "host")
    ELSE IF s.auth = "skipped" THEN At(r, "register")
    ELSE IF s.sign = "skipped" THEN At(r, "sign")
    ELSE At(r, "ssh")

(* GitHub keeps two lists of keys, and either may be unreadable.             *)
GitHubListed(c) ==
    LET r == run[c]
        seen(role, readable) == IF ~readable THEN "failed"
                                ELSE IF role \in account["github"] THEN "existing"
                                ELSE "skipped"
        with(a, b) == AfterList(Mark(r, [Section(r) EXCEPT !.auth = seen("auth", a),
                                                           !.sign = seen("sign", b)])) IN
    \/ networked /\ Answered(c, Quiet, with(TRUE, TRUE))
    \/ networked /\ \E a, b \in BOOLEAN : ~(a /\ b) /\ Broken(c, Quiet, with(a, b))
    \/ ~networked /\ Continue(c, Spoiled(with(FALSE, FALSE)))

(* GitLab keeps one, whose entries carry a usage.  A key registered for one  *)
(* usage only is not registered again.                                       *)
GitLabListed(c) ==
    LET r == run[c]
        have == account["gitlab"]
        seen(role) == IF have = {} THEN "skipped"
                      ELSE IF role \in have THEN "existing" ELSE "failed"
        both(a, b) == AfterList(Mark(r, [Section(r) EXCEPT !.auth = a, !.sign = b])) IN
    Reaching(c, Quiet, both(seen("auth"), seen("sign")), both("failed", "failed"))

ListKeys(c) ==
    /\ run[c].pc = "list"
    /\ IF run[c].forge = "github" THEN GitHubListed(c) ELSE GitLabListed(c)

(* The helper's ssh-host: refused unless Git is configured for SSH.          *)
HelperSshHost(c, good, bad) ==
    LET more == [home EXCEPT !.hosts = @ \cup {run[c].forge}] IN
    \/ /\ home.key /\ home.git.protocol = "ssh"
       /\ Answered(c, SetHome(more), good) \/ Broken(c, SetHome(more), bad)
    \/ /\ ~(home.key /\ home.git.protocol = "ssh")
       /\ Continue(c, bad)

(* A registration that fails: GitHub's signing role is still tried.          *)
NotRegistered(r) ==
    IF r.forge = "gitlab"
    THEN At(Mark(r, [Section(r) EXCEPT !.auth = "failed", !.sign = "failed"]), "ssh")
    ELSE LET s == [Section(r) EXCEPT !.auth = "failed"] IN
         At(Mark(r, s), IF s.sign = "skipped" THEN "sign" ELSE "ssh")

HostForKey(c) ==
    LET r == run[c] IN
    /\ r.pc = "host"
    /\ HelperSshHost(c, At([r EXCEPT !.hosted = TRUE], "register"), NotRegistered(r))

(* The forge refuses a key it already holds under the role (external).       *)
Posted(c, roles, good, bad) ==
    LET f == run[c].forge IN
    IF roles \cap account[f] # {} THEN Continue(c, bad)
    ELSE Reaching(c, account' = [account EXCEPT ![f] = @ \cup roles]
                     /\ UNCHANGED <<home, login>>, good, bad)

RegisterGitHub(c) ==
    LET r == run[c]
        s == [Section(r) EXCEPT !.auth = "added"] IN
    /\ r.pc = "register" /\ r.forge = "github"
    /\ Posted(c, {"auth"}, At(Mark(r, s), IF s.sign = "skipped" THEN "sign" ELSE "ssh"),
              NotRegistered(r))

(* GitLab takes one key for both usages.                                     *)
RegisterGitLab(c) ==
    LET r == run[c] IN
    /\ r.pc = "register" /\ r.forge = "gitlab"
    /\ Posted(c, Roles, At(Mark(r, [Section(r) EXCEPT !.auth = "added", !.sign = "added"]), "ssh"),
              NotRegistered(r))

RegisterSigning(c) ==
    LET r == run[c]
        with(state) == At(Mark(r, [Section(r) EXCEPT !.sign = state]), "ssh") IN
    /\ r.pc = "sign"
    /\ Posted(c, {"sign"}, with("added"), with("failed"))

(* A registration failure outranks an SSH failure in the message.            *)
Verdict(r, reached) ==
    LET s == Section(r) IN
    Close(r, s, IF "failed" \in {s.auth, s.sign} \/ ~reached THEN "failed" ELSE "setup")

(* `verify_ssh`: only for SSH and a registered key.  The host stanza comes   *)
(* first unless registering has already added it.                            *)
VerifySsh(c) ==
    LET r == run[c]
        wanted == r.git.protocol = "ssh" /\ Section(r).auth \in {"existing", "added"} IN
    /\ r.pc = "ssh"
    /\ IF ~wanted THEN Continue(c, Verdict(r, TRUE))
       ELSE IF r.hosted THEN Continue(c, At(r, "reach"))
       ELSE HelperSshHost(c, At(r, "reach"), Verdict(r, FALSE))

ReachSsh(c) ==
    LET r == run[c] IN
    /\ r.pc = "reach"
    /\ IF "auth" \in account[r.forge] /\ r.forge \in home.hosts
       THEN Reaching(c, Quiet, Verdict(r, TRUE), Verdict(r, FALSE))
       ELSE Continue(c, Verdict(r, FALSE))

CompleteReceipt(c) ==
    LET r == run[c]
        receipt == SetHome([home EXCEPT !.receipt = "complete"]) IN
    /\ r.pc = "complete"
    /\ Answered(c, receipt, End(r, "completed")) \/ Broken(c, receipt, End(r, "error"))

----------------------------------------------------------------------------
Step(c) ==
    \/ ReadReceipt(c) \/ AnswerOffer(c) \/ Decline(c)
    \/ ReadStatus(c) \/ ChooseGit(c) \/ HelperGit(c) \/ CheckGit(c) \/ Route(c)
    \/ Credential(c) \/ Login(c) \/ VerifyLogin(c) \/ ListKeys(c)
    \/ HostForKey(c) \/ RegisterGitHub(c) \/ RegisterGitLab(c) \/ RegisterSigning(c)
    \/ VerifySsh(c) \/ ReachSsh(c) \/ CompleteReceipt(c)

Next ==
    \/ \E c \in Commands, kind \in Kinds :
          \E protocol \in IF kind \in Focused THEN Protocols ELSE {"ssh"} :
             Invoke(c, kind, protocol)
    \/ \E c \in Commands : Step(c)

Spec == Init /\ [][Next]_vars

----------------------------------------------------------------------------
Pcs == {"idle", "receipt", "offer", "decline", "status", "choose", "mutate", "check",
        "route", "credential", "login", "verify", "list", "host", "register", "sign",
        "ssh", "reach", "complete", "done"}
States == {"skipped", "existing", "added", "failed"}

(* The types of the guest's state, of the forges and of every command.       *)
TypeOK ==
    /\ home \in [key: BOOLEAN, git: Setups \cup {NoGit}, hosts: SUBSET Forges,
                 receipt: {"pending", "complete", "declined"}]
    /\ login \in [Forges -> Protocols \cup {"none"}]
    /\ account \in [Forges -> SUBSET Roles]
    /\ faults \in 0..Faults
    /\ \A c \in Commands :
          /\ run[c].pc \in Pcs
          /\ run[c].git \in Setups \cup {NoGit}
          /\ \A f \in Forges : run[c].section[f].auth \in States
                             /\ run[c].section[f].sign \in States

(* A forge section that `configure_forge` reports as set up is set up: the   *)
(* client is logged in, the forge holds the sandbox's key for authentication *)
(* and for signing, and with the SSH protocol the managed SSH config names   *)
(* the host.  Lost answers and other commands do not change that.            *)
SuccessIsReal ==
    \A c \in Commands, f \in Forges :
        run[c].section[f].result = "setup" =>
            /\ home.key
            /\ login[f] # "none"
            /\ account[f] = Roles
            /\ run[c].git.protocol = "ssh" => f \in home.hosts

(* The completed receipt is written only by a whole guide: Git is            *)
(* configured, and one command saw every forge section either set up or      *)
(* skipped by the user.                                                      *)
ReceiptIsEarned ==
    home.receipt = "complete" =>
        /\ home.key /\ home.git # NoGit
        /\ \E c \in Commands :
              /\ run[c].kind \in {"offer", "all"}
              /\ \A f \in Forges : run[c].section[f].result \in {"setup", "skipped"}

(* Whatever earlier commands left behind, a command that runs alone, is      *)
(* answered sensibly and meets no fault of its own does not fail: partial    *)
(* work is retained and a retry finishes it.                                 *)
RetryAloneSucceeds ==
    \A c \in Commands :
        run[c].pc = "done" /\ run[c].clean /\ run[c].alone /\ networked
            => run[c].outcome \notin {"error", "partial"}
=============================================================================
