----------------------------- MODULE LaunchGate -----------------------------
(***************************************************************************)
(* jailer-launch, the one program that acts as root: it checks the request *)
(* (aegis-common/validate.rs), walks the paths it will use entry by entry  *)
(* (aegis-common/trust.rs), and then prepares and runs a jail, or removes  *)
(* one.  The walk is not atomic: between any two of its steps another user *)
(* of the host may change what its permissions let it change.              *)
(*                                                                         *)
(* A path is the sequence of the entries it walks through below /: who     *)
(* owns each, whether group or others may write it, whether it is a        *)
(* symlink, and whether the user ever had a hand in it.                    *)
(***************************************************************************)
EXTENDS Naturals, Sequences, SequencesExt

CONSTANTS
  MinId, MaxId,  \* the bounds on the length of a jail id
  Cases          \* the requests and paths of the run: records [request, tree]

VARIABLES
  request,  \* what was asked: verb, id, images, sudo, instance, fails
  tree,     \* the paths: "base", the jailer's directory, and "image"
  step,     \* where the program is
  at,       \* the next entry of the walk
  code      \* its exit code; 0 of a launch is the jailer running

vars == <<request, tree, step, at, code>>

Char == {"alnum", "-", "/", "."}
Entry == [owner : {"root", "user"}, shared : BOOLEAN, link : BOOLEAN, moved : BOOLEAN]
Paths == [{"base", "image"} -> Seq(Entry)]

\* The user has had no hand in a path yet when the program starts.
ASSUME LaunchAssumption ==
  /\ MinId \in Nat \ {0} /\ MaxId \in Nat
  /\ \A c \in Cases :
       /\ c.request.verb \in {"launch", "cleanup"} /\ c.request.id \in Seq(Char)
       /\ c.tree \in Paths
       /\ \A p \in DOMAIN c.tree : \A i \in DOMAIN c.tree[p] : ~c.tree[p][i].moved

NoCode == 99

Init ==
  /\ \E c \in Cases : request = c.request /\ tree = c.tree
  /\ step = "start" /\ at = 1 /\ code = NoCode

End(exit) == step' = "over" /\ code' = exit /\ UNCHANGED <<request, tree, at>>
Go(next) == step' = next /\ UNCHANGED <<request, tree, at, code>>

----------------------------------------------------------------------------
(* The request *)

\* Mutant: the last character may be anything.
IdEndsLoose(id) == id[1] = "alnum"
IdEnds(id) == id[1] = "alnum" /\ Last(id) = "alnum"

ValidJailId(id) ==
  /\ Len(id) \in MinId..MaxId
  /\ IdEnds(id)
  /\ \A i \in 2..(Len(id) - 1) : id[i] \in {"alnum", "-"}

\* A launch needs images that resolve to allowlisted files and the ids of the
\* caller sudo names; a cleanup only that sudo names one.
Valid(r) ==
  /\ ValidJailId(r.id)
  /\ r.sudo # "none"
  /\ r.verb = "launch" => r.images /\ r.sudo = "caller"

Validate ==
  /\ step = "start"
  /\ IF Valid(request) THEN Go("walk") ELSE End(3)

----------------------------------------------------------------------------
(* check_trusted_path_from and preflight_trust *)

Walk ==
  [i \in DOMAIN tree.base |-> <<"base", i>>]
  \o (IF request.verb = "launch" THEN [i \in DOMAIN tree.image |-> <<"image", i>>] ELSE <<>>)

\* Mutant: the mode bits are not looked at.
TrustedOwner(e) == e.owner = "root" /\ ~e.link
Trusted(e) == e.owner = "root" /\ ~e.link /\ ~e.shared

CheckEntry ==
  /\ step = "walk" /\ at <= Len(Walk)
  /\ IF Trusted(tree[Walk[at][1]][Walk[at][2]])
     THEN at' = at + 1 /\ UNCHANGED <<request, tree, step, code>>
     ELSE End(3)

----------------------------------------------------------------------------
(* What follows: prepare_jail_root and the exec, or the removal *)

Prepare ==
  /\ step = "walk" /\ at > Len(Walk) /\ request.verb = "launch"
  /\ IF request.fails = "prepare" THEN End(4) ELSE Go("exec")

Exec ==
  /\ step = "exec"
  /\ End(IF request.fails = "exec" THEN 5 ELSE 0)

\* The instance may be absent, or resolve elsewhere.
Resolve ==
  /\ step = "walk" /\ at > Len(Walk) /\ request.verb = "cleanup"
  /\ CASE request.fails = "base" -> End(4)
       [] request.fails # "base" /\ request.instance = "absent" -> End(0)
       [] request.fails = "instance" /\ request.instance # "absent" -> End(4)
       [] request.fails \notin {"base", "instance"} /\ request.instance = "outside" -> End(3)
       [] OTHER -> Go("remove")

RemoveJail ==
  /\ step = "remove"
  /\ End(IF request.fails = "remove" THEN 4 ELSE 0)

----------------------------------------------------------------------------
(* Another user of the host *)

\* It changes an entry it owns or may write; only an owner changes the mode.
Rewrite(p, i) ==
  /\ tree[p][i].owner = "user" \/ tree[p][i].shared
  /\ \E s \in BOOLEAN :
       /\ s = tree[p][i].shared \/ tree[p][i].owner = "user"
       /\ tree' = [tree EXCEPT ![p][i].moved = TRUE, ![p][i].shared = s]

\* It puts another entry in a directory it owns or may write, or has anything
\* beyond a symlink its own way; the entry may be one of root's, moved there.
Replace(p, i) ==
  /\ i > 1
  /\ LET parent == tree[p][i - 1] IN parent.owner = "user" \/ parent.shared \/ parent.link
  /\ \E e \in Entry : e.moved /\ tree' = [tree EXCEPT ![p][i] = e]

UserMoves ==
  /\ \E p \in DOMAIN tree : \E i \in DOMAIN tree[p] : Rewrite(p, i) \/ Replace(p, i)
  /\ UNCHANGED <<request, step, at, code>>

Next == Validate \/ CheckEntry \/ Prepare \/ Exec \/ Resolve \/ RemoveJail \/ UserMoves

----------------------------------------------------------------------------
(* Properties *)

Acts == step \in {"exec", "remove"} \/ (step = "over" /\ code \in {0, 4, 5} /\ at > Len(Walk))

\* Root acts on what it checked: from the moment the walk is over, no entry it
\* walked through was ever the user's doing, and none ever becomes it, though
\* the entries were checked one after another (preflight_trust).
NobodySteersRoot ==
  Acts => \A i \in DOMAIN Walk : ~tree[Walk[i][1]][Walk[i][2]].moved

\* An accepted jail id is one plain name: below the base it names one entry, in
\* an argument list it is no option, and no shorter pattern matches by accident
\* (validate_jail_id).
JailIdIsOneName ==
  step \in {"walk", "exec", "remove"} \/ (step = "over" /\ code # 3) =>
    /\ {"/", "."} \cap Range(request.id) = {}
    /\ Head(request.id) # "-" /\ Last(request.id) # "-" /\ Len(request.id) >= MinId

----------------------------------------------------------------------------
(* The inductive invariant *)

EntryAt(n) == tree[Walk[n][1]][Walk[n][2]]

\* The program goes on with a valid request only; what it has checked stays
\* trusted; and whatever the user had a hand in lies below an entry that no check
\* lets pass.
LaunchInv ==
  /\ request.verb \in {"launch", "cleanup"} /\ request.id \in Seq(Char)
  /\ tree \in Paths
  /\ step \in {"start", "walk", "exec", "remove", "over"}
  /\ at \in 1..(Len(Walk) + 1)
  /\ step \in {"walk", "exec", "remove"} \/ (step = "over" /\ code # 3) => Valid(request)
  /\ step \in {"exec", "remove"} => at > Len(Walk)
  /\ \A n \in 1..(at - 1) : Trusted(EntryAt(n))
  /\ \A p \in DOMAIN tree : \A i \in DOMAIN tree[p] :
       tree[p][i].moved => \E j \in 1..i : ~Trusted(tree[p][j])
=============================================================================
