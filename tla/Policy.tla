------------------------------- MODULE Policy -------------------------------
(***************************************************************************)
(* What the runtime policy lets the builtin tools touch                    *)
(* (runtime/control/policy.rs, runtime/handle/execution.rs,                *)
(* tool/files/access.rs, tool/builtin/shell.rs): a path is resolved        *)
(* against a directory, "." and ".." are folded, the part of it that exists*)
(* is canonicalized, and the result is compared with the roots.            *)
(*                                                                         *)
(* The filesystem is a small tree of directories and symbolic links; it    *)
(* does not change between the decision and what follows it.               *)
(***************************************************************************)
EXTENDS Naturals, Sequences, SequencesExt

CONSTANTS Segments,     \* names of directory entries
          LinkTargets,  \* where a symbolic link may point
          RawPaths,     \* what a tool may be asked for, after its first "/"
          TaskDirs,     \* the sets of directories an agent's unfinished tasks may name
          BaseDir,      \* an agent's base directory
          RootChoices,  \* the lists of roots a host may configure
          Gone, Folder, \* a missing entry; a directory
          Refused,      \* an answer other than a path
          MaxHops       \* links the filesystem follows before it gives up

ASSUME MaxHopsAssumption == MaxHops \in Nat

VARIABLES entry,    \* path -> Gone, Folder or the target of a link
          policy,   \* the RuntimePolicy
          request,  \* what was asked, and in which directory
          answer    \* the path it was granted for, or Refused

policyVars == <<entry, policy, request, answer>>

RealPaths == UNION {[1..n -> Segments] : n \in 1..2}
PolicyRecord == [allow_shell_commands : BOOLEAN, allow_background_commands : BOOLEAN,
                 allowed_working_roots : RootChoices, allowed_read_roots : RootChoices,
                 allowed_write_roots : RootChoices, denied_write_roots : RootChoices,
                 shell_validation_mode : {"off", "warn", "enforce"}]
RequestKinds == {"none", "read", "write", "shell", "background"}

\* An entry exists below a directory only.
Tree(e) == \A p \in RealPaths : Len(p) = 2 /\ e[<<p[1]>>] # Folder => e[p] = Gone

\* RuntimePolicy::default, permissive, workspace_bounded(b) and read_only(b), for
\* the roots the host's setters may leave in them; denied roots concern writes.
DefaultPolicy == [allow_shell_commands |-> FALSE, allow_background_commands |-> FALSE,
                  allowed_working_roots |-> {}, allowed_read_roots |-> {},
                  allowed_write_roots |-> {}, denied_write_roots |-> {},
                  shell_validation_mode |-> "off"]
permissive == [DefaultPolicy EXCEPT !.allow_shell_commands = TRUE, !.allow_background_commands = TRUE]
workspace_bounded(w) ==
    [DefaultPolicy EXCEPT !.allowed_working_roots = w, !.allowed_read_roots = w, !.allowed_write_roots = w]
read_only(w) == [DefaultPolicy EXCEPT !.allowed_working_roots = w, !.allowed_read_roots = w]

Policies ==
    {DefaultPolicy, permissive}
    \union {[read_only(w) EXCEPT !.allow_shell_commands = TRUE] : w \in RootChoices}
    \union {[workspace_bounded(w) EXCEPT !.denied_write_roots = d, !.allow_shell_commands = TRUE,
                                         !.shell_validation_mode = "enforce"] :
              w \in RootChoices, d \in RootChoices}

PolicyTypeOK ==
    /\ entry \in [RealPaths -> {Gone, Folder} \union LinkTargets] /\ Tree(entry)
    /\ policy \in PolicyRecord
    /\ request \in [kind : RequestKinds, path : Seq(Segments \union {"..", "/"})]

PolicyInit ==
    /\ entry \in [RealPaths -> {Gone, Folder} \union LinkTargets] /\ Tree(entry)
    /\ entry[BaseDir] = Folder
    /\ policy \in Policies
    /\ request = [kind |-> "none", path |-> <<>>]
    /\ answer = Refused

-----------------------------------------------------------------------------
(* The filesystem. *)

At(p) == IF p = <<>> THEN Folder ELSE IF p \in RealPaths THEN entry[p] ELSE Gone

\* Follows a path from the root: where it ends, and what was not there (the rest
\* of the path from a missing entry on); Refused when links do not end.  ".." is
\* the parent of where the path has come to, and the root is its own parent.
RECURSIVE Follow(_, _, _)
Follow(done, rest, hops) ==
    IF rest = <<>> THEN [at |-> done, missing |-> <<>>]
    ELSE IF Head(rest) = ".." THEN Follow(SubSeq(done, 1, Len(done) - 1), Tail(rest), hops)
    ELSE LET here == At(Append(done, Head(rest))) IN
         IF here = Gone THEN [at |-> done, missing |-> rest]
         ELSE IF here = Folder THEN Follow(Append(done, Head(rest)), Tail(rest), hops)
         ELSE IF hops = 0 THEN Refused ELSE Follow(<<>>, here \o Tail(rest), hops - 1)

\* fs::canonicalize and fs::symlink_metadata: what a path is once links are
\* followed, and whether its last name is there at all.
canonicalize(p) == LET w == Follow(<<>>, p, MaxHops) IN
                   IF w = Refused THEN Refused ELSE IF w.missing = <<>> THEN w.at ELSE Gone
symlink_metadata(p) == p = <<>> \/ LET w == canonicalize(Front(p)) IN
                                   w \notin {Gone, Refused} /\ At(Append(w, Last(p))) # Gone

-----------------------------------------------------------------------------
(* Resolution. *)

\* normalize_absolute_path: ".." above the root is an error.
normalize_absolute_path(p) ==
    FoldLeft(LAMBDA done, s : IF done = Refused THEN Refused
                              ELSE IF s # ".." THEN Append(done, s)
                              ELSE IF done = <<>> THEN Refused ELSE Front(done), <<>>, p)

\* resolve_existing_components: the longest prefix that exists, canonical, and the
\* rest as it is; a prefix that is there but leads nowhere is an error.
resolve_existing_components(p) ==
    LET prefix(n) == SubSeq(p, 1, n)
        stops == {n \in 0..Len(p) : canonicalize(prefix(n)) # Gone \/ symlink_metadata(prefix(n))}
        last == CHOOSE n \in stops : \A m \in stops : m <= n
        real == canonicalize(prefix(last))
    IN  IF real \in {Gone, Refused} THEN Refused ELSE real \o SubSeq(p, last + 1, Len(p))

resolve_path(base, raw) == IF raw # <<>> /\ Head(raw) = "/" THEN Tail(raw) ELSE base \o raw

resolve_authorized_path(base, raw) ==
    LET p == normalize_absolute_path(resolve_path(base, raw))
    IN  IF p = Refused THEN Refused ELSE resolve_existing_components(p)

\* normalize_policy_root: a path that cannot be resolved stays as it is.
normalize_policy_root(p) ==
    LET n == normalize_absolute_path(p)
        r == IF n = Refused THEN Refused ELSE resolve_existing_components(n)
    IN  IF r # Refused THEN r ELSE IF canonicalize(p) \in {Gone, Refused} THEN p ELSE canonicalize(p)

path_is_under_any(p, roots) ==
    \E root \in roots : IsPrefix(normalize_policy_root(root), normalize_policy_root(p))
path_is_allowed(p, base, roots) == path_is_under_any(p, {base} \union roots)

-----------------------------------------------------------------------------
(* Decisions. *)

Decide(kind, raw, a) ==
    /\ request.kind = "none"
    /\ request' = [kind |-> kind, path |-> raw]
    /\ answer' = a
    /\ UNCHANGED <<entry, policy>>

authorize_file_read(raw) ==
    LET p == resolve_authorized_path(BaseDir, raw)
    IN  Decide("read", raw,
               IF p # Refused /\ path_is_allowed(p, BaseDir, policy.allowed_read_roots) THEN p ELSE Refused)

\* authorize_file_write: denied roots come first.
authorize_file_write_AllowFirst(raw) ==
    LET p == resolve_authorized_path(BaseDir, raw)
    IN  Decide("write", raw,
               IF /\ p # Refused
                  /\ \/ path_is_allowed(p, BaseDir, policy.allowed_write_roots)
                     \/ ~path_is_under_any(p, policy.denied_write_roots)
               THEN p ELSE Refused)
authorize_file_write(raw) ==
    LET p == resolve_authorized_path(BaseDir, raw)
    IN  Decide("write", raw,
               IF /\ p # Refused
                  /\ ~path_is_under_any(p, policy.denied_write_roots)
                  /\ path_is_allowed(p, BaseDir, policy.allowed_write_roots)
               THEN p ELSE Refused)

\* authorize_command_roots.
authorize_command_roots(cwd, background) ==
    /\ policy.allow_shell_commands
    /\ background => policy.allow_background_commands
    /\ path_is_allowed(cwd, BaseDir, policy.allowed_working_roots)

\* evaluate_shell_command, should_deny, for what the validation of a command says.
should_deny(outcome) == policy.shell_validation_mode = "enforce" /\ outcome = "deny"

\* resolve_working_directory: the directory named, or that of the agent's own
\* unfinished tasks, or the base directory; several task directories are an error.
resolve_working_directory(explicit, task_directories) ==
    IF explicit # {} THEN {resolve_path(BaseDir, d) : d \in explicit}
    ELSE IF task_directories = {} THEN {BaseDir}
    ELSE LET routed == {resolve_path(BaseDir, d) : d \in task_directories}
         IN  IF \E p, q \in routed : p # q THEN {} ELSE routed

\* build_command_request, for a command run at once or in the background.
build_command_request(explicit, task_directories, background, outcome) ==
    LET cwds == resolve_working_directory(explicit, task_directories)
        cwd == CHOOSE d \in cwds : TRUE
    IN  Decide(IF background THEN "background" ELSE "shell", IF cwds = {} THEN <<>> ELSE cwd,
               IF cwds # {} /\ authorize_command_roots(cwd, background) /\ ~should_deny(outcome)
               THEN cwd ELSE Refused)

PolicyNext ==
    \/ \E raw \in RawPaths : authorize_file_read(raw) \/ authorize_file_write(raw)
    \/ \E background \in BOOLEAN, outcome \in {"allow", "prompt", "deny"} :
          \/ \E d \in RawPaths : build_command_request({d}, {}, background, outcome)
          \/ \E ds \in TaskDirs :
                build_command_request({}, ds, background, outcome)

PolicySpec == PolicyInit /\ [][PolicyNext]_policyVars

-----------------------------------------------------------------------------
(* Properties. *)

\* Where the filesystem puts what is written or run at a path.
Lands(p) == LET w == Follow(<<>>, p, MaxHops) IN IF w = Refused THEN p ELSE w.at \o w.missing
Usable(p) == canonicalize(p) \notin {Gone, Refused}
Folded(p) == LET n == normalize_absolute_path(p) IN IF n = Refused THEN p ELSE n

\* No name a ".." takes back was a link, or below one, and none is above the root.
PlainParents(p) ==
    \A i \in DOMAIN p : p[i] = ".." => LET above == SubSeq(p, 1, i - 1) IN
                                       above # <<>> /\ canonicalize(above) = normalize_absolute_path(above)

\* The comment above authorize_file_write ("`.git/hooks/../hooks` and a symlink
\* into a denied root resolve to the same answer"), for every filesystem, spelling
\* and policy: a file that was granted lands, links followed, under the base
\* directory or an allowed root, and one to write under no denied root, where a
\* denied root that is itself a dangling link stands for the link and not for
\* what it points at. A command's directory is compared with its ".." folded and
\* handed on with them: when it is there, the folded spelling lands inside, and so
\* does the directory itself when no ".." follows a link.
GrantsAreInside ==
    LET Inside(p, roots) == \E root \in {BaseDir} \union roots : IsPrefix(Lands(root), Lands(p))
    IN  answer # Refused =>
          CASE request.kind = "read" -> Inside(answer, policy.allowed_read_roots)
            [] request.kind = "write" ->
                 /\ Inside(answer, policy.allowed_write_roots)
                 /\ \A root \in policy.denied_write_roots :
                       resolve_existing_components(root) # Refused => ~IsPrefix(Lands(root), Lands(answer))
            [] OTHER ->
                 /\ Usable(Folded(answer)) => Inside(Folded(answer), policy.allowed_working_roots)
                 /\ Usable(answer) /\ PlainParents(answer) => Inside(answer, policy.allowed_working_roots)
=============================================================================
