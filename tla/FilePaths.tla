------------------------------ MODULE FilePaths ------------------------------
(***************************************************************************)
(* The lexical path check of the teafile virtual file system             *)
(* (filelib/src/files/utils.rs and VirtualFileSystem::generate_absolut_path *)
(* in files/mod.rs): every path a client or the host names is normalised  *)
(* and joined below the area it addresses (a channel directory, avatar or *)
(* icons), or refused.                                                     *)
(*                                                                         *)
(* A path is the sequence of std::path::Components the code iterates     *)
(* over: "root" (RootDir) only first, "cur" (CurDir, a leading ".") only  *)
(* first, "parent" (ParentDir) and the Normal names in PathNames.  The    *)
(* splitting of the string into components is the standard library's and *)
(* is not modelled.  An Option is a set: {} is None, {p} is Some(p).     *)
(***************************************************************************)
EXTENDS Naturals, Sequences, SequencesExt

CONSTANTS
    PathNames,   \* Component::Normal names
    Areas,       \* the directories generate_absolut_path joins below the root
    MaxPathLen   \* bound on the number of components of a user path

Components == {"root", "cur", "parent"} \cup PathNames

\* The component sequences Path::components can yield
UserPaths ==
    {p \in BoundedSeq(Components, MaxPathLen) :
        \A i \in DOMAIN p : p[i] \in {"root", "cur"} => i = 1}

\* Mutant: a ParentDir pops whatever is on the stack
TraversalStepPopAny(stack, c) ==
    CASE c = "cur"    -> stack
      [] c = "root"   -> <<"root">>
      [] c = "parent" -> IF stack # <<>> THEN Front(stack) ELSE Append(stack, "parent")
      [] OTHER        -> Append(stack, c)

\* One iteration of path_traversal's loop over the stack
TraversalStep(stack, c) ==
    CASE c = "cur"    -> stack
      [] c = "root"   -> <<"root">>
      [] c = "parent" ->
            IF \E i \in DOMAIN stack : stack[i] \in PathNames
            THEN Front(stack)
            ELSE Append(stack, "parent")
      [] OTHER        -> Append(stack, c)

\* path_traversal: the stack left after every component
PathTraversal(p) == FoldLeft(TraversalStep, <<>>, p)

\* normalize_user_path: the traversed path if it starts with a name; a
\* leading RootDir is stripped when a name (or nothing) follows it;
\* anything else (a leading ParentDir) is refused
NormalizeUserPath(p) ==
    LET t == PathTraversal(p) IN
    CASE t = <<>>           -> {<<>>}
      [] Head(t) \in PathNames -> {t}
      [] Head(t) = "root"   ->
            IF Len(t) = 1 THEN {<<>>}
            ELSE IF t[2] \in PathNames THEN {Tail(t)} ELSE {}
      [] OTHER              -> {}

\* generate_absolut_path for a FilePath of area a: the normalised path
\* joined below the area's directory, None when normalisation refuses it
GenerateAbsolutPath(a, p) == {<<a>> \o u : u \in NormalizeUserPath(p)}

-----------------------------------------------------------------------------
(* Reference: the walk a user path describes, from the area's directory. *)

RECURSIVE Walk(_, _)
\* The directory reached from cwd by the components of p, or {} once a
\* ParentDir would leave the area
Walk(cwd, p) ==
    IF p = <<>> THEN {cwd}
    ELSE LET c == Head(p) IN
         CASE c = "root"   -> Walk(<<>>, Tail(p))
           [] c = "cur"    -> Walk(cwd, Tail(p))
           [] c = "parent" -> IF cwd = <<>> THEN {} ELSE Walk(Front(cwd), Tail(p))
           [] OTHER        -> Walk(Append(cwd, c), Tail(p))

\* Every path the host or a client names resolves, through normalisation
\* and generate_absolut_path, to exactly the directory a walk from the
\* area's root reaches, and is refused (None) exactly when the walk would
\* climb out of the area at some point: no ParentDir or RootDir survives
\* into a joined path, so no path escapes its channel, avatar or icon
\* directory (path_traversal's stack, normalize_user_path's root strip).
PathsConfined ==
    \A a \in Areas, p \in UserPaths :
        GenerateAbsolutPath(a, p) = {<<a>> \o w : w \in Walk(<<>>, p)}

=============================================================================
