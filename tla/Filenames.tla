----------------------------- MODULE Filenames -----------------------------
(***************************************************************************)
(* Operations on file names (np/util/filename.cxx, tokens from             *)
(* np/util/tok.cxx), which decide under which name a source file is known: *)
(* the tree of tests is built from the absolute paths of compile units,    *)
(* and stack traces show absolute names.                                   *)
(*                                                                         *)
(* A name is a sequence of characters, because the code decides by lengths *)
(* and positions.  The reference meaning of a name is the sequence of      *)
(* components that is left when "." and ".." are followed.                 *)
(***************************************************************************)
EXTENDS Sequences, Integers, SequencesExt

CONSTANTS
  Names,   \* names with the directories, as compilers give them, they are used in
  Cwd      \* the current directory

VARIABLES f, dir, op, out
vars == <<f, dir, op, out>>

Slash == "/"
Thrown == <<"?", "?">>   \* std::length_error or std::out_of_range
npos == -1

find_last_of(s) ==
  LET i == SelectLastInSeq(s, LAMBDA c : c = Slash) IN IF i = 0 THEN npos ELSE i - 1
resize(s, n) == IF n = npos THEN Thrown ELSE SubSeq(s, 1, n)

\* tok_t::next() until there is none: strtok_r() skips empty parts.
tok(s) ==
  LET add(ps, c) == IF c = Slash THEN Append(ps, <<>>)
                    ELSE [ps EXCEPT ![Len(ps)] = Append(@, c)]
  IN  SelectSeq(FoldLeft(add, << <<>> >>, s), LAMBDA p : p # <<>>)

Here == <<".">>
Up == <<".", ".">>

is_absolute(s) == s # <<>> /\ s[1] = Slash

is_path_tail(path, file) ==
  LET difflen == Len(path) - Len(file)
  IN  IsSuffix(file, path) /\ (difflen = 0 \/ path[difflen] = Slash)

-----------------------------------------------------------------------------
(* make_absolute_to                                                        *)

\* A mutant: the slash is not put between components.
with_part_Joined(abs, part) == abs \o part
with_part(abs, part) == abs \o (IF Len(abs) > 1 THEN <<Slash>> ELSE <<>>) \o part

parent(abs) == LET p == find_last_of(abs) IN IF p = 0 THEN abs ELSE resize(abs, p)

absolute_part(abs, part) ==
  IF abs = Thrown \/ part = Here THEN abs
  ELSE IF part = Up THEN parent(abs) ELSE with_part(abs, part)

make_absolute_to(s, absfile, isdir) ==
  LET base == IF is_absolute(s) THEN <<Slash>>
              ELSE IF absfile = <<>> THEN Cwd
              ELSE IF isdir THEN absfile ELSE resize(absfile, find_last_of(absfile))
  IN  IF ~is_absolute(s) /\ absfile # <<>> /\ ~isdir /\ is_path_tail(absfile, s) THEN absfile
      ELSE FoldLeft(absolute_part, base, tok(s))

-----------------------------------------------------------------------------
(* normalise, push_back, pop_back                                          *)

climbs(is_abs) == ~is_abs

normalise_part(is_abs, st, part) ==
  LET i == find_last_of(st.down) IN
  IF part = Here THEN st
  ELSE IF part # Up
  THEN [st EXCEPT !.down = @ \o (IF Len(@) > 1 THEN <<Slash>> ELSE <<>>) \o part]
  ELSE IF st.down # <<>> THEN [st EXCEPT !.down = IF i = npos THEN <<>> ELSE SubSeq(@, 1, i)]
  ELSE IF climbs(is_abs) THEN [st EXCEPT !.up = @ \o Up \o <<Slash>>] ELSE st

normalise(s) ==
  LET is_abs == is_absolute(s)
      st == FoldLeft(LAMBDA x, p : normalise_part(is_abs, x, p),
                     [up |-> IF is_abs THEN <<Slash>> ELSE <<>>, down |-> <<>>], tok(s))
  IN  IF st.up \o st.down = <<>> THEN Here ELSE st.up \o st.down

push_back(s, t) ==
  IF s = <<>> THEN Thrown ELSE s \o (IF s[Len(s)] = Slash THEN <<>> ELSE <<Slash>>) \o t

pop_back(s) ==
  LET p == find_last_of(s) IN IF p = npos THEN s ELSE SubSeq(s, 1, IF p = 0 THEN 1 ELSE p)

basename(s) == SubSeq(s, find_last_of(s) + 2, Len(s))

\* The name of a source file in a line table: its entry's directory may be
\* relative to the directory of compilation.
get_absolute_filename(s, include, cd) ==
  LET f2 == make_absolute_to(s, include, TRUE)
  IN  IF f2 = Thrown THEN Thrown ELSE make_absolute_to(f2, cd, TRUE)

-----------------------------------------------------------------------------
Init == (\E n \in Names : f = n[1] /\ dir = n[2]) /\ op = "none" /\ out = <<>>

Does(name, result) == op = "none" /\ op' = name /\ out' = result /\ UNCHANGED <<f, dir>>

Next ==
  \/ Does("make_absolute", make_absolute_to(f, <<>>, FALSE))
  \/ Does("make_absolute_to_dir", make_absolute_to(f, dir, TRUE))
  \/ Does("make_absolute_to_file", make_absolute_to(f, push_back(dir, <<"x", ".", "c">>), FALSE))
  \/ Does("get_absolute_filename", get_absolute_filename(f, dir, Cwd))
  \/ Does("normalise", normalise(f))
  \/ Does("push_pop", pop_back(push_back(dir, basename(f))))
  \/ op # "none" /\ UNCHANGED vars

Spec == Init /\ [][Next]_vars

-----------------------------------------------------------------------------
(* Properties                                                              *)

\* Where the components ps lead from the components at; climbed counts the
\* ".." that lead out of a relative name.
Follow(at, climbed, ps) ==
  FoldLeft(LAMBDA st, p : IF p = Here THEN st
                          ELSE IF p # Up THEN [st EXCEPT !.at = Append(@, p)]
                          ELSE IF st.at # <<>> THEN [st EXCEPT !.at = Front(@)]
                          ELSE [st EXCEPT !.climbed = @ + 1],
           [at |-> at, climbed |-> climbed], ps)
Where(s, base) == Follow(IF is_absolute(s) THEN <<>> ELSE tok(base), 0, tok(s)).at
Absolute(s) == is_absolute(s) /\ tok(s) = Where(s, <<>>)

(* A source file goes by the absolute name of the file that its name means *)
(* in its directory, and by no other spelling of it: otherwise its tests   *)
(* would be found under another node of the tree, or twice.                *)
AbsoluteNamesSameFile ==
  /\ op = "make_absolute" => Absolute(out) /\ tok(out) = Where(f, Cwd)
  /\ op = "make_absolute_to_dir" => Absolute(out) /\ tok(out) = Where(f, dir)
  /\ op = "get_absolute_filename" => Absolute(out) /\ tok(out) = Where(f, dir)

(* Next to a file of the same directory a name means the same file, and a  *)
(* name that is the end of that file's own is taken for that file only     *)
(* where it begins with a component.  (Next to a file of the root the      *)
(* slash is lost.)                                                         *)
SiblingNamesSameFile ==
  op = "make_absolute_to_file" /\ dir # <<Slash>> => Absolute(out) /\ tok(out) = Where(f, dir)

(* "Remove "." path components, collapse ".." path components where        *)
(* possible" (filename.cxx): normalise() changes no name's meaning, and    *)
(* leaves ".." only at the front of a relative name.                       *)
NormaliseKeepsMeaning ==
  op = "normalise" =>
    LET was == Follow(<<>>, 0, tok(f))
    IN  /\ is_absolute(out) = is_absolute(f)
        /\ tok(out) = (IF is_absolute(f) THEN <<>> ELSE [i \in 1..was.climbed |-> Up])
                        \o (IF was.at = <<>> /\ out = Here THEN <<Here>> ELSE was.at)

(* pop_back() takes away what push_back() added, at the root as elsewhere. *)
PopUndoesPush == op = "push_pop" => out = dir

=============================================================================
