-------------------------- MODULE MCAnnouncements --------------------------
(***************************************************************************)
(* Instances of Announcements for TLC.                                     *)
(***************************************************************************)
EXTENDS Announcements, TLC

CONSTANTS h1, h2, j1, c1, c2

Commits == {c1, c2}
Repository(form) == [source |-> "main", form |-> form]
Https == {Repository("https")}
PatternAppIDs == {"app"}

Tree(app, c) ==
  [app |-> app, repository |-> Repository("https"), version |-> <<"version", c>>,
   commit |-> c, manifest |-> <<"manifest", app, c>>, content |-> <<"content", app, c>>]

\* manifest.toml has been edited since the commit.
Edited(c) == [Tree("app", c) EXCEPT !.manifest = <<"edited", c>>]

CommittedTrees == {Tree("app", c) : c \in Commits}

CiResult(app, c) ==
  [app |-> app, repository |-> Repository("https"), commit |-> c,
   manifest |-> <<"manifest", app, c>>, content |-> <<"content", app, c>>,
   checks |-> {[name |-> "package_check", outcome |-> "pass"]}, result |-> "pass"]

Input(tree, ci, announce) == [tree |-> tree, ci |-> ci, announce |-> announce]

\* Runs with and without a CI result, with and without a note; from an edited
\* work tree, with another revision's CI result, from a clone over SSH, of an
\* app whose ID does not fit the pattern.
PublishInputs ==
  UNION {{ Input(Tree("app", c), None, TRUE),
           Input(Tree("app", c), CiResult("app", c), TRUE),
           Input(Edited(c), CiResult("app", c), TRUE),
           Input(Tree("App", c), CiResult("App", c), FALSE),
           Input([Tree("app", c) EXCEPT !.repository = Repository("ssh")], None, TRUE)
         } : c \in Commits}
  \cup {Input(Tree("app", c), CiResult("app", d), TRUE) : c, d \in Commits}

\* Runs that only announce.
NoteInputs == {Input(Tree("app", c), None, TRUE) : c \in Commits}

AllDeployments == {{h1, h2}, {j1}, {h1, j1}}

Symmetry == Permutations(Commits)
=============================================================================
