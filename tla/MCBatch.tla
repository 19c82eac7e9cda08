------------------------------ MODULE MCBatch -------------------------------
(* The instance of Batch that TLC checks. *)
EXTENDS Batch

CONSTANTS g1, g2

Game(name, kind, exe, metadata) ==
  [name |-> name, runtime |-> kind, exe |-> exe, metadata |-> metadata]

\* A game of a kind nobody dumps; a Unity game a store wraps, with an apostrophe in its
\* path; a Mono game in a path with what looks like an escape; files alone, of a game of
\* that same name; an Unreal game without a name.
OnTheMachine ==
  <<Game(<<"text">>, "godot", <<"text">>, <<>>),
    Game(<<"apostrophe">>, "il2cpp", <<"slashN", "apostrophe">>, <<"slash", "apostrophe">>),
    Game(<<"text", "text">>, "mono", <<"text", "slashN">>, <<>>),
    Game(<<"text", "text">>, "il2cpp", <<>>, <<"slash">>),
    Game(<<>>, "unreal", <<"slash">>, <<>>)>>

Processes == <<g1, g1, g2, g1, g1>>

ManifestEntries == 1..4
BatchCalls  == ManifestEntries \X {g1, g2}
BatchTarget == [c \in BatchCalls |-> c[2]]
=============================================================================
