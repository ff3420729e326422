---------------------------- MODULE MCGenerator ----------------------------
(* Model checking of Generator on small graphs.                            *)
EXTENDS Generator

\* Complete graph on four vertices: one edge must go.
K4 == << <<0, 1>>, <<0, 2>>, <<0, 3>>, <<1, 2>>, <<1, 3>>, <<2, 3>> >>

\* Parallel edges, in both directions.
Parallel == << <<0, 1>>, <<1, 0>>, <<0, 1>>, <<1, 2>> >>

\* The graph of scripts/run.sh.
RunSh == << <<0, 1>>, <<0, 3>>, <<0, 4>>, <<1, 2>>, <<1, 3>>, <<1, 4>>, <<1, 5>>,
            <<2, 4>>, <<2, 5>>, <<3, 4>>, <<4, 5>> >>

\* Numbers that do not fit a vid_t: a complete graph again, and self-loops.
Truncated == << <<0, 1>>, <<0, 2>>, <<0, 10>>, <<1, 2>>, <<1, 10>>, <<2, 10>> >>
Loop      == << <<1, 8>>, <<0, 8>>, <<0, 1>> >>

\* A path to the highest vertex: the painting never ends.
Highest == << <<0, 1>>, <<1, 6>> >>

\* RunSh has more edges than a vid_t has values.
MCArguments ==
  { RunSh, K4, K4 \o << <<0, 3>> >>, Parallel, << <<0, 1>> >>, << <<2, 1>>, <<1, 2>> >>,
    Truncated, Loop, << <<0, 7>> >>, Highest }
=============================================================================
