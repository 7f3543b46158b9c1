---------------------------- MODULE MCServerStart ----------------------------
(* ServerStart with a second launcher, for TLC.                             *)
EXTENDS ServerStart

\* Bound: the other launcher downloads only as long as this server has not
\* loaded the model, from when on the file is of no concern to it.
BeforeItIsLoaded ==
  \A l \in Launchers \ {Me} : Model!Downloads(l) =>
    server \in {"none", "preserve", "consume", "record", "initialize", "converting first"}
=============================================================================
