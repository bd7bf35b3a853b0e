---------------------------- MODULE MCRagIndex ----------------------------
(* Instances of RagIndex for TLC. *)
EXTENDS RagIndex
CONSTANT q0

ThreeFiles ==
    << [name |-> "api", source |-> "python", excluded |-> FALSE],
       [name |-> "dbt", source |-> "dbt",    excluded |-> FALSE],
       [name |-> "test", source |-> "python", excluded |-> TRUE] >>

\* Two methods of the same name in one module, further apart than a batch.
NamesOf ==
    [f \in FileNames |->
        CASE f = "api" -> <<"api", "api.run", "api.run">>
          [] OTHER     -> <<f>>]

Header(level, title, body) == [level |-> level, title |-> title, body |-> body]

\* A section with an introduction and one without, sub-sections on two levels, and a
\* README from which some of that was deleted.
TwoReadmes ==
    { << Header(2, "s1", "intro"), Header(3, "s2", "part"), Header(4, "s3", "detail"),
         Header(2, "s4", Blank), Header(3, "s5", "only") >>,
      << Header(2, "s1", "intro") >> }

OneText == {"old"}
OneReader == {q0}
===========================================================================
