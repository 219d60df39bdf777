------------------------------ MODULE MCZipapp ------------------------------
(* Two builds and a program that opens the executable, over two revisions of *)
(* the sources and one change of the inputs.                                 *)
EXTENDS Zipapp

MCRank ==
    [n \in Names |->
        CASE n = "__main__.py" -> 1
          [] n = "mfviz" -> 2
          [] n = "microflows_viz.dist-info" -> 3
          [] n = "pymysql" -> 4
          [] OTHER -> 5]

MCShipped ==
    << <<"__main__.py", "entry">>, <<"mfviz", CHOOSE s \in Revisions : TRUE>>,
       <<"microflows_viz.dist-info", CHOOSE v \in Versions : TRUE>>,
       <<"pymysql", "driver">>, <<"pymysql.dist-info", "licence">> >>
=============================================================================
