----------------------------- MODULE Algorithms -----------------------------
(***************************************************************************)
(* The distributed algorithms, one call at a time.                         *)
(***************************************************************************)
EXTENDS StConnected, BreadthFirst, ShortestPaths, DepthFirst, Coloring, ComponentSearch, HookingComponents,
        StrongComponents, Bicomponents, SpanningTree, Betweenness, PageRank, NamedGraph,
        Distributions

AlgorithmsInit ==
  /\ input \in Inputs
  /\ \/ Starts("st_connected", st_Start)
     \/ Starts("breadth_first_search", bfs_Start)
     \/ Starts("eager_dijkstra", dijkstra_Start)
     \/ Starts("crauser_et_al", dijkstra_Start)
     \/ Starts("delta_stepping", delta_Start)
     \/ Starts("tsin_depth_first_visit", dfs_Start)
     \/ Starts("boman_et_al_graph_coloring", color_Start)
     \/ Starts("connected_components_ps", ps_Start)
     \/ Starts("connected_components", cc_Start)
     \/ Starts(SCC, scc_Start)
     \/ Starts("hohberg_biconnected_components", ho_Start)
     \/ mst_Init
     \/ Starts(BC, bc_Start)
     \/ Starts(ND, nd_Start)
     \/ Starts(PR, pr_Start)
     \/ Starts("adjacency_list", graph_Start)
     \/ Starts("named_graph", named_Start)
     \/ Starts(DIST, dist_Start)

Returned == done /\ UNCHANGED bsp_vars
AlgorithmsNext ==
  st_Next \/ bfs_Next \/ dijkstra_Next \/ delta_Next \/ dfs_Next \/ color_Next \/ ps_Next \/ cc_Next \/ scc_Next
    \/ ho_Next \/ mst_Next \/ bc_Next \/ nd_Next \/ pr_Next \/ graph_Next \/ named_Next
    \/ dist_Next \/ Returned

AlgorithmsSpec == AlgorithmsInit /\ [][AlgorithmsNext]_bsp_vars
\* Every process goes on with its program, and messages arrive.
FairAlgorithmsSpec == AlgorithmsSpec /\ WF_bsp_vars(AlgorithmsNext)

\* Vertices said to be connected are connected, whichever algorithm says it: st_connected
\* and the three that number components (they may miss a path, but never invent one).
NoFalseConnection == NoFalsePath /\ ComponentsConnected /\ StrongComponentsConnected
\* A search goes to each vertex it can reach once, level by level or depth first, whichever
\* process the vertices between are at (breadth_first_search, tsin_depth_first_visit).
SearchesInOrder == VisitedOnceInOrder /\ DepthFirstTree
\* Ranks and centralities are those of the graph as a whole, although each process adds up what
\* its own vertices give (page_rank) or what messages bring in any order (betweenness).
RanksExact == CentralityExact /\ PageRankExact
\* Whatever the graph is built and moved by, each element is at one place, and where it is looked
\* for (redistribute, the distributions).
EverythingPlaced == NothingLost /\ DistributionsAgree
\* Every algorithm returns.
AlgorithmsEnd == <>done
=============================================================================
