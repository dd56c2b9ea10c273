------------------------------- MODULE MCServer ------------------------------
(***************************************************************************)
(* The host side of LRUIndex: the B+ tree of the back end, the databases   *)
(* in memory, the YCSB workload that drives them, and the front end with   *)
(* its driver; and the hash functions of the simulation.  The parts run    *)
(* one at a time, each from its own initial states: `part' tells which.    *)
(***************************************************************************)
EXTENDS BPlusTreeStore, HashtableDB, YCSB, FrontEnd, FarmHash

CONSTANT Parts      \* the parts to run

VARIABLE part

ServerInit ==
    /\ part \in Parts
    /\ TreeInit /\ (part # "tree" => tree = NewTree)
    /\ HashInit /\ (part # "hashtable" => impl = CHOOSE i \in Implementations : TRUE)
    /\ YCSBInit /\ (part # "ycsb" => phase = "exited")
    /\ FrontEndInit /\ (part # "frontend" => compiled = [queue |-> TRUE, port |-> TRUE])
    /\ FarmInit /\ (part # "farm" => build = (CHOOSE b \in Builds : TRUE) /\ entry = "Hash")

ServerNext ==
    /\ UNCHANGED part
    /\ \/ /\ part = "tree" /\ TreeNext
          /\ UNCHANGED <<hashVars, ycsbVars, frontVars, farmVars>>
       \/ /\ part = "hashtable" /\ HashNext
          /\ UNCHANGED <<vars, ycsbVars, frontVars, farmVars>>
       \/ /\ part = "ycsb" /\ YCSBNext
          /\ UNCHANGED <<vars, hashVars, frontVars, farmVars>>
       \/ /\ part = "frontend" /\ FrontEndNext
          /\ UNCHANGED <<vars, hashVars, ycsbVars, farmVars>>
       \/ /\ part = "farm" /\ FarmNext
          /\ UNCHANGED <<vars, hashVars, ycsbVars, frontVars>>

ServerSpec == ServerInit /\ [][ServerNext]_<<part, vars, hashVars, ycsbVars, frontVars, farmVars>>

\* Threads and keys of the tables in memory are interchangeable.
ServerSymmetry == Permutations(Threads) \cup Permutations(Keys)

-----------------------------------------------------------------------------
\* B+ tree: no load, loads in both orders that leave the root one split short
\* of overflowing, and one with equal keys in several leaves.
MCLoads ==
    { <<>>,
      [i \in 1..9 |-> 2 * i],
      [i \in 1..9 |-> 20 - 2 * i],
      <<4, 4, 4, 8, 8, 8, 12, 12, 4, 4>> }

\* YCSB: scaled-down workloads of the kinds under workloads/, together with
\* command lines that end before the load.
MCFiles ==
    [ base |-> "recordcount" :> 3 @@ "operationcount" :> 2 @@ "fieldcount" :> 2 @@ "fieldlength" :> 2
               @@ "maxscanlength" :> 2,
      wa   |-> "requestdistribution" :> "zipfian" @@ "readproportion" :> 50 @@ "updateproportion" :> 50,
      wd   |-> "operationcount" :> 3 @@ "requestdistribution" :> "latest" @@ "insertproportion" :> 50
               @@ "updateproportion" :> 0 @@ "readproportion" :> 50,
      we   |-> "recordcount" :> 4 @@ "scanlengthdistribution" :> "zipfian" @@ "readproportion" :> 0
               @@ "updateproportion" :> 0 @@ "scanproportion" :> 50 @@ "readmodifywriteproportion" :> 50
               @@ "readallfields" :> FALSE @@ "field_len_dist" :> "uniform" @@ "writeallfields" :> TRUE,
      wf   |-> "recordcount" :> 4 @@ "operationcount" :> 4 @@ "requestdistribution" :> "zipfian"
               @@ "insertproportion" :> 50 @@ "readproportion" :> 50 @@ "updateproportion" :> 0
               @@ "readallfields" :> FALSE @@ "field_len_dist" :> "zipfian",
      tiny |-> "recordcount" :> 2 @@ "requestdistribution" :> "latest",
      load |-> "readproportion" :> 0 @@ "updateproportion" :> 0,
      thin |-> "fieldlength" :> 1 @@ "field_len_dist" :> "zipfian",
      bare |-> "recordcount" :> 3 @@ "fieldcount" :> 1 ]

Line(db, n, file) == <<"db", db, "threads", n, "P", "base", "P", file>>

MCLines ==
    { Line("lock_stl", 2, "wa"), Line("basic", 3, "wd"), Line("tbb_scan", 2, "we"), Line("tbb_rand", 2, "wf"),
      Line("lock_stl", 1, "tiny"), Line("b_plus_tree", 2, "wf"), Line("b_plus_tree", 2, "wa"),
      <<"db", "redis", "host", "h", "port", 1, "slaves", 0, "P", "base", "P", "we">>,
      Line("tbb_rand", 2, "load"), Line("tbb_scan", 2, "thin"),
      <<"db", "lock_stl", "P", "bare">>, <<"db", "lock_stl", "P", "wa">>,
      <<>>, <<"P">>, <<"P", "base">>, <<"db", "b_plus_tree", "P", "base">>, <<"db", "oracle", "P", "base">>,
      <<"db", "basic", "verbose", 1>>, <<"db", "basic">> }

\* Front end: keys of one digit and of twenty, the number of the latter using
\* all 64 bits; no value, several, and empty ones; an address that uses all of
\* its 48 bits.
KeyOf(digits) == KeyPrefix \o digits
Key7 == KeyOf(<<55>>)
KeyHash == KeyOf(<<49, 52, 54, 57, 53, 57, 56, 49, 48, 51, 57, 51, 52, 54, 54, 53, 54, 48, 51, 55>>)  \* 0xCBF29CE484222325
MCInserted ==
    { [key |-> Key7, values |-> <<>>],
      [key |-> KeyHash, values |-> << <<<<102, 48>>, <<>>>>, <<<<>>, <<0, 255, 1>>>> >>] }
MCQueried ==
    { [key |-> Key7, fbt_key |-> <<7, 0, 0, 0, 0, 0, 0, 0>>],
      [key |-> KeyHash, fbt_key |-> <<37, 35, 34, 132, 228, 156, 242, 203>>] }
MCAnswered ==
    { [idx |-> <<1, 2, 3, 4, 255, 128, 0, 0>>, flag |-> 255, values |-> << <<<<102>>, <<1>>>> >>],
      [idx |-> Zero8, flag |-> 0, values |-> <<>>] }
=============================================================================
