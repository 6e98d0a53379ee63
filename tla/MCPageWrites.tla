---------------------------- MODULE MCPageWrites ---------------------------
(* PageWrites on small pages: files whose next insert splits a *)
(* root that is a leaf or an internal node, and one whose next insert      *)
(* splits a leaf.  They are what inserting their keys in ascending order   *)
(* makes of a new file.                                                    *)
EXTENDS PageWrites

Rec == CHOOSE d \in Records : TRUE
Pk  == CHOOSE pk \in KeyPks : TRUE

Node(p, t, cells, right) ==
    [InsertCells(initEmptyNode(p, t), cells) EXCEPT !.right_page = right]
Leaf(p, keys) ==
    Node(p, TABLE_LEAF, [i \in DOMAIN keys |-> [key |-> keys[i], val |-> Rec, child |-> 0]], 0)
IndexLeaf(p, keys) ==
    Node(p, INDEX_LEAF, [i \in DOMAIN keys |-> [key |-> keys[i], val |-> Pk, child |-> 0]], 0)
Over(p, seps, children, right) ==
    Node(p, TABLE_INTERNAL,
         [i \in DOMAIN seps |-> [key |-> seps[i], val |-> NoValue, child |-> children[i]]], right)
IndexOver(p, seps, children, right) ==
    Node(p, INDEX_INTERNAL,
         [i \in DOMAIN seps |-> [key |-> seps[i], val |-> Pk, child |-> children[i]]], right)

OneLeaf == [file |-> << Leaf(1, <<10, 20, 30>>) >>, roots |-> {1}]

FullTable ==
    [file |-> << Over(1, <<20, 40, 60>>, <<3, 4, 5>>, 2), Leaf(2, <<70, 80>>),
                 Leaf(3, <<10, 20>>), Leaf(4, <<30, 40>>), Leaf(5, <<50, 60>>) >>,
     roots |-> {1}]

FullIndex ==
    [file |-> << Leaf(1, <<10>>), IndexOver(2, <<20, 40>>, <<4, 5>>, 3),
                 IndexLeaf(3, <<50, 60, 70>>), IndexLeaf(4, <<10, 20>>),
                 IndexLeaf(5, <<30, 40>>) >>,
     roots |-> {1, 2}]

(* A file that does not exist yet.                                         *)
NoFile == [file |-> <<>>, roots |-> {1}]

MCStartFiles == {OneLeaf, FullTable, FullIndex}
NewFiles == {NoFile}
=============================================================================
