-------------------------- MODULE MCEditTransaction --------------------------
(* EditTransaction for TLC: all batches of one or two edits, and those of  *)
(* three whose last edit alone may fail by itself.                         *)
EXTENDS EditTransaction

Edits(i, brings) ==
    [path : Paths, all : BOOLEAN, brings : brings, takes : SUBSET (1..(i - 1))]

Plain(path) == [path |-> path, all |-> FALSE, brings |-> {}, takes |-> {}]

ShortBatches == {<<e>> : e \in Edits(1, {{}})}
    \union {<<e, f>> : e \in Edits(1, {{}}), f \in Edits(2, {{}, {1}})}
    \union {<<Plain(p), Plain(q), g>> : p \in Paths, q \in Paths, g \in Edits(3, {{}})}

NoLinks == [path \in {} |-> path]
=============================================================================
