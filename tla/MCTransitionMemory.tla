--------------------------- MODULE MCTransitionMemory ---------------------------
(* Networks for the configuration of TransitionMemory. *)
EXTENDS TransitionMemory

CONSTANT Sizes   \* of the tensors of inputs and layers

Input == [kind |-> "input", ins |-> <<>>, sent |-> FALSE]
Layer(ins) == [kind |-> "layer", ins |-> ins, sent |-> FALSE]
Concat(ins) == [kind |-> "concat", ins |-> ins, sent |-> FALSE]
Sent(node) == [node EXCEPT !.sent = TRUE]

\* All networks of n nodes in which nothing is sent yet.
Shapes(n) ==
    LET nodes(k) == LET lists == {<<i>> : i \in 1 .. k} \cup (1 .. k) \X (1 .. k)
                    IN  {Input} \cup {Layer(ins) : ins \in lists}
                            \cup {Concat(ins) : ins \in {l \in lists : Len(l) = 2}}
        grow[k \in 1 .. n] ==
            IF k = 1 THEN {<<Input>>}
            ELSE UNION {{Append(shape, node) : node \in nodes(k - 1)} : shape \in grow[k - 1]}
    IN  grow[n]

Unread(shape) == {n \in DOMAIN shape : \A m \in DOMAIN shape : n \notin ToSet(shape[m].ins)}

WithSent(shape, S) == [n \in DOMAIN shape |-> IF n \in S THEN Sent(shape[n]) ELSE shape[n]]

\* A value sent and used between two values; its memory is its own, so there are times when no
\* tensor of the pool is in use.
Forwarded == <<Input, Layer(<<1>>), Layer(<<2>>), Sent(Layer(<<2, 3>>)), Layer(<<4>>), Sent(Layer(<<5>>))>>

\* Five layers in a row.
Chain == <<Input, Layer(<<1>>), Layer(<<2>>), Layer(<<3>>), Layer(<<4>>), Sent(Layer(<<5>>))>>

\* A residual block between layers.
Residual == <<Input, Layer(<<1>>), Layer(<<2>>), Layer(<<3>>), Layer(<<4, 2>>), Layer(<<5>>), Sent(Layer(<<6>>))>>

\* A fire module of SqueezeNet between layers.
Fire == <<Input, Layer(<<1>>), Layer(<<2>>), Layer(<<2>>), Concat(<<3, 4>>), Layer(<<5>>), Layer(<<6>>),
          Sent(Layer(<<7>>))>>

\* A concatenation of a concatenation, one of whose parts is read by a layer of its own.
Nested == <<Input, Layer(<<1>>), Layer(<<2>>), Concat(<<2, 3>>), Layer(<<1>>), Concat(<<4, 5>>), Layer(<<6>>),
            Sent(Layer(<<7>>))>>

\* A network with a size for every tensor, where those of inputs and layers are given.
WithSizes(shape, given) ==
    LET size[n \in DOMAIN shape] ==
          IF shape[n].kind = "concat" THEN FoldLeft(LAMBDA sum, i : sum + size[i], 0, shape[n].ins)
          ELSE given[n]
    IN  [n \in DOMAIN shape |-> [kind |-> shape[n].kind, ins |-> shape[n].ins, sent |-> shape[n].sent,
                                 size |-> size[n]]]

Sized(shape) == {WithSizes(shape, given) : given \in [DOMAIN shape -> Sizes]}

\* All networks of up to 3 nodes, those of 4 in which nothing is both sent and read, and the
\* networks above.
SmallAndTypical ==
    UNION {Sized(shape) : shape \in {s \in
        UNION {{WithSent(shape, Unread(shape) \cup S) : S \in SUBSET (1 .. n), shape \in Shapes(n)} : n \in 1 .. 3}
        \cup {WithSent(shape, Unread(shape)) : shape \in Shapes(4)}
        \cup {Forwarded, Chain, Residual, Fire, Nested} :
        WellFormed(WithSizes(s, [n \in DOMAIN s |-> 1]))}}
================================================================================
