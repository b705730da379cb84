-------------------------------- MODULE Dict --------------------------------
\* Python dicts as functions whose domain is the set of keys present.

EmptyDict == [k \in {} |-> k]

\* d[k] = v
Put(d, k, v) == [x \in DOMAIN d \cup {k} |-> IF x = k THEN v ELSE d[x]]

\* d.pop(k, None)
Drop(d, k) == [x \in DOMAIN d \ {k} |-> d[x]]

\* d is a dict with keys in K and values in V.
IsDict(d, K, V) ==
    /\ d = [k \in DOMAIN d |-> d[k]]
    /\ DOMAIN d \subseteq K
    /\ \A k \in DOMAIN d : d[k] \in V
=============================================================================
