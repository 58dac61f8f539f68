-------------------------- MODULE MC_Notifications --------------------------
EXTENDS Notifications

CONSTANTS k1, k2

MCKeys == {k1, k2}

\* No keys, one key, two keys, and one key twice.
MCKeyLists == {<<>>, <<k1>>, <<k1, k2>>, <<k2, k2>>}

====
