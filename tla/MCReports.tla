------------------------------ MODULE MCReports ------------------------------
(* Instances of Reports, and of Versions and trend on all short inputs.    *)
EXTENDS Reports, Versions

\* A switch with all kinds of ports, and one that lost one.
MCPortLists == {<<"online", "faulty", "no_module">>, <<"online", "online">>}

\* No limit, no bucket, fewer and more buckets than there are.
MCLimits == {-1, 0, 2}

\* Data centres are only names: no definition or property prefers one.
Symmetry == Permutations(Dc)

Histories == UNION {[1 .. n -> {0, 5, 21, 500}] : n \in 0 .. 6}

Opposite(direction) == CASE direction = "rising"  -> "falling"
                         [] direction = "falling" -> "rising"
                         [] OTHER                 -> direction

\* "No made-up forecast" (reports.py:5): a history that never falls is not called falling,
\* and backwards its trend is the opposite; a trend is one of more than a per cent between
\* a minute of the first third and one of the last.
ASSUME TrendIsEarned ==
    \A occ \in Histories :
        /\ (\A i \in 1 .. Len(occ) - 1 : occ[i] <= occ[i + 1]) => trend(occ) # "falling"
        /\ trend(Reverse(occ)) = Opposite(trend(occ))
        /\ trend(occ) = "rising" =>
               \E i \in 1 .. Len(occ) \div 3, j \in Len(occ) - Len(occ) \div 3 + 1 .. Len(occ) :
                   occ[j] > occ[i] + 10
        /\ trend(occ) = "insufficient" <=> Len(occ) < 4

MCEolTable == (<<1, 0>> :> 200 @@ <<0, 1>> :> 10)

Texts == UNION {[1 .. n -> [number : {NULL, 0, 1}, tail : BOOLEAN]] : n \in 0 .. 3}
Tags  == [1 .. 3 -> [number : {0, 1}, tail : {FALSE}]]
Age   == ("supported" :> 0 @@ "eol_soon" :> 1 @@ "eol" :> 2)

\* Firmware only ages: as the days pass a version whose date is known is supported, then
\* warned about for 180 days, then out of support, and one that is not known stays so;
\* the inventory counts every switch once, by version and by status.
ASSUME FirmwareAges ==
    /\ \A v \in Texts, today \in {0, 9, 10, 11, 19, 20, 199, 200} :
           LET now == classify(v, today)
               next == classify(v, today + 1)
           IN  IF _major(v) \in DOMAIN EOL_TABLE THEN Age[now] <= Age[next]
               ELSE now = "unknown" /\ next = "unknown"
    /\ \A fos \in [1 .. 3 -> {<<>>} \cup Tags], today \in {0, 20} :
           /\ SumFunction(inventory(fos, today).by_version) = 3
           /\ SumFunction(inventory(fos, today).status_counts) = 3

\* An update is offered for a tag that can be read and is above the version that runs,
\* never both ways, never after an error, and what is newer than newer is newer.
ASSUME UpdateOffered ==
    /\ \A tag, current \in Texts, answer \in {"404", "HTTPError", "Exception", "tag"} :
           check_latest(answer, tag, current).update_available =>
               /\ ~check_latest(answer, tag, current).error
               /\ parse_semver(tag) # <<0, 0, 0>>
               /\ ~is_newer(current, tag)
    /\ \A a, b, c \in Tags : is_newer(a, b) /\ is_newer(b, c) => is_newer(a, c)
=============================================================================
