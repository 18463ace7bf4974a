--------------------------- MODULE MarketService ---------------------------
(* CoinGeckoService of coingecko/service.py: the operations a tool of the    *)
(* market agent calls.  Each is a task that asks CoinGeckoClient.get once or *)
(* several times, one request after the other, and decides from what comes   *)
(* back.  What one get ends in is the environment's choice, among what       *)
(* AsyncHttpClient can end in (HttpClient's verdicts).                       *)
EXTENDS Sampling, FiniteSets, SequencesExt

CONSTANTS
    Coins,       \* how many coins /coins/markets lists, at most
    Changes,     \* the price changes a coin may show
    NoChange,    \* a coin without a figure for the window: the figure is null or
                 \* no number, or the item is no object (service.py:181)
    TopN,        \* 30: the length of the gainers' and of the losers' list
    MaxLength,   \* bound: the length of a series
    LeastPoints, \* 10, the low end of _clamp on max_points
    MostPoints   \* 250, its high end

ASSUME MarketAssumption ==
    /\ Coins \in Nat /\ TopN \in Nat /\ MaxLength \in Nat
    /\ Changes \subseteq Int /\ NoChange \notin Changes
    /\ LeastPoints \in Nat \ {0} /\ MostPoints \in Nat /\ LeastPoints <= MostPoints

VARIABLES
    enabled,  \* is a CoinGecko key configured?
    op,       \* the operation under way, and its arguments
    left,     \* search_coin_market: the attempts not made yet
    error,    \* last_error
    asked,    \* history: the gets made, each [how, end]
    result    \* what the operation returned or raised

vars == <<enabled, op, left, error, asked, result>>

None == [kind |-> "none"]
Raise(what) == [kind |-> "raise", what |-> what]

(* What a get may end in: data (a list or anything else), UpstreamAPIError   *)
(* by status, its subclass RateLimitedError, or an exception that is no      *)
(* UpstreamAPIError at all (a body that is not JSON).                        *)
Upstream == {"401", "403", "404", "500", "network"}
Failures == Upstream \cup {"RateLimited", "JSONDecode"}

Durations == {"1h", "24h", "7d", "14d", "30d", "60d", "1y"}
MarketsWindows == {"1h", "24h", "7d", "14d", "30d", "1y"}
Lookups == {"auto", "ids", "symbols", "names"}

Clamp(v, low, high) == Smaller(Larger(v, low), high)

(* The attempts of search_coin_market, in order. *)
Attempts(lookup) ==
    IF lookup = "auto" THEN <<"ids", "symbols", "names">> ELSE <<lookup>>

Idle == op.name = "idle" /\ UNCHANGED enabled
Asking(name) == op.name = name /\ result = None /\ UNCHANGED <<enabled, op>>

MarketInit ==
    /\ enabled \in BOOLEAN
    /\ op = [name |-> "idle"]
    /\ left = <<>>
    /\ error = "none"
    /\ asked = <<>>
    /\ result = None

(* A blank query, id or address is refused before anything is asked; without *)
(* a key the first get raises ConfigError.                                   *)
Refused(blank) ==
    IF blank THEN Raise("ValueError")
    ELSE IF ~enabled THEN Raise("ConfigError") ELSE None

Begin(o, blank, attempts) ==
    /\ Idle
    /\ op' = o
    /\ left' = attempts
    /\ result' = Refused(blank)
    /\ UNCHANGED <<error, asked>>

Note(how, end) == asked' = Append(asked, [how |-> how, end |-> end])

(* -- search_coin_market -------------------------------------------------- *)
SearchCoinMarket(lookup, blank) ==
    Begin([name |-> "search_coin_market", lookup |-> lookup], blank, Attempts(lookup))

(* An attempt that found nothing: the next one, or the empty answer. *)
NextAttempt ==
    /\ left' = Tail(left)
    /\ result' = IF Tail(left) = <<>> THEN [kind |-> "empty", error |-> error'] ELSE None

(* Mutant: a rate limit is passed over like any other failure. *)
StopsPastThrottle == {"JSONDecode"}

(* The failures that are raised at once. *)
Stops == {"RateLimited", "JSONDecode"}

(* Mutant: an attempt that finds nothing wipes out the failure before it. *)
FoundNothingForgets == error' = "none"

FoundNothing == UNCHANGED error

Searched(end) ==
    /\ Asking("search_coin_market")
    /\ Note(Head(left), end)
    /\ \/ end \in Stops /\ result' = Raise(end) /\ UNCHANGED <<left, error>>
       \/ end \in Failures \ Stops /\ error' = end /\ NextAttempt
       \/ end \in {"empty", "object"} /\ FoundNothing /\ NextAttempt
       \/ /\ end = "list"
          /\ result' = [kind |-> "match", by |-> Head(left)]
          /\ UNCHANGED <<left, error>>

(* -- top_movers ---------------------------------------------------------- *)
TopMovers(duration) ==
    Begin([name |-> "top_movers", duration |-> duration], FALSE, <<"premium", "markets">>)

(* Mutant: a window the fallback endpoint does not know is passed on. *)
WindowUnchecked(duration) == duration

Window(duration) == IF duration \in MarketsWindows THEN duration ELSE "30d"

(* Mutant: every failure of the paid endpoint leads to the fallback. *)
ForbiddenAny == Failures

Forbidden == {"401", "403"}

(* The paid endpoint: its data are passed on; 401 or 403 leads to the        *)
(* fallback, any other failure is raised.                                    *)
AskedPremium(end) ==
    /\ Asking("top_movers") /\ Head(left) = "premium"
    /\ Note("premium", end)
    /\ UNCHANGED error
    /\ \/ end \in Forbidden /\ left' = Tail(left) /\ UNCHANGED result
       \/ end \in Failures \ Forbidden /\ result' = Raise(end) /\ UNCHANGED left
       \/ end = "list" /\ result' = [kind |-> "data"] /\ UNCHANGED left

(* The figures of the coins that have one, by their place in the answer. *)
Sortable(coins) == [i \in {k \in 1..Len(coins) : coins[k] # NoChange} |-> coins[i]]

(* Those that sorted() puts before i: among equals, who comes first keeps    *)
(* its place, also with reverse=True.                                        *)
Before(key, i) == {j \in DOMAIN key : key[j] < key[i] \/ (key[j] = key[i] /\ j < i)}

(* sorted()[:30] *)
Top(key) ==
    [k \in 1..Smaller(TopN, Cardinality(DOMAIN key)) |->
        CHOOSE i \in DOMAIN key : Cardinality(Before(key, i)) = k - 1]

Negated(key) == [i \in DOMAIN key |-> -key[i]]

Gainers(coins) == Top(Negated(Sortable(coins)))

(* Mutant: the losers are taken from the gainers, the other way round. *)
LosersOfTheTop(coins) == Reverse(Gainers(coins))

Losers(coins) == Top(Sortable(coins))

AskedMarkets(coins) ==
    /\ Asking("top_movers") /\ Head(left) = "markets"
    /\ Note("markets", "list")
    /\ result' = [kind |-> "movers", coins |-> coins, window |-> Window(op.duration),
                  gainers |-> Gainers(coins), losers |-> Losers(coins)]
    /\ UNCHANGED <<left, error>>

(* -- coin_market_chart and coin_ohlc -------------------------------------- *)
SeriesOf(max, blank) == Begin([name |-> "series", max |-> max], blank, <<"series">>)

Series(n) == [i \in 1..n |-> i]

AskedSeries(n) ==
    /\ Asking("series")
    /\ Note("series", "list")
    /\ result' = [kind |-> "series", from |-> n,
                  points |-> SamplePoints(Series(n),
                                          Clamp(op.max, LeastPoints, MostPoints))]
    /\ UNCHANGED <<left, error>>

(* -- the operations that check their arguments, ask once and wrap: search,  *)
(* details, prices by contract, exchanges, ... and all of GeckoTerminal's -- *)
PlainOperation(blank) == Begin([name |-> "plain"], blank, <<"plain">>)

AskedPlain ==
    /\ Asking("plain")
    /\ Note("plain", "list")
    /\ result' = [kind |-> "data"]
    /\ UNCHANGED <<left, error>>

(* A get that fails ends every operation but the two that go on above. *)
AskFailed(end) ==
    /\ Asking("series") \/ Asking("plain") \/ (Asking("top_movers") /\ Head(left) = "markets")
    /\ Note(Head(left), end)
    /\ result' = Raise(end)
    /\ UNCHANGED <<left, error>>

Return ==
    /\ result # None
    /\ op' = [name |-> "idle"]
    /\ left' = <<>> /\ error' = "none" /\ asked' = <<>> /\ result' = None
    /\ UNCHANGED enabled

MarketLists == UNION {[1..n -> Changes \cup {NoChange}] : n \in 0..Coins}

MarketNext ==
    \/ \E blank \in BOOLEAN : \/ \E lookup \in Lookups : SearchCoinMarket(lookup, blank)
                              \/ \E max \in 0..MostPoints + 1 : SeriesOf(max, blank)
                              \/ PlainOperation(blank)
    \/ \E duration \in Durations : TopMovers(duration)
    \/ \E end \in Failures \cup {"list", "empty", "object"} : Searched(end)
    \/ \E end \in Failures \cup {"list"} : AskedPremium(end)
    \/ \E coins \in MarketLists : AskedMarkets(coins)
    \/ \E n \in 0..MaxLength : AskedSeries(n)
    \/ AskedPlain
    \/ \E end \in Failures : AskFailed(end)
    \/ Return

MarketSpec == MarketInit /\ [][MarketNext]_vars

-----------------------------------------------------------------------------
Results ==
    {None, [kind |-> "data"]}
    \cup [kind : {"raise"}, what : Failures \cup {"ValueError", "ConfigError"}]
    \cup [kind : {"match"}, by : {"ids", "symbols", "names"}]
    \cup [kind : {"empty"}, error : Upstream \cup {"none"}]
    \cup [kind : {"movers"}, coins : MarketLists, window : MarketsWindows,
          gainers : Seq(1..Coins), losers : Seq(1..Coins)]
    \cup [kind : {"series"}, from : 0..MaxLength, points : Seq(1..MaxLength)]

MarketTypeOK ==
    /\ enabled \in BOOLEAN
    /\ op.name \in {"idle", "search_coin_market", "top_movers", "series", "plain"}
    /\ error \in Upstream \cup {"none"}
    /\ result \in Results

Ends(hows) == {asked[i].end : i \in {k \in 1..Len(asked) : asked[k].how \in hows}}

(* A coin is found by the most precise way of looking that lists it: every   *)
(* way before it was tried, in order, and listed nothing or failed, and a    *)
(* 429 never was passed over (service.py:59-93).                             *)
MatchIsTheFirst ==
    result.kind = "match" =>
        LET n == Len(asked) IN
        /\ \A i \in 1..n : asked[i].how = Attempts(op.lookup)[i]
        /\ asked[n] = [how |-> result.by, end |-> "list"]
        /\ \A i \in 1..n - 1 : asked[i].end \in Upstream \cup {"empty", "object"}

(* An empty answer is honest: all ways were tried, none was rate limited,    *)
(* and it says "no error" exactly when the upstream answered them all.       *)
EmptyIsHonest ==
    result.kind = "empty" =>
        /\ Len(asked) = Len(Attempts(op.lookup))
        /\ \A i \in 1..Len(asked) : asked[i].end \in Upstream \cup {"empty", "object"}
        /\ (result.error = "none") <=> (\A i \in 1..Len(asked) : asked[i].end \notin Upstream)

(* Movers are derived from /coins/markets only when the plan forbids the     *)
(* paid endpoint: an outage or a 429 there is never answered with figures    *)
(* of another meaning (service.py:153-159).                                  *)
FallbackOnlyWhenForbidden ==
    /\ Ends({"markets"}) # {} => Ends({"premium"}) \in {{"401"}, {"403"}}
    /\ result.kind = "movers" => result.window \in MarketsWindows \cap {op.duration, "30d"}

(* The derived lists are what they say: no coin left out of one of them      *)
(* would deserve a place in it, and coins without a figure appear in none.   *)
MoversAreExtreme ==
    result.kind = "movers" =>
        LET coins == result.coins
            rated == {i \in 1..Len(coins) : coins[i] # NoChange}
            Listed(s) == {s[k] : k \in 1..Len(s)}
            Fair(s, Beats(_, _)) ==
                /\ Listed(s) \subseteq rated
                /\ Cardinality(Listed(s)) = Len(s)
                /\ Len(s) = Smaller(TopN, Cardinality(rated))
                /\ \A j, k \in 1..Len(s) : j < k => ~Beats(s[k], s[j])
                /\ \A i \in rated \ Listed(s), k \in 1..Len(s) : ~Beats(i, s[k])
        IN /\ Fair(result.gainers, LAMBDA i, j : coins[i] > coins[j])
           /\ Fair(result.losers, LAMBDA i, j : coins[i] < coins[j])

(* A cut series has max_points points (all of them, when it was shorter), in *)
(* the order of the series and without repetition, and it ends in the last   *)
(* point, which is the current price.                                        *)
SeriesKeepsItsEnd ==
    result.kind = "series" =>
        LET s == result.points IN
        /\ Len(s) = Smaller(result.from, Clamp(op.max, LeastPoints, MostPoints))
        /\ \A i, j \in 1..Len(s) : i < j => s[i] < s[j]
        /\ Len(s) > 0 => s[Len(s)] = result.from
        /\ Len(s) > 1 => s[1] = 1

(* What models.py:34 says: the series is sampled evenly.  Taken mildly: no   *)
(* two neighbours of the sample are more than twice as far apart as any      *)
(* other two.                                                                *)
SampledEvenly ==
    result.kind = "series" =>
        LET s == result.points IN
        \A i, j \in 1..Len(s) - 1 : s[i + 1] - s[i] <= 2 * (s[j + 1] - s[j])
=============================================================================
