---------------------------- MODULE MCScrapedMetrics ----------------------------
(****************************************************************************)
(* A program with two paths, whose states are mirrored, and an upstream     *)
(* scraper, whose samples carry its own marks.                              *)
(****************************************************************************)
EXTENDS ScrapedMetrics

Gauge(text) == [name |-> "m", text |-> text, covers |-> {"m"}]

Sample(name, labels, value) == [name |-> name, labels |-> labels, value |-> value]

X == [l |-> "x"]
Y == [l |-> "y"]
NoLabels == [l \in {} |-> ""]

\* The first path shows one label set or two, the second sometimes the same.
FirstPath == {
  [samples |-> <<Sample("m", X, 0)>>, descs |-> <<>>],
  [samples |-> <<Sample("m", X, 1), Sample("m", Y, 0), Sample("state_level", X, 1)>>,
   descs |-> <<Gauge("one"), [name |-> "state_level", text |-> "m", covers |-> {"state_level"}]>>]}

SecondPath == {
  [samples |-> <<Sample("m", Y, 1), Sample("m", X, 99)>>, descs |-> <<Gauge("two")>>]}

\* The upstream scraper shows what it scraped from a program x.
Upstream == {
  [samples |-> <<Sample("n", [scraped_from |-> "x", scrape_path |-> "x"], 0),
                 Sample("m", NoLabels, 1)>>, descs |-> <<Gauge("two")>>]}

MCExposed == [a |-> <<FirstPath, SecondPath>>, b |-> <<Upstream>>]
MCTargetLabels == [a |-> NoLabels, b |-> [l |-> "y"]]
MCNameOrder == <<"l", "scraped_from">>
MCCanonical == <<[l |-> "x", scraped_from |-> "a"], [l |-> "y", scraped_from |-> "a"],
                 [l |-> "y", scraped_from |-> "b"], [l |-> "y", scraped_from |-> "x"]>>
MCNaN == 99
MCTimes == {1, 2, 4}

=============================================================================
