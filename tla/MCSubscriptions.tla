-------------------------- MODULE MCSubscriptions --------------------------
EXTENDS Subscriptions

\* A filter that matches every event and one that misses some.
MCFilters == {Events, {e \in Events : e # 2}}

=============================================================================
