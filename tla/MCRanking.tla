------------------------------ MODULE MCRanking ------------------------------
EXTENDS RankingProps
=============================================================================
