---------------------------- MODULE MCMetricRunner ----------------------------
EXTENDS MetricRunner
=============================================================================
