------------------------------- MODULE MCScraper --------------------------------
(***************************************************************************)
(* An instance of Scraper for TLC: one metric store, one HTTP target.      *)
(***************************************************************************)
EXTENDS Scraper
================================================================================
