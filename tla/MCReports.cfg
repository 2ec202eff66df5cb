INIT Init
NEXT Next
CONSTANTS
    None = None
    MaxResult = 20
    Offset <- MCOffset
    CrawlerASN <- MCCrawlerASN
    Day = 100
    Presets <- MCPresets
    Lower <- MCLower
    Junk <- MCJunk
    MaxKeys = 2
    MaxRSABits = 8192
    MaxExponent = 65537
    MaxDER = 100
    ManyPrimes = {3}
    Order = 3
    Bin <- MCBin
    MinPeriod = 1
    MaxCounter = 8
INVARIANTS CleanHolds HeadersHold BotHolds GateHolds MailHolds TokenHolds KeyHolds AnswersHold
CHECK_DEADLOCK FALSE
